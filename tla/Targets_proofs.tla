--------------------------- MODULE Targets_proofs ---------------------------
(***************************************************************************)
(* Proofs about the targets: how a playlist is written (PlaylistUpdate),   *)
(* and with which client (TargetCache).                                    *)
(*                                                                         *)
(* PlaylistUpdate, for any items and wanted lists of any length, and for   *)
(* any number of attempts and troubles:                                    *)
(*                                                                         *)
(*   - the types (PublicationTypes);                                       *)
(*   - StraysBounded: the invariant PaidFor counts a failed look at the    *)
(*     saved playlist in advance, because the second playlist it causes    *)
(*     becomes a stray only when it is saved or given up;                  *)
(*   - UpdateLosesNothing: CoverInv follows each wanted item through the   *)
(*     requests still to make;                                             *)
(*   - CleanSyncExact: OnTrack says that what an undisturbed attempt has   *)
(*     still to do turns the playlist into the wanted list.                *)
(*                                                                         *)
(* The last one rests on what the list operators of the plan compute.      *)
(* Their lemmas argue by induction over lists, in the form of a least      *)
(* counterexample (LeastNumber, ListInduction).                            *)
(*                                                                         *)
(* TargetCache, for any number of requests, changes of the settings,       *)
(* rotations and failures: type correctness, and that neither a child task *)
(* nor the API goes on with a client of superseded settings.               *)
(***************************************************************************)
EXTENDS PlaylistUpdate, TargetCache, FiniteSetTheorems, SequenceTheorems,
        WellFoundedInduction, TLAPS

-----------------------------------------------------------------------------
(* Lists and what is left of them in a set *)

\* A set of numbers that is not empty has a least one: the form in which the
\* lemmas below argue by induction.
LEMMA LeastNumber ==
    ASSUME NEW T \in SUBSET Nat, T # {}
    PROVE  \E x \in T : \A y \in T : x <= y
<1> DEFINE R == {xy \in Nat \X Nat : xy[1] < xy[2]}
<1>1. IsWellFoundedOn(R, Nat)
  BY NatLessThanWellFounded DEF OpToRel
<1> HIDE DEF R
<1>2. PICK x \in T : \A y \in T : ~ (<<y, x>> \in R)
  BY <1>1, WFMin
<1>3. \A y \in T : <<y, x>> \in R <=> y < x
  BY DEF R
<1>4. \A y \in T : ~ (y < x)
  BY <1>2, <1>3
<1> QED
  BY <1>2, <1>4

\* The lists that the definition of Inside builds, for every prefix.
IsKept(kept, seq, set) ==
    kept = [i \in 0..Len(seq) |->
              IF i = 0 THEN <<>>
              ELSE IF seq[i] \in set THEN Append(kept[i - 1], seq[i]) ELSE kept[i - 1]]

\* They exist,
LEMMA KeptExists ==
    ASSUME NEW S, NEW seq \in Seq(S), NEW set
    PROVE  \E kept : IsKept(kept, seq, set)
<1> DEFINE Upto(k) == \E f : f = [i \in 0..k |->
                IF i = 0 THEN <<>>
                ELSE IF seq[i] \in set THEN Append(f[i - 1], seq[i]) ELSE f[i - 1]]
           T == {k \in Nat : ~Upto(k)}
<1>1. Upto(0)
  <2>1. [i \in 0..0 |-> <<>>] = [i \in 0..0 |->
                IF i = 0 THEN <<>>
                ELSE IF seq[i] \in set THEN Append([j \in 0..0 |-> <<>>][i - 1], seq[i])
                                       ELSE [j \in 0..0 |-> <<>>][i - 1]]
    OBVIOUS
  <2> QED BY <2>1
<1>2. ASSUME NEW k \in Nat, Upto(k) PROVE Upto(k + 1)
  <2>1. PICK f : f = [i \in 0..k |->
                IF i = 0 THEN <<>>
                ELSE IF seq[i] \in set THEN Append(f[i - 1], seq[i]) ELSE f[i - 1]]
    BY <1>2
  <2> DEFINE g == [i \in 0..(k + 1) |->
                     IF i <= k THEN f[i]
                     ELSE IF seq[i] \in set THEN Append(f[k], seq[i]) ELSE f[k]]
  <2>2. \A i \in 0..k : f[i] = IF i = 0 THEN <<>>
                ELSE IF seq[i] \in set THEN Append(f[i - 1], seq[i]) ELSE f[i - 1]
    BY <2>1
  <2>3. \A i \in 0..k : g[i] = f[i]
    OBVIOUS
  <2>4. g[k + 1] = IF seq[k + 1] \in set THEN Append(g[k], seq[k + 1]) ELSE g[k]
    BY <2>3
  <2>5. \A i \in 0..(k + 1) : g[i] = IF i = 0 THEN <<>>
                ELSE IF seq[i] \in set THEN Append(g[i - 1], seq[i]) ELSE g[i - 1]
    <3>1. ASSUME NEW i \in 0..k PROVE g[i] = IF i = 0 THEN <<>>
                ELSE IF seq[i] \in set THEN Append(g[i - 1], seq[i]) ELSE g[i - 1]
      <4>1. CASE i = 0
        BY <2>2, <2>3, <4>1
      <4>2. CASE i # 0
        <5>1. i - 1 \in 0..k
          BY <4>2
        <5> HIDE DEF g
        <5> QED BY <2>2, <2>3, <4>2, <5>1
      <4> QED BY <4>1, <4>2
    <3> HIDE DEF g
    <3>2. \A i \in 0..(k + 1) : i \in 0..k \/ i = k + 1
      OBVIOUS
    <3>3. (k + 1) - 1 = k /\ k + 1 # 0
      OBVIOUS
    <3> QED BY <3>1, <3>2, <3>3, <2>4
  <2>6. g = [i \in 0..(k + 1) |-> g[i]]
    OBVIOUS
  <2> HIDE DEF g
  <2>7. g = [i \in 0..(k + 1) |-> IF i = 0 THEN <<>>
                ELSE IF seq[i] \in set THEN Append(g[i - 1], seq[i]) ELSE g[i - 1]]
    BY <2>5, <2>6, Zenon
  <2> QED BY <2>7
<1> HIDE DEF Upto
<1>3. \A k \in Nat : Upto(k)
  <2> SUFFICES ASSUME T # {} PROVE FALSE
    OBVIOUS
  <2>1. PICK k \in T : \A l \in T : k <= l
    BY LeastNumber
  <2>2. k # 0
    BY <1>1, <2>1
  <2>3. k - 1 \in Nat /\ k - 1 \notin T
    BY <2>1, <2>2
  <2>4. Upto(k - 1)
    BY <2>3
  <2> QED
    BY <1>2, <2>1, <2>3, <2>4
<1>4. Upto(Len(seq))
  BY <1>3, LenProperties
<1> QED
  BY <1>4 DEF Upto, IsKept

\* and Inside is the last of them.
LEMMA InsideIsLast ==
    ASSUME NEW S, NEW seq \in Seq(S), NEW set
    PROVE  \E kept : IsKept(kept, seq, set) /\ Inside(seq, set) = kept[Len(seq)]
<1> DEFINE all == CHOOSE kept : IsKept(kept, seq, set)
<1>1. IsKept(all, seq, set)
  BY KeptExists
<1>2. Inside(seq, set) = all[Len(seq)]
  BY DEF Inside, IsKept
<1> QED
  BY <1>1, <1>2

\* Induction over lists, for a set of lists.
LEMMA ListInduction ==
    ASSUME NEW S, NEW T \in SUBSET Seq(S), <<>> \in T,
           \A s \in T, e \in S : Append(s, e) \in T
    PROVE  \A s \in Seq(S) : s \in T
<1> SUFFICES ASSUME NEW bad \in Seq(S), bad \notin T PROVE FALSE
  OBVIOUS
<1> DEFINE Lens == {k \in Nat : \E s \in Seq(S) : s \notin T /\ Len(s) = k}
<1>1. Len(bad) \in Lens
  BY LenProperties
<1>2. PICK k \in Lens : \A l \in Lens : k <= l
  BY <1>1, LeastNumber
<1>3. PICK s \in Seq(S) : s \notin T /\ Len(s) = k
  BY <1>2
<1>4. PICK front \in Seq(S), e \in S : s = Append(front, e)
  BY <1>3, SequenceEmptyOrAppend
<1>5. Len(front) \in Nat /\ Len(s) = Len(front) + 1
  BY <1>4, AppendProperties, LenProperties
<1>6. front \notin T => Len(front) \in Lens
  BY <1>5
<1> HIDE DEF Lens
<1>7. front \in T
  BY <1>2, <1>3, <1>5, <1>6
<1> QED
  BY <1>3, <1>4, <1>7

\* Their values, one by one.
LEMMA KeptValues ==
    ASSUME NEW S, NEW s \in Seq(S), NEW set, NEW f, IsKept(f, s, set)
    PROVE  /\ f[0] = <<>>
           /\ \A i \in 1..Len(s) :
                 f[i] = IF s[i] \in set THEN Append(f[i - 1], s[i]) ELSE f[i - 1]
<1>1. Len(s) \in Nat
  BY LenProperties
<1>2. \A i \in 0..Len(s) : f[i] = IF i = 0 THEN <<>>
              ELSE IF s[i] \in set THEN Append(f[i - 1], s[i]) ELSE f[i - 1]
  BY DEF IsKept
<1>3. 0 \in 0..Len(s) /\ \A i \in 1..Len(s) : i \in 0..Len(s) /\ i # 0
  BY <1>1
<1> QED
  BY <1>2, <1>3

\* The lists kept of two sequences agree as long as the sequences do.
LEMMA KeptAgree ==
    ASSUME NEW S, NEW s \in Seq(S), NEW t \in Seq(S), NEW set, NEW f, NEW g,
           IsKept(f, s, set), IsKept(g, t, set), Len(s) <= Len(t),
           \A i \in 1..Len(s) : s[i] = t[i]
    PROVE  \A i \in 0..Len(s) : f[i] = g[i]
<1> DEFINE T == {i \in 0..Len(s) : f[i] # g[i]}
<1> SUFFICES ASSUME T # {} PROVE FALSE
  OBVIOUS
<1>1. Len(s) \in Nat /\ Len(t) \in Nat
  BY LenProperties
<1>2. T \in SUBSET Nat
  BY <1>1
<1>3. PICK i \in T : \A j \in T : i <= j
  BY <1>2, LeastNumber
<1>4. f[0] = <<>> /\ g[0] = <<>>
  BY KeptValues
<1>5. i \in 1..Len(s) /\ i - 1 \in 0..Len(s) /\ i - 1 \notin T
  BY <1>1, <1>3, <1>4
<1>6. f[i - 1] = g[i - 1]
  BY <1>5
<1>7. f[i] = IF s[i] \in set THEN Append(f[i - 1], s[i]) ELSE f[i - 1]
  BY <1>5, KeptValues
<1>8. g[i] = IF t[i] \in set THEN Append(g[i - 1], t[i]) ELSE g[i - 1]
  <2>1. i \in 1..Len(t)
    BY <1>1, <1>5
  <2> QED BY <2>1, KeptValues
<1> QED
  BY <1>3, <1>5, <1>6, <1>7, <1>8

\* What Inside does with the last entry.
LEMMA InsideGrows ==
    ASSUME NEW S, NEW s \in Seq(S), NEW e \in S, NEW set
    PROVE  /\ Inside(<<>>, set) = <<>>
           /\ Inside(Append(s, e), set) =
                 IF e \in set THEN Append(Inside(s, set), e) ELSE Inside(s, set)
<1>1. Inside(<<>>, set) = <<>>
  <2>1. <<>> \in Seq(S) /\ Len(<<>>) = 0
    BY EmptySeq
  <2>2. PICK f : IsKept(f, <<>>, set) /\ Inside(<<>>, set) = f[0]
    BY <2>1, InsideIsLast
  <2> QED
    BY <2>1, <2>2 DEF IsKept
<1>2. PICK f : IsKept(f, s, set) /\ Inside(s, set) = f[Len(s)]
  BY InsideIsLast
<1> DEFINE t == Append(s, e)
<1>3. /\ t \in Seq(S) /\ Len(s) \in Nat /\ Len(t) = Len(s) + 1 /\ t[Len(t)] = e
      /\ \A i \in 1..Len(s) : s[i] = t[i]
  BY AppendProperties, LenProperties
<1> HIDE DEF t
<1>4. PICK g : IsKept(g, t, set) /\ Inside(t, set) = g[Len(t)]
  BY <1>3, InsideIsLast
<1>5. f[Len(s)] = g[Len(s)]
  <2>1. Len(s) <= Len(t) /\ Len(s) \in 0..Len(s)
    BY <1>3
  <2>2. \A i \in 0..Len(s) : f[i] = g[i]
    BY <1>2, <1>3, <1>4, <2>1, KeptAgree
  <2> QED BY <2>1, <2>2
<1>6. g[Len(t)] = IF e \in set THEN Append(g[Len(s)], e) ELSE g[Len(s)]
  <2>1. Len(t) \in 1..Len(t) /\ Len(t) - 1 = Len(s)
    BY <1>3
  <2> QED BY <1>3, <1>4, <2>1, KeptValues
<1> QED
  BY <1>1, <1>2, <1>4, <1>5, <1>6 DEF t

\* What is inside a set consists of the entries that are in it.
LEMMA InsideType ==
    ASSUME NEW S, NEW set
    PROVE  \A s \in Seq(S) :
              Inside(s, set) \in Seq(S) /\ ItemsOf(Inside(s, set)) = ItemsOf(s) \cap set
<1> DEFINE T == {s \in Seq(S) :
                   Inside(s, set) \in Seq(S) /\ ItemsOf(Inside(s, set)) = ItemsOf(s) \cap set}
<1>1. <<>> \in T
  <2>1. ItemsOf(<<>>) = {} /\ <<>> \in Seq(S)
    BY DEF ItemsOf
  <2>2. PICK k : IsKept(k, <<>>, set) /\ Inside(<<>>, set) = k[Len(<<>>)]
    BY <2>1, InsideIsLast
  <2>3. Inside(<<>>, set) = <<>>
    BY <2>2 DEF IsKept
  <2> QED BY <2>1, <2>3
<1>2. ASSUME NEW s \in T, NEW e \in S PROVE Append(s, e) \in T
  <2>1. s \in Seq(S) /\ Inside(s, set) \in Seq(S) /\ ItemsOf(Inside(s, set)) = ItemsOf(s) \cap set
    OBVIOUS
  <2>2. \A r \in Seq(S) : Append(r, e) \in Seq(S) /\ ItemsOf(Append(r, e)) = ItemsOf(r) \cup {e}
    <3> TAKE r \in Seq(S)
    <3>1. /\ Append(r, e) \in Seq(S) /\ Len(r) \in Nat /\ Len(Append(r, e)) = Len(r) + 1
          /\ \A i \in 1..Len(r) : Append(r, e)[i] = r[i]
          /\ Append(r, e)[Len(r) + 1] = e
      BY AppendProperties, LenProperties
    <3>2. DOMAIN r = 1..Len(r) /\ DOMAIN Append(r, e) = 1..(Len(r) + 1)
      BY <3>1, LenProperties
    <3> QED BY <3>1, <3>2 DEF ItemsOf
  <2>3. CASE e \in set
    <3>1. Inside(Append(s, e), set) = Append(Inside(s, set), e)
      BY <2>1, <2>3, InsideGrows
    <3> QED BY <2>1, <2>2, <2>3, <3>1
  <2>4. CASE e \notin set
    <3>1. Inside(Append(s, e), set) = Inside(s, set)
      BY <2>1, <2>4, InsideGrows
    <3> QED BY <2>1, <2>2, <2>4, <3>1
  <2> QED BY <2>3, <2>4
<1> QED
  <2> HIDE DEF T
  <2>1. T \in SUBSET Seq(S)
    BY DEF T
  <2>2. \A s \in Seq(S) : s \in T
    BY <1>1, <1>2, <2>1, ListInduction
  <2> QED BY <2>2 DEF T

\* A list none of whose entries is in the set leaves nothing inside it.
LEMMA InsideNone ==
    ASSUME NEW S, NEW s \in Seq(S), NEW set, ItemsOf(s) \cap set = {}
    PROVE  Inside(s, set) = <<>>
<1>1. Inside(s, set) \in Seq(S) /\ ItemsOf(Inside(s, set)) = {}
  BY InsideType
<1>2. ASSUME NEW q \in Seq(S), q # <<>> PROVE ItemsOf(q) # {}
  <2>1. 1 \in DOMAIN q
    BY <1>2
  <2> QED BY <2>1 DEF ItemsOf
<1> QED
  BY <1>1, <1>2

\* What is inside depends on the set only as far as the entries go, and on a
\* list part by part.
LEMMA InsideSame ==
    ASSUME NEW S, NEW A, NEW B
    PROVE  \A s \in Seq(S) : ItemsOf(s) \cap A = ItemsOf(s) \cap B => Inside(s, A) = Inside(s, B)
<1> DEFINE Same(s) == ItemsOf(s) \cap A = ItemsOf(s) \cap B => Inside(s, A) = Inside(s, B)
           T == {s \in Seq(S) : Same(s)}
<1>1. <<>> \in T
  <2>1. <<>> \in Seq(S) /\ ItemsOf(<<>>) = {}
    BY DEF ItemsOf
  <2>2. Inside(<<>>, A) = <<>> /\ Inside(<<>>, B) = <<>>
    BY <2>1, InsideNone
  <2> QED BY <2>1, <2>2
<1>2. ASSUME NEW s \in T, NEW e \in S PROVE Append(s, e) \in T
  <2>1. ItemsOf(Append(s, e)) = ItemsOf(s) \cup {e}
    <3>1. /\ Len(s) \in Nat /\ Len(Append(s, e)) = Len(s) + 1
          /\ \A i \in 1..Len(s) : Append(s, e)[i] = s[i]
          /\ Append(s, e)[Len(s) + 1] = e
      BY AppendProperties, LenProperties
    <3>2. DOMAIN s = 1..Len(s) /\ DOMAIN Append(s, e) = 1..(Len(s) + 1)
      BY <3>1, LenProperties
    <3> QED BY <3>1, <3>2 DEF ItemsOf
  <2>2. Append(s, e) \in Seq(S)
    BY AppendProperties
  <2>3. Inside(Append(s, e), A) = IF e \in A THEN Append(Inside(s, A), e) ELSE Inside(s, A)
    BY InsideGrows
  <2>4. Inside(Append(s, e), B) = IF e \in B THEN Append(Inside(s, B), e) ELSE Inside(s, B)
    BY InsideGrows
  <2>5. ASSUME ItemsOf(Append(s, e)) \cap A = ItemsOf(Append(s, e)) \cap B
        PROVE  Inside(Append(s, e), A) = Inside(Append(s, e), B)
    <3>1. ItemsOf(s) \cap A = ItemsOf(s) \cap B /\ (e \in A <=> e \in B)
      BY <2>1, <2>5
    <3>2. Inside(s, A) = Inside(s, B)
      BY <3>1
    <3> QED BY <2>3, <2>4, <3>1, <3>2
  <2> QED BY <2>2, <2>5
<1> HIDE DEF T
<1>3. T \in SUBSET Seq(S)
  BY DEF T
<1>4. \A s \in Seq(S) : s \in T
  BY <1>1, <1>2, <1>3, ListInduction
<1> QED
  BY <1>4 DEF T

\* What is inside two lists in a row is what is inside each.
LEMMA InsideConcat ==
    ASSUME NEW S, NEW set, NEW s \in Seq(S)
    PROVE  \A t \in Seq(S) : Inside(s \o t, set) = Inside(s, set) \o Inside(t, set)
<1> DEFINE T == {t \in Seq(S) : Inside(s \o t, set) = Inside(s, set) \o Inside(t, set)}
<1>1. <<>> \in T
  <2>1. <<>> \in Seq(S) /\ ItemsOf(<<>>) = {}
    BY DEF ItemsOf
  <2>2. Inside(<<>>, set) = <<>>
    BY <2>1, InsideNone
  <2>3. s \o <<>> = s
    BY ConcatEmptySeq
  <2>4. Inside(s, set) \in Seq(S)
    BY InsideType
  <2>5. Inside(s, set) \o <<>> = Inside(s, set)
    BY <2>4, ConcatEmptySeq
  <2> QED BY <2>1, <2>2, <2>3, <2>5
<1>2. ASSUME NEW t \in T, NEW e \in S PROVE Append(t, e) \in T
  <2>1. t \in Seq(S) /\ Append(t, e) \in Seq(S) /\ s \o t \in Seq(S)
    BY AppendProperties, ConcatProperties
  <2>2. Inside(s, set) \in Seq(S) /\ Inside(t, set) \in Seq(S)
    BY <2>1, InsideType
  <2>3. \A a, b \in Seq(S) : a \o Append(b, e) = Append(a \o b, e)
    OBVIOUS
  <2>4. s \o Append(t, e) = Append(s \o t, e)
    BY <2>1, <2>3
  <2>5. Inside(Append(s \o t, e), set) =
            IF e \in set THEN Append(Inside(s \o t, set), e) ELSE Inside(s \o t, set)
    <3> DEFINE u == s \o t
    <3>1. u \in Seq(S)
      BY <2>1
    <3> HIDE DEF u
    <3>2. Inside(Append(u, e), set) =
              IF e \in set THEN Append(Inside(u, set), e) ELSE Inside(u, set)
      BY <3>1, InsideGrows
    <3> QED BY <3>2 DEF u
  <2>6. Inside(Append(t, e), set) =
            IF e \in set THEN Append(Inside(t, set), e) ELSE Inside(t, set)
    BY <2>1, InsideGrows
  <2>7. Inside(s \o t, set) = Inside(s, set) \o Inside(t, set)
    OBVIOUS
  <2>8. Inside(s, set) \o Append(Inside(t, set), e) = Append(Inside(s, set) \o Inside(t, set), e)
    BY <2>2, <2>3
  <2>9. Inside(s \o Append(t, e), set) = Inside(s, set) \o Inside(Append(t, e), set)
    BY <2>4, <2>5, <2>6, <2>7, <2>8
  <2> QED BY <2>1, <2>9
<1> HIDE DEF T
<1>3. T \in SUBSET Seq(S)
  BY DEF T
<1>4. \A t \in Seq(S) : t \in T
  BY <1>1, <1>2, <1>3, ListInduction
<1> QED
  BY <1>4 DEF T

\* A list all of whose entries are in the set is left as it is.
LEMMA InsideAll ==
    ASSUME NEW S, NEW set
    PROVE  \A s \in Seq(S) : ItemsOf(s) \subseteq set => Inside(s, set) = s
<1> DEFINE T == {s \in Seq(S) : Inside(s, S) = s}
<1>1. <<>> \in T
  <2>1. <<>> \in Seq(S) /\ ItemsOf(<<>>) = {}
    BY DEF ItemsOf
  <2> QED BY <2>1, InsideNone
<1>2. ASSUME NEW s \in T, NEW e \in S PROVE Append(s, e) \in T
  <2>1. Inside(Append(s, e), S) = Append(Inside(s, S), e)
    BY InsideGrows
  <2>2. Append(s, e) \in Seq(S)
    BY AppendProperties
  <2> QED BY <2>1, <2>2
<1> HIDE DEF T
<1>3. T \in SUBSET Seq(S)
  BY DEF T
<1>4. \A s \in Seq(S) : s \in T
  BY <1>1, <1>2, <1>3, ListInduction
<1>5. ASSUME NEW s \in Seq(S), ItemsOf(s) \subseteq set PROVE Inside(s, set) = s
  <2>1. ItemsOf(s) \subseteq S
    BY DEF ItemsOf
  <2>2. Inside(s, set) = Inside(s, S)
    BY <1>5, <2>1, InsideSame
  <2>3. Inside(s, S) = s
    BY <1>4 DEF T
  <2> QED BY <2>2, <2>3
<1> QED
  BY <1>5

\* The entries outside a set are those inside its complement.
LEMMA OutsideIs ==
    ASSUME NEW S, NEW s \in Seq(S), NEW set
    PROVE  /\ Outside(s, set) = Inside(s, S \ set)
           /\ Outside(s, set) \in Seq(S)
           /\ ItemsOf(Outside(s, set)) = ItemsOf(s) \ set
<1>1. ItemsOf(s) \subseteq S
  BY DEF ItemsOf
<1>2. ItemsOf(s) \cap (ItemsOf(s) \ set) = ItemsOf(s) \cap (S \ set)
  BY <1>1
<1>3. Inside(s, ItemsOf(s) \ set) = Inside(s, S \ set)
  BY <1>2, InsideSame
<1>4. ItemsOf(Inside(s, S \ set)) = ItemsOf(s) \cap (S \ set)
  BY InsideType
<1>5. Inside(s, S \ set) \in Seq(S)
  BY InsideType
<1> QED
  BY <1>1, <1>3, <1>4, <1>5 DEF Outside

\* The first entry of an item is where no earlier one is.
LEMMA FirstIndexIs ==
    ASSUME NEW S, NEW s \in Seq(S), NEW i \in DOMAIN s, \A j \in 1..(i - 1) : s[j] # s[i]
    PROVE  FirstIndex(s, s[i]) = i
<1>1. DOMAIN s = 1..Len(s) /\ Len(s) \in Nat
  BY LenProperties
<1>2. ASSUME NEW k \in DOMAIN s, s[k] = s[i], \A j \in 1..(k - 1) : s[j] # s[i]
      PROVE  k = i
  BY <1>1, <1>2
<1>3. \E k \in DOMAIN s : s[k] = s[i] /\ \A j \in 1..(k - 1) : s[j] # s[i]
  OBVIOUS
<1> QED
  BY <1>2, <1>3 DEF FirstIndex

\* A list around one of its entries.
LEMMA SplitAt ==
    ASSUME NEW S, NEW s \in Seq(S), NEW i \in 1..Len(s)
    PROVE  LET p == SubSeq(s, 1, i - 1)
               q == SubSeq(s, i + 1, Len(s))
           IN  /\ p \in Seq(S) /\ q \in Seq(S) /\ s = (p \o <<s[i]>>) \o q
               /\ DOMAIN p = 1..(i - 1) /\ \A j \in 1..(i - 1) : p[j] = s[j]
<1> DEFINE p == SubSeq(s, 1, i - 1)
           q == SubSeq(s, i + 1, Len(s))
           r == SubSeq(s, i, Len(s))
<1>1. Len(s) \in Nat /\ s[i] \in S
  BY LenProperties, ElementOfSeq
<1>2. \A m \in 1..(Len(s) + 1), n \in 0..Len(s) : SubSeq(s, m, n) \in Seq(S)
  <2> TAKE m \in 1..(Len(s) + 1), n \in 0..Len(s)
  <2>1. \A j \in m..n : s[j] \in S
    BY <1>1, ElementOfSeq
  <2>2. m \in Int /\ n \in Int
    BY <1>1
  <2> QED BY <2>1, <2>2, SubSeqProperties
<1>3. p \in Seq(S) /\ q \in Seq(S) /\ <<s[i]>> \in Seq(S)
  <2>1. i - 1 \in 0..Len(s) /\ i + 1 \in 1..(Len(s) + 1) /\ 1 \in 1..(Len(s) + 1)
        /\ Len(s) \in 0..Len(s)
    BY <1>1
  <2> QED BY <1>1, <1>2, <2>1
<1>4. s = p \o r
  <2>1. 1 \in 1..(Len(s) + 1) /\ i - 1 \in 0..Len(s) /\ Len(s) \in (i - 1)..Len(s)
    BY <1>1
  <2>2. SubSeq(s, 1, i - 1) \o SubSeq(s, (i - 1) + 1, Len(s)) = SubSeq(s, 1, Len(s))
    <3>1. ASSUME NEW k \in 0..Len(s)
          PROVE  SubSeq(s, 1, k) \o SubSeq(s, k + 1, Len(s)) = SubSeq(s, 1, Len(s))
      <4>1. 1 \in 1..(Len(s) + 1) /\ k \in (1 - 1)..Len(s) /\ Len(s) \in k..Len(s)
        BY <1>1
      <4> QED BY <4>1, ConcatAdjacentSubSeq
    <3> QED BY <2>1, <3>1
  <2>3. SubSeq(s, 1, Len(s)) = s /\ (i - 1) + 1 = i
    BY <1>1, SubSeqFull
  <2> QED BY <2>2, <2>3
<1>5. r = <<s[i]>> \o q
  <2>1. Len(s) \in i..Len(s)
    BY <1>1
  <2> QED BY <2>1, SubSeqRecursiveFirst
<1>6. s = (p \o <<s[i]>>) \o q
  <2> DEFINE m == <<s[i]>>
  <2> HIDE DEF p, q, r, m
  <2>1. (p \o m) \o q = p \o (m \o q)
    <3>1. m \in Seq(S)
      BY <1>3 DEF m
    <3> QED BY <1>3, <3>1
  <2> QED BY <1>4, <1>5, <2>1 DEF m
<1>7. DOMAIN p = 1..(i - 1) /\ \A j \in 1..(i - 1) : p[j] = s[j]
  BY <1>1
<1> QED
  BY <1>3, <1>6, <1>7

\* Removing the first entry that is outside a set leaves what is inside.
LEMMA RemoveOutside ==
    ASSUME NEW S, NEW s \in Seq(S), NEW set, Outside(s, set) # <<>>
    PROVE  LET x == Head(Outside(s, set))
               r == RemoveAt(s, FirstIndex(s, x))
           IN  /\ x \in ItemsOf(s) /\ r \in Seq(S)
               /\ Outside(r, set) = Tail(Outside(s, set))
               /\ Inside(r, set) = Inside(s, set)
<1>1. DOMAIN s = 1..Len(s) /\ Len(s) \in Nat
  BY LenProperties
<1>2. Outside(s, set) \in Seq(S) /\ ItemsOf(Outside(s, set)) = ItemsOf(s) \ set
  BY OutsideIs, ZenonT(30)
<1> DEFINE T == {i \in DOMAIN s : s[i] \notin set}
<1>3. T # {} /\ T \in SUBSET Nat
  <2>1. 1 \in DOMAIN Outside(s, set)
    BY <1>2
  <2>2. Outside(s, set)[1] \in ItemsOf(s) \ set
    BY <1>2, <2>1 DEF ItemsOf
  <2> QED BY <1>1, <2>2 DEF ItemsOf
<1>4. PICK i \in T : \A j \in T : i <= j
  BY <1>3, LeastNumber
<1>5. i \in 1..Len(s) /\ s[i] \in S /\ s[i] \notin set
  BY <1>1, <1>4, ElementOfSeq
<1>6. \A j \in 1..(i - 1) : j \in 1..Len(s) /\ s[j] \in set
  BY <1>1, <1>4, <1>5
<1> HIDE DEF T
<1> DEFINE p == SubSeq(s, 1, i - 1)
           q == SubSeq(s, i + 1, Len(s))
           C == S \ set
<1>7. p \in Seq(S) /\ q \in Seq(S) /\ s = (p \o <<s[i]>>) \o q
  BY <1>5, SplitAt
<1>9. ItemsOf(p) \subseteq set
  <2>1. DOMAIN p = 1..(i - 1) /\ \A j \in 1..(i - 1) : p[j] = s[j]
    BY <1>1, <1>5, SplitAt
  <2> HIDE DEF p
  <2> QED BY <1>6, <2>1 DEF ItemsOf
<1> HIDE DEF p, q
<1>11. <<s[i]>> \in Seq(S) /\ ItemsOf(<<s[i]>>) = {s[i]}
  BY <1>5 DEF ItemsOf
<1>12. /\ p \o <<s[i]>> \in Seq(S) /\ p \o q \in Seq(S)
       /\ Inside(p, set) \in Seq(S) /\ Inside(q, set) \in Seq(S) /\ Inside(q, C) \in Seq(S)
  BY <1>7, <1>11, InsideType, ConcatProperties
<1>13. Inside(s, set) = (Inside(p, set) \o <<>>) \o Inside(q, set)
  <2>1. Inside(<<s[i]>>, set) = <<>>
    BY <1>5, <1>11, InsideNone
  <2>2. Inside((p \o <<s[i]>>) \o q, set) = Inside(p \o <<s[i]>>, set) \o Inside(q, set)
    BY <1>7, <1>12, InsideConcat
  <2>3. Inside(p \o <<s[i]>>, set) = Inside(p, set) \o Inside(<<s[i]>>, set)
    BY <1>7, <1>11, InsideConcat
  <2> QED BY <1>7, <2>1, <2>2, <2>3
<1>14. Inside(s, C) = (<<>> \o <<s[i]>>) \o Inside(q, C)
  <2>1. Inside(<<s[i]>>, C) = <<s[i]>>
    BY <1>5, <1>11, InsideAll, ZenonT(30)
  <2>2. Inside(p, C) = <<>>
    BY <1>7, <1>9, InsideNone
  <2> HIDE DEF C
  <2>3. Inside((p \o <<s[i]>>) \o q, C) = Inside(p \o <<s[i]>>, C) \o Inside(q, C)
    BY <1>7, <1>12, InsideConcat
  <2>4. Inside(p \o <<s[i]>>, C) = Inside(p, C) \o Inside(<<s[i]>>, C)
    BY <1>7, <1>11, InsideConcat
  <2> QED BY <1>7, <2>1, <2>2, <2>3, <2>4
<1>15. Inside(p \o q, set) = Inside(s, set)
  <2>1. Inside(p \o q, set) = Inside(p, set) \o Inside(q, set)
    BY <1>7, InsideConcat
  <2> QED BY <1>12, <1>13, <2>1, ConcatEmptySeq
<1>16. Inside(p \o q, C) = Inside(q, C)
  <2>1. Inside(p \o q, C) = Inside(p, C) \o Inside(q, C)
    BY <1>7, InsideConcat
  <2>2. Inside(p, C) = <<>>
    BY <1>7, <1>9, InsideNone
  <2> HIDE DEF C
  <2>3. <<>> \o Inside(q, C) = Inside(q, C)
    BY <1>12, ConcatEmptySeq
  <2> QED BY <2>1, <2>2, <2>3
<1>17. Outside(s, set) = Inside(s, C) /\ Outside(p \o q, set) = Inside(p \o q, C)
  <2>1. \A u \in Seq(S) : Outside(u, set) = Inside(u, C)
    BY OutsideIs
  <2> QED BY <1>12, <2>1
<1>18. Head(Outside(s, set)) = s[i] /\ Tail(Outside(s, set)) = Inside(q, C)
  <2>1. <<>> \o <<s[i]>> = <<s[i]>>
    BY <1>11, ConcatEmptySeq
  <2>2. \A t \in Seq(S) : Head(<<s[i]>> \o t) = s[i] /\ Tail(<<s[i]>> \o t) = t
    BY <1>5
  <2> QED BY <1>12, <1>14, <1>17, <2>1, <2>2
<1>19. FirstIndex(s, s[i]) = i
  BY <1>1, <1>5, <1>6, FirstIndexIs
<1>20. RemoveAt(s, i) = p \o q
  BY DEF RemoveAt, p, q
<1>21. s[i] \in ItemsOf(s)
  BY <1>1, <1>5 DEF ItemsOf
<1> QED
  BY <1>12, <1>15, <1>16, <1>17, <1>18, <1>19, <1>20, <1>21

\* In a list without duplicates an item has one place.
LEMMA OnePlace ==
    ASSUME NEW S, NEW s \in Seq(S), NoDuplicates(s),
           NEW i \in DOMAIN s, NEW j \in DOMAIN s, s[i] = s[j]
    PROVE  i = j
<1> DEFINE P == {k \in DOMAIN s : s[k] = s[i]}
<1>1. DOMAIN s = 1..Len(s) /\ Len(s) \in Nat
  BY LenProperties
<1>2. IsFiniteSet(1..Len(s))
  BY <1>1, FS_Interval
<1>3. IsFiniteSet(P)
  BY <1>1, <1>2, FS_Subset
<1>4. Cardinality(P) = 1
  BY DEF NoDuplicates, Count, ItemsOf
<1> HIDE DEF P
<1>5. \E k : P = {k}
  BY <1>3, <1>4, FS_Singleton
<1>6. i \in P /\ j \in P
  BY DEF P
<1> QED
  BY <1>5, <1>6

\* A subsequence of a list without duplicates whose entries come before all
\* others of the list is its beginning.
LEMMA LeadingPart ==
    ASSUME NEW S, NEW d \in Seq(S), NEW r \in Seq(S), NoDuplicates(d), IsSubsequence(r, d),
           \A i, k \in DOMAIN d : d[i] \in ItemsOf(r) /\ d[k] \notin ItemsOf(r) => i < k
    PROVE  /\ Len(r) <= Len(d)
           /\ \A i \in 1..Len(r) : r[i] = d[i]
           /\ \A k \in DOMAIN d : d[k] \in ItemsOf(r) <=> k <= Len(r)
<1>1. DOMAIN d = 1..Len(d) /\ Len(d) \in Nat /\ DOMAIN r = 1..Len(r) /\ Len(r) \in Nat
  BY LenProperties
<1>2. PICK f \in [DOMAIN r -> DOMAIN d] :
          /\ \A i \in DOMAIN r : d[f[i]] = r[i]
          /\ \A i, j \in DOMAIN r : i < j => f[i] < f[j]
  BY DEF IsSubsequence
<1>3. \A k \in DOMAIN d : d[k] \in ItemsOf(r) => \E m \in DOMAIN r : f[m] = k
  <2> SUFFICES ASSUME NEW k \in DOMAIN d, d[k] \in ItemsOf(r) PROVE \E m \in DOMAIN r : f[m] = k
    OBVIOUS
  <2>1. PICK m \in DOMAIN r : r[m] = d[k]
    BY DEF ItemsOf
  <2>2. d[f[m]] = d[k] /\ f[m] \in DOMAIN d
    BY <1>2, <2>1
  <2> QED BY <2>2, OnePlace
<1>4. \A j \in DOMAIN r : d[f[j]] \in ItemsOf(r)
  BY <1>2 DEF ItemsOf
<1> DEFINE T == {j \in DOMAIN r : f[j] # j}
<1>5. T = {}
  <2> SUFFICES ASSUME T # {} PROVE FALSE
    OBVIOUS
  <2>1. T \in SUBSET Nat
    BY <1>1
  <2>2. PICK j \in T : \A l \in T : j <= l
    BY <2>1, LeastNumber
  <2>3. j \in DOMAIN r /\ f[j] # j /\ f[j] \in DOMAIN d
    BY <1>2
  <2>4. \A l \in DOMAIN r : l < j => f[l] = l
    BY <1>1, <2>2, <2>3
  <2> HIDE DEF T
  <2>5. f[j] > j
    <3>1. CASE j = 1
      BY <1>1, <2>3, <3>1
    <3>2. CASE j # 1
      <4>1. j - 1 \in DOMAIN r /\ j - 1 < j
        BY <1>1, <2>3, <3>2
      <4>2. f[j - 1] = j - 1 /\ f[j - 1] < f[j]
        BY <1>2, <2>3, <2>4, <4>1
      <4> QED BY <1>1, <2>3, <4>1, <4>2
    <3> QED BY <3>1, <3>2
  <2>6. j \in DOMAIN d
    BY <1>1, <2>3, <2>5
  <2>7. d[j] \in ItemsOf(r)
    BY <1>1, <1>4, <2>3, <2>5, <2>6
  <2>8. PICK m \in DOMAIN r : f[m] = j
    BY <1>3, <2>6, <2>7
  <2>9. m < j => FALSE
    BY <1>1, <2>3, <2>4, <2>8
  <2>10. m > j => FALSE
    BY <1>1, <1>2, <2>3, <2>5, <2>8
  <2> QED
    BY <1>1, <2>3, <2>8, <2>9, <2>10
<1>6. \A j \in DOMAIN r : f[j] = j
  BY <1>5
<1> HIDE DEF T
<1>7. Len(r) <= Len(d)
  <2>1. CASE Len(r) = 0
    BY <1>1, <2>1
  <2>2. CASE Len(r) # 0
    <3>1. Len(r) \in DOMAIN r
      BY <1>1, <2>2
    <3> QED BY <1>1, <1>2, <1>6, <3>1
  <2> QED BY <2>1, <2>2
<1>8. \A i \in 1..Len(r) : r[i] = d[i]
  BY <1>1, <1>2, <1>6
<1>9. \A k \in DOMAIN d : d[k] \in ItemsOf(r) <=> k <= Len(r)
  <2> TAKE k \in DOMAIN d
  <2>1. ASSUME d[k] \in ItemsOf(r) PROVE k <= Len(r)
    BY <1>1, <1>3, <1>6, <2>1
  <2>2. ASSUME k <= Len(r) PROVE d[k] \in ItemsOf(r)
    BY <1>1, <1>8, <2>2 DEF ItemsOf
  <2> QED BY <2>1, <2>2
<1> QED
  BY <1>7, <1>8, <1>9

\* When the order needs no change, what stays and what is added are the list.
LEMMA NothingToReorder ==
    ASSUME NEW S, NEW d \in Seq(S), NEW current \in Seq(S), NoDuplicates(d),
           ~NeedsReorder(Inside(current, ItemsOf(d)), Outside(d, ItemsOf(current)), d)
    PROVE  Inside(current, ItemsOf(d)) \o Outside(d, ItemsOf(current)) = d
<1> DEFINE r == Inside(current, ItemsOf(d))
           add == Outside(d, ItemsOf(current))
<1>1. r \in Seq(S) /\ ItemsOf(r) = ItemsOf(current) \cap ItemsOf(d)
  BY InsideType
<1>2. add \in Seq(S) /\ ItemsOf(add) = ItemsOf(d) \ ItemsOf(current)
  <2> DEFINE A == ItemsOf(current)
  <2> HIDE DEF A
  <2>1. Outside(d, A) \in Seq(S) /\ ItemsOf(Outside(d, A)) = ItemsOf(d) \ A
    BY OutsideIs
  <2> QED BY <2>1 DEF A
<1>3. DOMAIN d = 1..Len(d) /\ Len(d) \in Nat
  BY LenProperties
<1>4. ~NeedsReorder(r, add, d)
  OBVIOUS
<1>5. \A i \in DOMAIN d : d[i] \in ItemsOf(d)
  BY DEF ItemsOf
<1>6. \A i \in DOMAIN d : d[i] \in ItemsOf(r) <=> d[i] \in ItemsOf(current)
  BY <1>1, <1>5
<1>7. add = Inside(d, S \ ItemsOf(current))
  BY OutsideIs
<1> HIDE DEF r, add
<1>8. CASE r = <<>>
  <2>1. ItemsOf(r) = {}
    BY <1>8 DEF ItemsOf
  <2>2. ItemsOf(d) \subseteq S \ ItemsOf(current)
    <3>1. ItemsOf(d) \subseteq S
      BY DEF ItemsOf
    <3> QED BY <1>1, <2>1, <3>1
  <2>3. add = d
    BY <1>7, <2>2, InsideAll
  <2>4. <<>> \o d = d
    BY ConcatEmptySeq
  <2> QED BY <1>8, <2>3, <2>4 DEF r, add
<1>9. CASE r # <<>>
  <2>1. /\ IsSubsequence(r, d)
        /\ \A a \in ItemsOf(add), b \in ItemsOf(r) : ~(FirstIndex(d, a) < FirstIndex(d, b))
    BY <1>4, <1>9 DEF NeedsReorder
  <2>2. \A i \in DOMAIN d : FirstIndex(d, d[i]) = i
    <3> TAKE i \in DOMAIN d
    <3>1. \A j \in 1..(i - 1) : d[j] # d[i]
      <4> SUFFICES ASSUME NEW j \in 1..(i - 1), d[j] = d[i] PROVE FALSE
        OBVIOUS
      <4>1. j \in DOMAIN d /\ j # i
        BY <1>3
      <4> QED BY <4>1, OnePlace
    <3> QED BY <3>1, FirstIndexIs
  <2>3. \A i, k \in DOMAIN d : d[i] \in ItemsOf(r) /\ d[k] \notin ItemsOf(r) => i < k
    <3> SUFFICES ASSUME NEW i \in DOMAIN d, NEW k \in DOMAIN d,
                        d[i] \in ItemsOf(r), d[k] \notin ItemsOf(r)
                 PROVE  i < k
      OBVIOUS
    <3>1. d[k] \in ItemsOf(add)
      BY <1>2, <1>5, <1>6
    <3>2. ~(k < i)
      <4>1. FirstIndex(d, d[k]) = k /\ FirstIndex(d, d[i]) = i
        BY <2>2
      <4>2. ~(FirstIndex(d, d[k]) < FirstIndex(d, d[i]))
        BY <2>1, <3>1
      <4> QED BY <4>1, <4>2
    <3> QED BY <1>3, <3>2
  <2>4. /\ Len(r) <= Len(d)
        /\ \A i \in 1..Len(r) : r[i] = d[i]
        /\ \A k \in DOMAIN d : d[k] \in ItemsOf(r) <=> k <= Len(r)
    BY <1>1, <2>1, <2>3, LeadingPart
  <2> DEFINE n == Len(r)
             q == SubSeq(d, n + 1, Len(d))
             C == S \ ItemsOf(current)
  <2>5. n \in 0..Len(d) /\ Len(r) \in Nat
    BY <1>1, <1>3, <2>4, LenProperties
  <2>6. /\ q \in Seq(S) /\ d = r \o q /\ DOMAIN q = 1..(Len(d) - n)
        /\ \A j \in 1..(Len(d) - n) : q[j] = d[n + j]
    <3>1. n + 1 \in Int /\ Len(d) \in Int /\ \A j \in (n + 1)..Len(d) : d[j] \in S
      BY <1>3, <2>5, ElementOfSeq
    <3>2. /\ q \in Seq(S) /\ Len(q) = IF n + 1 <= Len(d) THEN Len(d) - (n + 1) + 1 ELSE 0
          /\ \A j \in 1..(Len(d) - (n + 1) + 1) : q[j] = d[(n + 1) + j - 1]
      BY <3>1, SubSeqProperties
    <3> HIDE DEF q
    <3>3. Len(q) = Len(d) - n
      <4>1. Len(q) = IF n + 1 <= Len(d) THEN Len(d) - (n + 1) + 1 ELSE 0
        BY <3>2
      <4>2. n \in Int /\ Len(d) \in Int /\ n <= Len(d)
        BY <1>3, <2>5
      <4> HIDE DEF n
      <4>3. CASE n + 1 <= Len(d)
        BY <4>1, <4>2, <4>3
      <4>4. CASE ~(n + 1 <= Len(d))
        <5>1. Len(q) = 0
          BY <4>1, <4>4
        <5>2. n = Len(d)
          BY <4>2, <4>4
        <5> QED BY <4>2, <5>1, <5>2
      <4> QED BY <4>3, <4>4
    <3>4. \A j \in 1..(Len(d) - n) : q[j] = d[n + j]
      <4> TAKE j \in 1..(Len(d) - n)
      <4>1. j \in 1..(Len(d) - (n + 1) + 1) /\ (n + 1) + j - 1 = n + j
        BY <1>3, <2>5
      <4> QED BY <3>2, <4>1
    <3>5. DOMAIN q = 1..(Len(d) - n)
      BY <3>2, <3>3, LenProperties
    <3>6. d = SubSeq(d, 1, n) \o q
      <4>1. ASSUME NEW k \in 0..Len(d)
            PROVE  SubSeq(d, 1, k) \o SubSeq(d, k + 1, Len(d)) = SubSeq(d, 1, Len(d))
        <5>1. 1 \in 1..(Len(d) + 1) /\ k \in (1 - 1)..Len(d) /\ Len(d) \in k..Len(d)
          BY <1>3
        <5> QED BY <5>1, ConcatAdjacentSubSeq
      <4>2. SubSeq(d, 1, Len(d)) = d
        BY SubSeqFull
      <4> QED BY <2>5, <4>1, <4>2 DEF q
    <3>7. r = SubSeq(d, 1, n)
      <4>1. 1 \in Int /\ n \in Int /\ \A j \in 1..n : d[j] \in S
        BY <1>3, <2>5, ElementOfSeq
      <4>2. /\ SubSeq(d, 1, n) \in Seq(S) /\ Len(SubSeq(d, 1, n)) = IF 1 <= n THEN n - 1 + 1 ELSE 0
            /\ \A j \in 1..(n - 1 + 1) : SubSeq(d, 1, n)[j] = d[1 + j - 1]
        BY <4>1, SubSeqProperties
      <4> DEFINE p == SubSeq(d, 1, n)
      <4> HIDE DEF p
      <4>3. p \in Seq(S) /\ Len(p) = n /\ \A j \in 1..n : p[j] = d[j]
        <5>1. Len(p) = n
          BY <2>5, <4>2 DEF p
        <5>2. \A j \in 1..n : j \in 1..(n - 1 + 1) /\ 1 + j - 1 = j
          BY <2>5
        <5> QED BY <4>2, <5>1, <5>2 DEF p
      <4>4. r = p
        BY <1>1, <2>4, <4>3, SeqEqual
      <4> QED BY <4>4 DEF p
    <3> QED BY <3>2, <3>4, <3>5, <3>6, <3>7
  <2> HIDE DEF q
  <2>7. Inside(r, C) = <<>>
    <3>1. ItemsOf(r) \cap C = {}
      BY <1>1
    <3> QED BY <1>1, <3>1, InsideNone
  <2>8. Inside(q, C) = q
    <3>1. ASSUME NEW j \in DOMAIN q PROVE q[j] \in C
      <4>1. j \in 1..(Len(d) - n) /\ q[j] = d[n + j]
        BY <2>6, <3>1
      <4>2. n + j \in DOMAIN d /\ ~(n + j <= Len(r))
        BY <1>3, <2>5, <4>1
      <4>3. d[n + j] \notin ItemsOf(r)
        BY <2>4, <4>2
      <4>4. d[n + j] \in S
        BY <1>3, <4>2, ElementOfSeq
      <4> QED BY <1>6, <4>1, <4>2, <4>3, <4>4
    <3> HIDE DEF C
    <3>2. ItemsOf(q) \subseteq C
      BY <3>1 DEF ItemsOf
    <3> QED BY <2>6, <3>2, InsideAll
  <2>9. add = <<>> \o q
    <3>1. Inside(r \o q, C) = Inside(r, C) \o Inside(q, C)
      <4> HIDE DEF C
      <4> QED BY <1>1, <2>6, InsideConcat, SMTT(30)
    <3> QED BY <1>7, <2>6, <2>7, <2>8, <3>1
  <2>10. <<>> \o q = q
    BY <2>6, ConcatEmptySeq
  <2> QED BY <2>6, <2>9, <2>10 DEF r, add
<1> QED
  BY <1>8, <1>9

-----------------------------------------------------------------------------
(* Requests and plans *)

\* One request per entry.
LEMMA SinglesFacts ==
    ASSUME NEW op \in {"del", "add"}, NEW s \in Seq(Items)
    PROVE  /\ Singles(op, s) \in Seq(Request)
           /\ \A x : [op |-> op, items |-> <<x>>] \in ItemsOf(Singles(op, s)) <=> x \in ItemsOf(s)
           /\ \A r \in ItemsOf(Singles(op, s)) :
                 r.op = op /\ r.items # <<>> /\ ItemsOf(r.items) \subseteq ItemsOf(s)
           /\ Singles(op, s) = <<>> <=> s = <<>>
           /\ s # <<>> => /\ Head(Singles(op, s)) = [op |-> op, items |-> <<Head(s)>>]
                          /\ Tail(Singles(op, s)) = Singles(op, Tail(s))
<1>1. DOMAIN s = 1..Len(s) /\ Len(s) \in Nat /\ \A i \in 1..Len(s) : s[i] \in Items
  BY LenProperties, ElementOfSeq
<1> DEFINE q == Singles(op, s)
<1>2. q = [i \in 1..Len(s) |-> [op |-> op, items |-> <<s[i]>>]]
  BY <1>1 DEF Singles
<1>3. \A i \in 1..Len(s) : [op |-> op, items |-> <<s[i]>>] \in Request
  BY <1>1 DEF Request
<1>4. q \in [1..Len(s) -> Request]
  BY <1>2, <1>3
<1>5. q \in Seq(Request) /\ Len(q) = Len(s) /\ DOMAIN q = 1..Len(s)
  BY <1>1, <1>4
<1>6. \A i \in 1..Len(s) : q[i] = [op |-> op, items |-> <<s[i]>>]
  BY <1>2
<1> HIDE DEF q
<1>7. \A x : [op |-> op, items |-> <<x>>] \in ItemsOf(q) <=> x \in ItemsOf(s)
  <2>1. \A x, y : [op |-> op, items |-> <<x>>] = [op |-> op, items |-> <<y>>] => x = y
    OBVIOUS
  <2> QED BY <1>1, <1>5, <1>6, <2>1 DEF ItemsOf
<1>8. \A r \in ItemsOf(q) : r.op = op /\ r.items # <<>> /\ ItemsOf(r.items) \subseteq ItemsOf(s)
  <2> SUFFICES ASSUME NEW r \in ItemsOf(q)
               PROVE  r.op = op /\ r.items # <<>> /\ ItemsOf(r.items) \subseteq ItemsOf(s)
    OBVIOUS
  <2>1. PICK i \in 1..Len(s) : r = [op |-> op, items |-> <<s[i]>>]
    BY <1>5, <1>6 DEF ItemsOf
  <2>2. ItemsOf(<<s[i]>>) = {s[i]}
    BY DEF ItemsOf
  <2>3. s[i] \in ItemsOf(s)
    BY <1>1 DEF ItemsOf
  <2> QED BY <2>1, <2>2, <2>3
<1>9. q = <<>> <=> s = <<>>
  BY <1>5
<1>10. ASSUME s # <<>>
       PROVE  Head(q) = [op |-> op, items |-> <<Head(s)>>] /\ Tail(q) = Singles(op, Tail(s))
  <2>1. Head(s) = s[1] /\ Head(q) = q[1] /\ 1 \in 1..Len(s)
    BY <1>1, <1>5, <1>9, <1>10
  <2>2. /\ Tail(s) \in Seq(Items) /\ Len(Tail(s)) = Len(s) - 1
        /\ \A i \in 1..Len(Tail(s)) : Tail(s)[i] = s[i + 1]
    BY <1>10, HeadTailProperties
  <2>3. /\ Tail(q) \in Seq(Request) /\ Len(Tail(q)) = Len(s) - 1
        /\ \A i \in 1..Len(Tail(q)) : Tail(q)[i] = q[i + 1]
    BY <1>5, <1>9, <1>10, HeadTailProperties
  <2> DEFINE n == Len(s) - 1
             u == Tail(s)
             v == Tail(q)
  <2>4. n \in Nat /\ DOMAIN u = 1..n /\ DOMAIN v = 1..n
    BY <1>1, <1>10, <2>2, <2>3, LenProperties
  <2>5. \A i \in 1..n : v[i] = [op |-> op, items |-> <<u[i]>>]
    <3> TAKE i \in 1..n
    <3>1. i + 1 \in 1..Len(s)
      BY <1>1, <2>4
    <3> QED BY <1>6, <2>2, <2>3, <3>1
  <2>6. v = [i \in 1..n |-> v[i]]
    <3>1. v \in Seq(Request) /\ Len(v) = n
      BY <2>3
    <3> HIDE DEF v, n
    <3>2. v \in [1..n -> Request]
      BY <3>1, LenProperties
    <3> QED BY <3>2
  <2> HIDE DEF u, v, n
  <2>7. v = Singles(op, u)
    BY <2>4, <2>5, <2>6 DEF Singles
  <2> QED BY <1>6, <2>1, <2>7 DEF u, v
<1> QED
  BY <1>5, <1>7, <1>8, <1>9, <1>10 DEF q

\* One request for all entries.
LEMMA WholeFacts ==
    ASSUME NEW op \in {"del", "add"}, NEW s \in Seq(Items)
    PROVE  /\ Whole(op, s) \in Seq(Request)
           /\ \A r \in ItemsOf(Whole(op, s)) : r.op = op /\ r.items # <<>>
           /\ s # <<>> => \A x \in ItemsOf(s) :
                             \E r \in ItemsOf(Whole(op, s)) : r.op = op /\ x \in ItemsOf(r.items)
           /\ Whole(op, s) = <<>> <=> s = <<>>
           /\ s # <<>> => Head(Whole(op, s)) = [op |-> op, items |-> s] /\ Tail(Whole(op, s)) = <<>>
<1>1. CASE s = <<>>
  BY <1>1 DEF Whole, ItemsOf
<1>2. CASE s # <<>>
  <2> DEFINE r == [op |-> op, items |-> s]
  <2>1. r \in Request /\ r.op = op /\ r.items = s
    BY DEF Request
  <2>2. Whole(op, s) = <<r>>
    BY <1>2 DEF Whole
  <2> HIDE DEF r
  <2>3. ItemsOf(<<r>>) = {r}
    BY DEF ItemsOf
  <2>4. <<r>> \in Seq(Request) /\ <<r>> # <<>> /\ Head(<<r>>) = r /\ Tail(<<r>>) = <<>>
    BY <2>1
  <2> QED BY <1>2, <2>1, <2>2, <2>3, <2>4 DEF r
<1> QED
  BY <1>1, <1>2

\* The server keeps lists of items.
LEMMA ServedType ==
    ASSUME NEW s \in Seq(Items), NEW req \in Request, backend \in {"plex", "jellyfin"}
    PROVE  Served(s, req) \in Seq(Items)
<1>1. req.op \in {"del", "add"} /\ req.items \in Seq(Items)
  BY DEF Request
<1>2. CASE req.op = "add"
  BY <1>1, <1>2 DEF Served
<1>3. CASE req.op = "del" /\ backend = "jellyfin"
  <2>1. Served(s, req) = Outside(s, ItemsOf(req.items))
    BY <1>3 DEF Served
  <2>2. \A set : Outside(s, set) \in Seq(Items)
    BY OutsideIs
  <2> QED BY <2>1, <2>2
<1>4. CASE req.op = "del" /\ backend = "plex"
  <2>1. Served(s, req) = IF req.items[1] \in ItemsOf(s)
                         THEN RemoveAt(s, FirstIndex(s, req.items[1])) ELSE s
    BY <1>4 DEF Served
  <2>2. ASSUME req.items[1] \in ItemsOf(s)
        PROVE  RemoveAt(s, FirstIndex(s, req.items[1])) \in Seq(Items)
    <3> DEFINE x == req.items[1]
               T == {i \in DOMAIN s : s[i] = x}
    <3>1. DOMAIN s = 1..Len(s) /\ Len(s) \in Nat
      BY LenProperties
    <3>2. T # {} /\ T \in SUBSET Nat
      BY <2>2, <3>1 DEF ItemsOf
    <3>3. PICK i \in T : \A j \in T : i <= j
      BY <3>2, LeastNumber
    <3>4. i \in DOMAIN s /\ s[i] = x /\ \A j \in 1..(i - 1) : s[j] # s[i]
      BY <3>1, <3>3
    <3>5. FirstIndex(s, x) = i
      BY <3>4, FirstIndexIs
    <3>6. SubSeq(s, 1, i - 1) \in Seq(Items) /\ SubSeq(s, i + 1, Len(s)) \in Seq(Items)
      BY <3>1, <3>4, SplitAt
    <3> QED BY <3>5, <3>6, ConcatProperties DEF RemoveAt
  <2> QED BY <2>1, <2>2
<1> QED
  BY <1>1, <1>2, <1>3, <1>4

\* A plan consists of requests; only its last batch adds.
LEMMA PlanType ==
    ASSUME NEW cur \in Seq(Items), NEW d \in Seq(Items), backend \in {"plex", "jellyfin"}
    PROVE  /\ UpdatePlan(cur, d) \in Seq(Seq(Request))
           /\ \A n \in DOMAIN UpdatePlan(cur, d) : \A r \in ItemsOf(UpdatePlan(cur, d)[n]) :
                 r.items # <<>> /\ r.op = IF n = Len(UpdatePlan(cur, d)) THEN "add" ELSE "del"
<1> DEFINE D == ItemsOf(d)
           gone == Outside(cur, D)
           add == Outside(d, ItemsOf(cur))
           rest == Inside(cur, D)
<1>1. gone \in Seq(Items) /\ add \in Seq(Items) /\ rest \in Seq(Items)
  BY OutsideIs, InsideType
<1> HIDE DEF gone, add, rest
<1>2. \A s \in Seq(Items), op \in {"del", "add"} :
          /\ Singles(op, s) \in Seq(Request) /\ Whole(op, s) \in Seq(Request)
          /\ \A r \in ItemsOf(Singles(op, s)) : r.op = op /\ r.items # <<>>
          /\ \A r \in ItemsOf(Whole(op, s)) : r.op = op /\ r.items # <<>>
  BY SinglesFacts, WholeFacts, SMTT(30)
<1> DEFINE WellMade(plan) == /\ plan \in Seq(Seq(Request))
                         /\ \A n \in DOMAIN plan : \A r \in ItemsOf(plan[n]) :
                               r.items # <<>> /\ r.op = IF n = Len(plan) THEN "add" ELSE "del"
<1>3. WellMade(<<>>)
  OBVIOUS
<1>4. ASSUME NEW a \in Seq(Request), NEW b \in Seq(Request), NEW c \in Seq(Request),
             \A r \in ItemsOf(a) : r.op = "del" /\ r.items # <<>>,
             \A r \in ItemsOf(b) : r.op = "del" /\ r.items # <<>>,
             \A r \in ItemsOf(c) : r.op = "add" /\ r.items # <<>>
      PROVE  WellMade(<<a, c>>) /\ WellMade(<<a, b, c>>)
  BY <1>4
<1> HIDE DEF WellMade
<1>5. WellMade(<< Singles("del", gone), Singles("del", rest), Singles("add", d) >>)
  BY <1>1, <1>2, <1>4
<1>6. WellMade(<< Singles("del", gone), Singles("add", add) >>)
  BY <1>1, <1>2, <1>4
<1>7. WellMade(<< Whole("del", cur), Whole("add", d) >>)
  BY <1>2, <1>4
<1>8. WellMade(UpdatePlan(cur, d))
  <2>1. CASE backend = "jellyfin"
    <3>1. UpdatePlan(cur, d) = << Whole("del", cur), Whole("add", d) >>
      BY <2>1 DEF UpdatePlan, JellyfinPlan
    <3> QED BY <1>7, <3>1
  <2>2. CASE backend = "plex"
    <3>1. UpdatePlan(cur, d) =
              IF cur = d THEN <<>>
              ELSE IF NeedsReorder(rest, add, d)
              THEN << Singles("del", gone), Singles("del", rest), Singles("add", d) >>
              ELSE << Singles("del", gone), Singles("add", add) >>
      BY <2>2 DEF UpdatePlan, PlexPlan, gone, rest, add
    <3> QED BY <1>3, <1>5, <1>6, <3>1
  <2> QED BY <2>1, <2>2
<1> QED
  BY <1>8 DEF WellMade

-----------------------------------------------------------------------------
(* Type correctness *)

\* Where an attempt can be.
States == {"details", "create", "compare", "plan", "requests", "save"} \cup Ended

\* The values a job's fields can have, with n playlists on the target.
Jobs(n) == [st : States, desired : Seq(Items), batches : Seq(Seq(Request)), bad : BOOLEAN,
            made : 0..n, clean : BOOLEAN, skipped : BOOLEAN]

\* What a job must be for its state, apart from its fields' sets.
Fits ==
    /\ job.st # "idle" => job.desired \in Wanted
    /\ job.st \in {"details", "create", "compare", "plan"} => job.made = 0
    /\ job.st = "save" => job.made # 0
    /\ job.st \in {"details", "compare", "plan"} => saved # 0
    /\ (job.st = "requests" /\ job.made = 0) => saved # 0

\* What TypeOK says, taken apart.
LEMMA TypeParts ==
    ASSUME TypeOK
    PROVE  /\ backend \in {"plex", "jellyfin"} /\ remote \in Seq(Seq(Items) \cup {Gone})
           /\ Len(remote) \in Nat /\ DOMAIN remote = 1..Len(remote)
           /\ saved \in Nat /\ saved <= Len(remote) /\ job \in Jobs(Len(remote))
           /\ attempts \in 0..MaxAttempts /\ troubles \in 0..MaxTroubles /\ Fits
<1>1. remote \in Seq(Seq(Items) \cup {Gone})
  BY DEF TypeOK
<1> QED
  BY <1>1, BackendsAssumption, LenProperties DEF TypeOK, Jobs, States, Fits

\* The rest of TypeOK once the job is well formed.
LEMMA TypeFrom ==
    ASSUME TypeOK, UNCHANGED backend, Calm \/ Trouble, remote' \in Seq(Seq(Items) \cup {Gone}),
           saved' \in 0..Len(remote'), job' \in Jobs(Len(remote')), Fits',
           UNCHANGED attempts \/ (attempts < MaxAttempts /\ attempts' = attempts + 1)
    PROVE  TypeOK'
<1>1. attempts' \in 0..MaxAttempts /\ troubles' \in 0..MaxTroubles
  BY AttemptBoundsAssumption, SMTT(30) DEF TypeOK, Calm, Trouble
<1> QED
  BY <1>1 DEF TypeOK, Jobs, States, Fits

\* The playlist a request goes to is a list, before and after it.
LEMMA ServeType ==
    ASSUME TypeOK, Exists(Current), NEW req \in Request
    PROVE  /\ Current \in DOMAIN remote /\ remote[Current] \in Seq(Items)
           /\ [remote EXCEPT ![Current] = Served(@, req)] \in Seq(Seq(Items) \cup {Gone})
           /\ Len([remote EXCEPT ![Current] = Served(@, req)]) = Len(remote)
           /\ Served(remote[Current], req) \in Seq(Items)
<1>1. /\ remote \in Seq(Seq(Items) \cup {Gone}) /\ backend \in {"plex", "jellyfin"}
      /\ DOMAIN remote = 1..Len(remote)
  BY TypeParts
<1>2. Current \in 1..Len(remote)
  <2>1. Current \in 0..Len(remote)
    BY DEF Current, TypeOK
  <2> QED BY <2>1, TypeParts DEF Exists
<1>3. remote[Current] \in Seq(Items)
  BY <1>1, <1>2, ElementOfSeq DEF Exists
<1>4. Served(remote[Current], req) \in Seq(Items)
  BY <1>1, <1>3, ServedType
<1> QED
  BY <1>1, <1>2, <1>3, <1>4, ExceptSeq

\* The calls that read the saved playlist, the requests, what makes a playlist
\* and saves it, and the steps outside an attempt keep the types.
LEMMA CallTypes ==
    ASSUME TypeOK, GetDetails \/ CompareItems \/ PlanUpdate
    PROVE  TypeOK'
<1> USE DEF Goes, GoesDirty
<1>1. /\ job \in Jobs(Len(remote)) /\ Len(remote) \in Nat /\ Fits /\ saved \in 0..Len(remote)
      /\ remote \in Seq(Seq(Items) \cup {Gone})
  BY TypeParts DEF TypeOK
<1>2. /\ {"ok", "plan", "failed", "compare", "create", "requests"} \subseteq States
      /\ TRUE \in BOOLEAN /\ FALSE \in BOOLEAN
  BY DEF States, Ended
<1>3. UNCHANGED <<backend, remote, saved, attempts>> /\ (Calm \/ Trouble)
  BY DEF GetDetails, CompareItems, PlanUpdate
<1>4. job' \in Jobs(Len(remote)) /\ Fits'
  <2>1. CASE GetDetails
    <3>1. /\ job.st = "details"
          /\ \E st \in {"compare", "create"} :
                \/ job' = [job EXCEPT !.st = st]
                \/ job' = [job EXCEPT !.st = st, !.clean = FALSE]
      BY <2>1 DEF GetDetails
    <3>2. job' \in Jobs(Len(remote))
      BY <1>1, <1>2, <3>1 DEF Jobs
    <3>3. job'.made = job.made /\ job'.desired = job.desired /\ job'.st \in {"compare", "create"}
      BY <1>1, <3>1 DEF Jobs
    <3> QED BY <1>1, <1>3, <3>1, <3>2, <3>3 DEF Fits
  <2>2. CASE CompareItems
    <3>1. /\ job.st = "compare"
          /\ \/ job' = [job EXCEPT !.st = "ok", !.skipped = TRUE]
             \/ job' = [job EXCEPT !.st = "plan"]
             \/ job' = [job EXCEPT !.st = "plan", !.clean = FALSE]
      BY <2>2 DEF CompareItems
    <3>2. job' \in Jobs(Len(remote))
      BY <1>1, <1>2, <3>1 DEF Jobs
    <3>3. job'.made = job.made /\ job'.desired = job.desired /\ job'.st \in {"ok", "plan"}
      BY <1>1, <3>1 DEF Jobs
    <3> QED BY <1>1, <1>3, <3>1, <3>2, <3>3 DEF Fits
  <2>3. CASE PlanUpdate
    <3>1. /\ job.st = "plan"
          /\ \/ \E cur \in {Listed(saved), <<>>} :
                    LET todo == UpdatePlan(cur, job.desired) IN
                    \/ job' = [job EXCEPT !.st = "requests", !.batches = todo]
                    \/ job' = [job EXCEPT !.st = "requests", !.clean = FALSE, !.batches = todo]
             \/ job' = [job EXCEPT !.st = "failed", !.clean = FALSE]
      BY <2>3 DEF PlanUpdate
    <3>2. \A cur \in {Listed(saved), <<>>} : UpdatePlan(cur, job.desired) \in Seq(Seq(Request))
      <4>1. Listed(saved) \in Seq(Items) /\ <<>> \in Seq(Items)
        <5>1. Exists(saved) => saved \in 1..Len(remote)
          BY <1>1 DEF Exists
        <5>2. Exists(saved) => remote[saved] \in Seq(Items)
          BY <1>1, <5>1, ElementOfSeq DEF Exists
        <5> QED BY <5>2 DEF Listed
      <4>2. job.desired \in Seq(Items) /\ backend \in {"plex", "jellyfin"}
        BY <1>1, TypeParts DEF Jobs
      <4> QED BY <4>1, <4>2, PlanType
    <3>3. job' \in Jobs(Len(remote))
      BY <1>1, <1>2, <3>1, <3>2 DEF Jobs
    <3>4. job'.made = job.made /\ job'.desired = job.desired /\ job'.st \in {"requests", "failed"}
      BY <1>1, <3>1 DEF Jobs
    <3> QED BY <1>1, <1>3, <3>1, <3>3, <3>4 DEF Fits
  <2> QED BY <2>1, <2>2, <2>3
<1> QED
  <2>1. /\ remote' = remote /\ saved' = saved /\ UNCHANGED backend /\ UNCHANGED attempts
        /\ Len(remote') = Len(remote)
    BY <1>3
  <2>2. saved' \in 0..Len(remote') /\ job' \in Jobs(Len(remote'))
    BY <1>1, <1>4, <2>1
  <2>3. remote' \in Seq(Seq(Items) \cup {Gone})
    BY <1>1, <2>1
  <2>4. Fits' /\ (Calm \/ Trouble) /\ UNCHANGED backend /\ UNCHANGED attempts
    BY <1>3, <1>4, <2>1
  <2> QED BY <2>2, <2>3, <2>4, TypeFrom

\* (Sending requests.)
LEMMA RequestTypes ==
    ASSUME TypeOK, SendRequest \/ EndBatch \/ EndRequests
    PROVE  TypeOK'
<1> USE DEF Goes, GoesDirty
<1>1. /\ job \in Jobs(Len(remote)) /\ Len(remote) \in Nat /\ Fits /\ saved \in 0..Len(remote)
      /\ remote \in Seq(Seq(Items) \cup {Gone})
  BY TypeParts DEF TypeOK
<1>2. {"ok", "save", "failed"} \subseteq States /\ TRUE \in BOOLEAN /\ FALSE \in BOOLEAN
  BY DEF States, Ended
<1>3. /\ UNCHANGED <<backend, saved, attempts>> /\ (Calm \/ Trouble)
      /\ job.st = "requests" /\ (job.batches # <<>> \/ EndRequests)
  BY DEF SendRequest, EndBatch, EndRequests, Calm
<1>4. /\ job.batches \in Seq(Seq(Request))
      /\ job.batches # <<>> => /\ Tail(job.batches) \in Seq(Seq(Request))
                               /\ Head(job.batches) \in Seq(Request)
  BY <1>1 DEF Jobs
<1>5. /\ job' \in Jobs(Len(remote)) /\ Fits'
      /\ remote' \in Seq(Seq(Items) \cup {Gone}) /\ Len(remote') = Len(remote)
  <2>1. CASE SendRequest
    <3> DEFINE req == Head(Head(job.batches))
               rest == << Tail(Head(job.batches)) >> \o Tail(job.batches)
    <3>1. req \in Request /\ rest \in Seq(Seq(Request))
      <4>1. Head(job.batches) \in Seq(Request) /\ Head(job.batches) # <<>>
        BY <1>4, <2>1 DEF SendRequest
      <4>2. req \in Request /\ Tail(Head(job.batches)) \in Seq(Request)
        BY <4>1, HeadTailProperties
      <4> DEFINE h == Tail(Head(job.batches))
      <4> HIDE DEF h
      <4>3. <<h>> \in Seq(Seq(Request)) /\ Tail(job.batches) \in Seq(Seq(Request))
        BY <1>4, <2>1, <4>2 DEF SendRequest, h
      <4>4. <<h>> \o Tail(job.batches) \in Seq(Seq(Request))
        BY <4>3
      <4> QED BY <4>2, <4>4 DEF h
    <3>2. /\ \/ UNCHANGED remote
             \/ Exists(Current) /\ remote' = [remote EXCEPT ![Current] = Served(@, req)]
          /\ \/ job' = [job EXCEPT !.batches = rest]
             \/ job' = [job EXCEPT !.batches = rest, !.bad = TRUE]
             \/ job' = [job EXCEPT !.batches = rest, !.bad = TRUE, !.clean = FALSE]
             \/ job' = [job EXCEPT !.st = "failed", !.clean = FALSE]
      BY <2>1 DEF SendRequest
    <3> HIDE DEF req, rest
    <3>3. remote' \in Seq(Seq(Items) \cup {Gone}) /\ Len(remote') = Len(remote)
      <4>1. Exists(Current) =>
                /\ [remote EXCEPT ![Current] = Served(@, req)] \in Seq(Seq(Items) \cup {Gone})
                /\ Len([remote EXCEPT ![Current] = Served(@, req)]) = Len(remote)
        BY <3>1, ServeType
      <4> QED BY <1>1, <3>2, <4>1
    <3>4. job' \in Jobs(Len(remote))
      BY <1>1, <1>2, <3>1, <3>2 DEF Jobs
    <3>5. job'.made = job.made /\ job'.desired = job.desired /\ job'.st \in {"requests", "failed"}
      BY <1>1, <1>3, <3>2 DEF Jobs
    <3> QED BY <1>1, <1>3, <3>3, <3>4, <3>5 DEF Fits
  <2>2. CASE EndBatch
    <3>1. UNCHANGED remote /\ \/ job' = [job EXCEPT !.st = "failed"]
                              \/ job' = [job EXCEPT !.batches = Tail(@), !.bad = FALSE]
      BY <2>2 DEF EndBatch
    <3>2. job.batches # <<>>
      BY <2>2 DEF EndBatch
    <3>3. job' \in Jobs(Len(remote))
      BY <1>1, <1>2, <1>4, <3>1, <3>2 DEF Jobs
    <3>4. job'.made = job.made /\ job'.desired = job.desired /\ job'.st \in {"requests", "failed"}
      BY <1>1, <1>3, <3>1 DEF Jobs
    <3> QED BY <1>1, <1>3, <3>1, <3>3, <3>4 DEF Fits
  <2>3. CASE EndRequests
    <3>1. UNCHANGED remote /\ job' = [job EXCEPT !.st = IF job.made = 0 THEN "ok" ELSE "save"]
      BY <2>3 DEF EndRequests
    <3>2. job' \in Jobs(Len(remote))
      BY <1>1, <1>2, <3>1 DEF Jobs
    <3>3. /\ job'.made = job.made /\ job'.desired = job.desired
          /\ job'.st = IF job.made = 0 THEN "ok" ELSE "save"
      BY <1>1, <3>1 DEF Jobs
    <3> QED BY <1>1, <1>3, <3>1, <3>2, <3>3 DEF Fits
  <2> QED BY <2>1, <2>2, <2>3
<1> QED
  <2>1. saved' = saved /\ UNCHANGED backend /\ UNCHANGED attempts
    BY <1>3
  <2>2. saved' \in 0..Len(remote') /\ job' \in Jobs(Len(remote'))
    BY <1>1, <1>5, <2>1
  <2>4. Fits' /\ (Calm \/ Trouble) /\ UNCHANGED backend /\ UNCHANGED attempts
    BY <1>3, <1>5, <2>1
  <2>3. remote' \in Seq(Seq(Items) \cup {Gone})
    BY <1>5
  <2> QED BY <2>2, <2>3, <2>4, TypeFrom

\* (Making a playlist.)
LEMMA CreateTypes ==
    ASSUME TypeOK, PlexCreates \/ JellyfinCreates \/ SaveId
    PROVE  TypeOK'
<1> USE DEF Goes, GoesDirty
<1>1. /\ job \in Jobs(Len(remote)) /\ Len(remote) \in Nat /\ Fits /\ saved \in 0..Len(remote)
      /\ remote \in Seq(Seq(Items) \cup {Gone})
  BY TypeParts DEF TypeOK
<1>2. {"ok", "save", "failed", "requests"} \subseteq States /\ TRUE \in BOOLEAN /\ FALSE \in BOOLEAN
  BY DEF States, Ended
<1>3. /\ UNCHANGED <<backend, attempts>> /\ (Calm \/ Trouble)
      /\ UNCHANGED saved \/ SaveId
  BY DEF PlexCreates, JellyfinCreates, SaveId, Calm
<1>4. job.st = "create" => job.desired \in Seq(Items) /\ job.desired # <<>>
  BY <1>1, WantedAssumption DEF Fits
<1>5. \A list \in Seq(Items) : /\ Append(remote, list) \in Seq(Seq(Items) \cup {Gone})
                               /\ Len(Append(remote, list)) = Len(remote) + 1
  BY <1>1
<1>6. NewId \in 0..(Len(remote) + 1) /\ NewId # 0 /\ job \in Jobs(Len(remote) + 1)
  <2>1. 0..Len(remote) \subseteq 0..(Len(remote) + 1)
    BY <1>1
  <2>2. job \in Jobs(Len(remote) + 1)
    BY <1>1, <2>1 DEF Jobs
  <2> QED BY <1>1, <2>2 DEF NewId
<1>7. /\ remote' \in Seq(Seq(Items) \cup {Gone}) /\ saved' \in 0..Len(remote')
      /\ job' \in Jobs(Len(remote')) /\ Fits'
  <2>1. CASE PlexCreates
    <3> DEFINE todo == << Singles("add", Tail(job.desired)) >>
               first == Append(remote, <<job.desired[1]>>)
    <3>1. job.st = "create" /\ UNCHANGED saved
      BY <2>1 DEF PlexCreates
    <3>2. Tail(job.desired) \in Seq(Items) /\ <<job.desired[1]>> \in Seq(Items)
      BY <1>4, <3>1
    <3>3. todo \in Seq(Seq(Request))
      <4>1. Singles("add", Tail(job.desired)) \in Seq(Request)
        BY <3>2, SinglesFacts
      <4> QED BY <4>1
    <3>4. first \in Seq(Seq(Items) \cup {Gone}) /\ Len(first) = Len(remote) + 1
      BY <1>5, <3>2
    <3>5. \/ /\ remote' = first
             /\ job' = [job EXCEPT !.st = "requests", !.made = NewId, !.batches = todo]
          \/ UNCHANGED remote /\ job' = [job EXCEPT !.st = "ok", !.clean = FALSE]
          \/ remote' = first /\ job' = [job EXCEPT !.st = "failed", !.clean = FALSE]
      BY <2>1 DEF PlexCreates
    <3> HIDE DEF todo, first
    <3>6. /\ job' \in Jobs(Len(remote')) /\ job'.desired = job.desired
          /\ (job'.st = "requests" /\ job'.made # 0) \/ job'.st \in {"ok", "failed"}
      <4>1. CASE /\ remote' = first
                 /\ job' = [job EXCEPT !.st = "requests", !.made = NewId, !.batches = todo]
        <5>1. Len(remote') = Len(remote) + 1
          BY <3>4, <4>1
        <5>2. job' \in Jobs(Len(remote) + 1)
          BY <1>2, <1>6, <3>3, <4>1 DEF Jobs
        <5>3. job'.desired = job.desired /\ job'.st = "requests" /\ job'.made = NewId
          BY <1>1, <4>1 DEF Jobs
        <5> QED BY <1>6, <5>1, <5>2, <5>3
      <4>2. CASE UNCHANGED remote /\ job' = [job EXCEPT !.st = "ok", !.clean = FALSE]
        BY <1>1, <1>2, <4>2 DEF Jobs
      <4>3. CASE remote' = first /\ job' = [job EXCEPT !.st = "failed", !.clean = FALSE]
        <5>1. Len(remote') = Len(remote) + 1
          BY <3>4, <4>3
        <5>2. job' \in Jobs(Len(remote) + 1)
          BY <1>2, <1>6, <4>3 DEF Jobs
        <5>3. job'.desired = job.desired /\ job'.st = "failed"
          BY <1>1, <4>3 DEF Jobs
        <5> QED BY <5>1, <5>2, <5>3
      <4> QED BY <3>5, <4>1, <4>2, <4>3
    <3>8. Fits'
      BY <1>1, <3>1, <3>6 DEF Fits
    <3> QED BY <1>1, <3>1, <3>4, <3>5, <3>6, <3>8
  <2>2. CASE JellyfinCreates
    <3> DEFINE whole == Append(remote, job.desired)
    <3>1. job.st = "create" /\ UNCHANGED saved
      BY <2>2 DEF JellyfinCreates
    <3>2. whole \in Seq(Seq(Items) \cup {Gone}) /\ Len(whole) = Len(remote) + 1
      BY <1>4, <1>5, <3>1
    <3>3. \/ remote' = whole /\ job' = [job EXCEPT !.st = "save", !.made = NewId]
          \/ remote' \in {remote, whole} /\ job' = [job EXCEPT !.st = "ok", !.clean = FALSE]
      BY <2>2 DEF JellyfinCreates
    <3> HIDE DEF whole
    <3>4. Len(remote') \in {Len(remote), Len(remote) + 1}
      BY <3>2, <3>3
    <3>5. /\ job' \in Jobs(Len(remote')) /\ job'.desired = job.desired
          /\ (job'.st = "save" /\ job'.made # 0) \/ job'.st = "ok"
      <4>1. CASE remote' = whole /\ job' = [job EXCEPT !.st = "save", !.made = NewId]
        <5>1. Len(remote') = Len(remote) + 1
          BY <3>2, <4>1
        <5>2. job' \in Jobs(Len(remote) + 1)
          BY <1>2, <1>6, <4>1 DEF Jobs
        <5>3. job'.desired = job.desired /\ job'.st = "save" /\ job'.made = NewId
          BY <1>1, <4>1 DEF Jobs
        <5> QED BY <1>6, <5>1, <5>2, <5>3
      <4>2. CASE job' = [job EXCEPT !.st = "ok", !.clean = FALSE]
        <5>1. job' \in Jobs(Len(remote)) /\ job' \in Jobs(Len(remote) + 1)
          BY <1>1, <1>2, <1>6, <4>2 DEF Jobs
        <5>2. job'.desired = job.desired /\ job'.st = "ok"
          BY <1>1, <4>2 DEF Jobs
        <5> QED BY <3>4, <5>1, <5>2
      <4> QED BY <3>3, <4>1, <4>2
    <3>6. Fits'
      BY <1>1, <3>1, <3>5 DEF Fits
    <3>7. remote' \in Seq(Seq(Items) \cup {Gone})
      <4>1. remote' = whole \/ remote' = remote
        BY <3>3
      <4> QED BY <1>1, <3>2, <4>1
    <3>8. saved' \in 0..Len(remote')
      <4>1. saved' \in 0..Len(remote)
        BY <1>1, <3>1
      <4> QED BY <1>1, <3>4, <4>1
    <3> QED BY <3>5, <3>6, <3>7, <3>8
  <2>3. CASE SaveId
    <3>1. /\ job.st = "save" /\ UNCHANGED remote /\ saved' = job.made
          /\ job' = [job EXCEPT !.st = "ok"]
      BY <2>3 DEF SaveId
    <3>2. job' \in Jobs(Len(remote)) /\ job.made \in 0..Len(remote)
      BY <1>1, <1>2, <3>1 DEF Jobs
    <3>3. job'.desired = job.desired /\ job'.st = "ok"
      BY <1>1, <3>1 DEF Jobs
    <3>4. Fits'
      BY <1>1, <3>1, <3>3 DEF Fits
    <3> QED BY <1>1, <3>1, <3>2, <3>4
  <2> QED BY <2>1, <2>2, <2>3
<1>8. UNCHANGED backend /\ UNCHANGED attempts
  BY <1>3
<1> QED
  BY <1>3, <1>7, <1>8, TypeFrom

\* (Starting, losing and disturbing an attempt.)
LEMMA OuterTypes ==
    ASSUME TypeOK, \/ \E d \in Wanted : StartSync(d)
                   \/ AttemptLost
                   \/ \E id \in DOMAIN remote : UserEdits(id)
    PROVE  TypeOK'
<1> USE DEF Goes, GoesDirty
<1>1. /\ job \in Jobs(Len(remote)) /\ Len(remote) \in Nat /\ Fits /\ saved \in 0..Len(remote)
      /\ remote \in Seq(Seq(Items) \cup {Gone}) /\ DOMAIN remote = 1..Len(remote)
  BY TypeParts DEF TypeOK
<1>2. {"create", "details", "failed"} \subseteq States /\ TRUE \in BOOLEAN /\ FALSE \in BOOLEAN
  BY DEF States, Ended
<1>3. ASSUME NEW d \in Wanted, StartSync(d) PROVE TypeOK'
  <2>1. d \in Seq(Items) /\ <<>> \in Seq(Seq(Request)) /\ 0 \in 0..Len(remote)
    BY <1>1, WantedAssumption
  <2>2. job' = [st |-> IF saved = 0 THEN "create" ELSE "details", desired |-> d, batches |-> <<>>,
                bad |-> FALSE, made |-> 0, clean |-> TRUE, skipped |-> FALSE]
    BY <1>3 DEF StartSync, NoJob
  <2>3. UNCHANGED remote /\ UNCHANGED saved /\ UNCHANGED backend /\ Calm
        /\ (attempts < MaxAttempts /\ attempts' = attempts + 1)
    BY <1>3 DEF StartSync, Calm
  <2>4. job' \in Jobs(Len(remote))
    BY <1>2, <2>1, <2>2 DEF Jobs
  <2>5. Fits'
    BY <2>2, <2>3 DEF Fits
  <2>6. /\ saved' \in 0..Len(remote') /\ job' \in Jobs(Len(remote'))
        /\ remote' \in Seq(Seq(Items) \cup {Gone})
    BY <1>1, <2>3, <2>4
  <2> QED BY <2>3, <2>5, <2>6, TypeFrom
<1>4. CASE AttemptLost
  <2>1. job.st \notin Ended /\ job' = [job EXCEPT !.st = "failed", !.clean = FALSE]
    BY <1>4 DEF AttemptLost
  <2>2. UNCHANGED remote /\ UNCHANGED saved /\ UNCHANGED backend /\ Trouble /\ UNCHANGED attempts
    BY <1>4 DEF AttemptLost
  <2>3. job' \in Jobs(Len(remote))
    BY <1>1, <1>2, <2>1 DEF Jobs
  <2>4. job'.desired = job.desired /\ job'.st = "failed"
    BY <1>1, <2>1 DEF Jobs
  <2>5. Fits'
    BY <1>1, <2>1, <2>4 DEF Fits, Ended
  <2>6. /\ saved' \in 0..Len(remote') /\ job' \in Jobs(Len(remote'))
        /\ remote' \in Seq(Seq(Items) \cup {Gone})
    BY <1>1, <2>2, <2>3
  <2> QED BY <2>2, <2>5, <2>6, TypeFrom
<1>5. ASSUME NEW id \in DOMAIN remote, UserEdits(id) PROVE TypeOK'
  <2>1. UNCHANGED saved /\ UNCHANGED backend /\ Trouble /\ UNCHANGED attempts /\ Exists(id)
    BY <1>5 DEF UserEdits
  <2>2. remote[id] \in Seq(Items)
    BY <1>1, <1>5, <2>1, ElementOfSeq DEF Exists
  <2>3. PICK list \in Seq(Items) \cup {Gone} : remote' = [remote EXCEPT ![id] = list]
    <3>1. \/ \E x \in Items : remote' = [remote EXCEPT ![id] = Append(remote[id], x)]
          \/ remote' = [remote EXCEPT ![id] = Gone]
      BY <1>5 DEF UserEdits
    <3> QED BY <2>2, <3>1, AppendProperties
  <2>4. remote' \in Seq(Seq(Items) \cup {Gone}) /\ Len(remote') = Len(remote)
    BY <1>1, <1>5, <2>3, ExceptSeq
  <2> DEFINE c == job.st \in Ended /\ job.clean
  <2>5. job' = [job EXCEPT !.clean = c]
    BY <1>5 DEF UserEdits
  <2>6. c \in BOOLEAN
    OBVIOUS
  <2> HIDE DEF c
  <2>7. job' \in Jobs(Len(remote))
    BY <1>1, <2>5, <2>6 DEF Jobs
  <2>8. job'.desired = job.desired /\ job'.st = job.st /\ job'.made = job.made
    BY <1>1, <2>5 DEF Jobs
  <2>9. Fits'
    BY <1>1, <2>1, <2>8 DEF Fits
  <2>10. saved' \in 0..Len(remote') /\ job' \in Jobs(Len(remote'))
    BY <1>1, <2>1, <2>4, <2>7
  <2> QED BY <2>1, <2>4, <2>9, <2>10, TypeFrom
<1> QED
  BY <1>3, <1>4, <1>5

\* Playlists, attempts and what they carry stay well typed, for any items, lists
\* and numbers of attempts and troubles.
THEOREM PublicationTypes == Spec => []TypeOK
<1>1. Init => TypeOK
  <2> SUFFICES ASSUME Init PROVE TypeOK
    OBVIOUS
  <2>1. remote = <<>> /\ saved = 0 /\ attempts = 0 /\ troubles = 0 /\ backend \in Backends
        /\ job = [st |-> "idle", desired |-> <<>>, batches |-> <<>>, bad |-> FALSE,
                  made |-> 0, clean |-> TRUE, skipped |-> FALSE]
    BY DEF Init, NoJob
  <2>2. <<>> \in Seq(Items) /\ <<>> \in Seq(Seq(Request)) /\ TRUE \in BOOLEAN /\ FALSE \in BOOLEAN
        /\ 0 \in 0..Len(remote) /\ remote \in Seq(Seq(Items) \cup {Gone})
    BY <2>1
  <2>3. 0 \in 0..MaxAttempts /\ 0 \in 0..MaxTroubles
    BY AttemptBoundsAssumption
  <2> QED BY <2>1, <2>2, <2>3 DEF TypeOK, Ended
<1>2. TypeOK /\ [Next]_vars => TypeOK'
  <2> SUFFICES ASSUME TypeOK, [Next]_vars PROVE TypeOK'
    OBVIOUS
  <2>1. CASE UNCHANGED vars
    BY <2>1 DEF vars, TypeOK
  <2> QED
    BY <2>1, CallTypes, RequestTypes, CreateTypes, OuterTypes DEF Next
<1> QED
  BY <1>1, <1>2, PTL DEF Spec

-----------------------------------------------------------------------------
(* Playlists nobody keeps *)

\* A look at the saved playlist that failed is paid for, but has made no stray
\* yet: the attempt makes a second playlist, or has made it and may still save it.
Replacing ==
    /\ Exists(saved)
    /\ \/ job.st = "create"
       \/ job.made # 0 /\ job.st \in {"requests", "save"}

\* The playlists on the target.
Alive == {id \in DOMAIN remote : Exists(id)}

\* Those beside the saved one and the one being made.
Strays == Alive \ {saved, IF job.st \in Ended THEN 0 ELSE job.made}

\* Strays, and the one a replacement is about to leave, are paid for.
PaidFor == Cardinality(Strays) + (IF Replacing THEN 1 ELSE 0) <= troubles

\* The ways in which a step keeps this: it leaves no new stray and starts no
\* replacement; or a failure pays for one of them; or a replacement ends.
LEMMA StepPays ==
    ASSUME TypeOK, PaidFor, NEW x, Strays' \subseteq Strays \cup {x},
           \/ Strays' \subseteq Strays /\ (Replacing' => Replacing) /\ (Calm \/ Trouble)
           \/ Strays' \subseteq Strays /\ Trouble
           \/ (Replacing' => Replacing) /\ Trouble
           \/ Replacing /\ ~Replacing' /\ (Calm \/ Trouble)
    PROVE  PaidFor'
<1>1. troubles \in Nat /\ Len(remote) \in Nat /\ DOMAIN remote = 1..Len(remote)
  BY TypeParts, AttemptBoundsAssumption
<1>2. IsFiniteSet(Strays)
  <2>1. Strays \subseteq 1..Len(remote) /\ IsFiniteSet(1..Len(remote))
    BY <1>1, FS_Interval DEF Strays, Alive
  <2> QED BY <2>1, FS_Subset
<1> DEFINE A == Strays
           B == Strays'
           a == Cardinality(A)
           b == Cardinality(B)
<1>3. a \in Nat /\ a + (IF Replacing THEN 1 ELSE 0) <= troubles
  BY <1>2, FS_CardinalityType DEF PaidFor
<1>4. IsFiniteSet(A) /\ B \subseteq A \cup {x}
  BY <1>2
<1> HIDE DEF A, B
<1>5. b \in Nat /\ b <= a + 1
  <2>1. IsFiniteSet(A \cup {x}) /\ Cardinality(A \cup {x}) \in {a, a + 1}
    BY <1>3, <1>4, FS_AddElement
  <2>2. IsFiniteSet(B) /\ Cardinality(B) <= Cardinality(A \cup {x})
    BY <1>4, <2>1, FS_Subset
  <2>3. Cardinality(B) \in Nat
    BY <2>2, FS_CardinalityType
  <2> QED BY <1>3, <2>1, <2>2, <2>3
<1>6. B \subseteq A => b <= a
  BY <1>4, FS_Subset
<1> HIDE DEF a, b
<1>7. troubles' \in {troubles, troubles + 1} /\ (Trouble => troubles' = troubles + 1)
  BY DEF Calm, Trouble
<1>8. \/ B \subseteq A /\ (Replacing' => Replacing) /\ (Calm \/ Trouble)
      \/ B \subseteq A /\ Trouble
      \/ (Replacing' => Replacing) /\ Trouble
      \/ Replacing /\ ~Replacing' /\ (Calm \/ Trouble)
  BY DEF A, B
<1>9. b + (IF Replacing' THEN 1 ELSE 0) <= troubles'
  BY <1>1, <1>3, <1>5, <1>6, <1>7, <1>8
<1> QED
  BY <1>9 DEF PaidFor, b, B

\* A playlist without an answer is none of the lists the server keeps.
LEMMA GoneIsNoList == Gone \notin Seq(Items)
<1> SUFFICES ASSUME Gone \in Seq(Items) PROVE FALSE
  OBVIOUS
<1>1. Len(Gone) = 1 /\ Gone[1] = "gone"
  BY DEF Gone
<1>2. Gone[1] \in Items
  BY <1>1, ElementOfSeq
<1> QED
  BY <1>1, <1>2, ItemsAssumption

\* A request leaves every playlist there that was there, and brings none back.
LEMMA RequestAlive ==
    ASSUME TypeOK, SendRequest
    PROVE  /\ Alive' = Alive /\ (Exists(saved)' <=> Exists(saved))
           /\ job'.made = job.made /\ job'.st \in {"requests", "failed"}
           /\ job'.st = "failed" => Trouble
           /\ Calm \/ Trouble
<1>1. /\ job \in Jobs(Len(remote)) /\ Len(remote) \in Nat /\ saved \in 0..Len(remote)
      /\ remote \in Seq(Seq(Items) \cup {Gone}) /\ DOMAIN remote = 1..Len(remote)
  BY TypeParts DEF TypeOK
<1> DEFINE req == Head(Head(job.batches))
           rest == << Tail(Head(job.batches)) >> \o Tail(job.batches)
<1>2. req \in Request
  <2>1. job.batches \in Seq(Seq(Request)) /\ job.batches # <<>> /\ Head(job.batches) # <<>>
    BY <1>1 DEF SendRequest, Jobs
  <2>2. Head(job.batches) \in Seq(Request)
    BY <2>1
  <2> QED BY <2>1, <2>2
<1>3. /\ \/ UNCHANGED remote
         \/ Exists(Current) /\ remote' = [remote EXCEPT ![Current] = Served(@, req)]
      /\ \/ job' = [job EXCEPT !.batches = rest]
         \/ job' = [job EXCEPT !.batches = rest, !.bad = TRUE]
         \/ job' = [job EXCEPT !.batches = rest, !.bad = TRUE, !.clean = FALSE]
         \/ job' = [job EXCEPT !.st = "failed", !.clean = FALSE] /\ Trouble
      /\ job.st = "requests" /\ UNCHANGED saved /\ (Calm \/ Trouble)
  BY DEF SendRequest, GoesDirty
<1> HIDE DEF req, rest
<1>4. /\ DOMAIN remote' = DOMAIN remote
      /\ \A id \in DOMAIN remote : remote'[id] = Gone <=> remote[id] = Gone
  <2>1. CASE UNCHANGED remote
    BY <2>1
  <2>2. CASE Exists(Current) /\ remote' = [remote EXCEPT ![Current] = Served(@, req)]
    <3>1. Current \in DOMAIN remote /\ Served(remote[Current], req) \in Seq(Items)
      BY <1>2, <2>2, ServeType
    <3>2. remote[Current] # Gone /\ Served(remote[Current], req) # Gone
      BY <2>2, <3>1, GoneIsNoList DEF Exists
    <3> QED BY <1>1, <2>2, <3>1, <3>2
  <2> QED BY <1>3, <2>1, <2>2
<1>5. Alive' = Alive
  BY <1>4 DEF Alive, Exists
<1>6. Exists(saved)' <=> Exists(saved)
  BY <1>1, <1>3, <1>4 DEF Exists
<1>7. job'.made = job.made /\ job'.st \in {"requests", "failed"} /\ (job'.st = "failed" => Trouble)
  BY <1>1, <1>3 DEF Jobs
<1> QED
  BY <1>3, <1>5, <1>6, <1>7

\* The steps that only talk about the saved playlist.
LEMMA CallsPaid ==
    ASSUME TypeOK, PaidFor, \/ \E d \in Wanted : StartSync(d)
                            \/ GetDetails \/ CompareItems \/ PlanUpdate
    PROVE  PaidFor'
<1> USE DEF Goes, GoesDirty
<1>1. job \in Jobs(Len(remote)) /\ Fits
  BY TypeParts
<1>2. UNCHANGED <<remote, saved>> /\ (Calm \/ Trouble)
  BY DEF StartSync, GetDetails, CompareItems, PlanUpdate, Calm
<1>3. /\ job'.made = 0
      /\ job.st \in Ended \/ job.made = 0
      /\ \/ job'.st \in {"details", "compare", "plan", "ok", "requests", "failed"}
         \/ job'.st = "create" /\ (~Exists(saved) \/ Trouble)
  <2>1. CASE \E d \in Wanted : StartSync(d)
    BY <2>1 DEF StartSync, NoJob, Exists
  <2>2. CASE GetDetails
    BY <1>1, <2>2 DEF GetDetails, Jobs, Fits
  <2>3. CASE CompareItems
    <3>1. /\ job.st = "compare"
          /\ \/ job' = [job EXCEPT !.st = "ok", !.skipped = TRUE]
             \/ job' = [job EXCEPT !.st = "plan"]
             \/ job' = [job EXCEPT !.st = "plan", !.clean = FALSE]
      BY <2>3 DEF CompareItems
    <3> QED BY <1>1, <3>1 DEF Jobs, Fits
  <2>4. CASE PlanUpdate
    <3>1. /\ job.st = "plan"
          /\ \/ \E todo : job' = [job EXCEPT !.st = "requests", !.batches = todo]
             \/ \E todo : job' = [job EXCEPT !.st = "requests", !.clean = FALSE, !.batches = todo]
             \/ job' = [job EXCEPT !.st = "failed", !.clean = FALSE]
      BY <2>4 DEF PlanUpdate
    <3> QED BY <1>1, <3>1 DEF Jobs, Fits
  <2> QED BY <2>1, <2>2, <2>3, <2>4
<1>4. Alive' = Alive /\ saved' = saved /\ (Exists(saved)' <=> Exists(saved))
  BY <1>2 DEF Alive, Exists
<1>5. Strays' \subseteq Strays
  <2>1. 0 \notin Alive
    BY DEF Alive, Exists
  <2> QED BY <1>3, <1>4, <2>1 DEF Strays
<1>6. ~Replacing' \/ Trouble
  BY <1>3, <1>4 DEF Replacing
<1> QED
  BY <1>2, <1>5, <1>6, StepPays

\* The steps of the requests: an answer lost while a playlist is being made
\* leaves a stray, and is a failure.
LEMMA RequestsPaid ==
    ASSUME TypeOK, PaidFor, SendRequest \/ EndBatch \/ EndRequests
    PROVE  PaidFor'
<1> USE DEF Goes, GoesDirty
<1>1. job \in Jobs(Len(remote)) /\ Fits
  BY TypeParts
<1>2. 0 \notin Alive
  BY DEF Alive, Exists
<1>3. CASE SendRequest
  <2>1. /\ Alive' = Alive /\ (Exists(saved)' <=> Exists(saved))
        /\ job'.made = job.made /\ job'.st \in {"requests", "failed"}
        /\ job'.st = "failed" => Trouble
        /\ Calm \/ Trouble
    BY <1>3, RequestAlive
  <2>2. saved' = saved /\ job.st = "requests"
    BY <1>3 DEF SendRequest
  <2>3. Replacing' => Replacing
    BY <2>1, <2>2 DEF Replacing
  <2>4. Strays' \subseteq Strays \cup {job.made}
    BY <2>1, <2>2 DEF Strays, Ended
  <2>5. job'.st = "requests" => Strays' \subseteq Strays
    BY <2>1, <2>2 DEF Strays
  <2> QED BY <2>1, <2>3, <2>4, <2>5, StepPays
<1>4. CASE EndBatch \/ EndRequests
  <2>1. UNCHANGED <<remote, saved>> /\ Calm /\ job.st = "requests"
    BY <1>4 DEF EndBatch, EndRequests, Calm
  <2>2. job'.made = job.made /\ \/ job'.st \in {"requests", "save"}
                                \/ job.made = 0
    <3>1. \/ job.bad /\ job.made = 0 /\ job' = [job EXCEPT !.st = "failed"]
          \/ job' = [job EXCEPT !.batches = Tail(job.batches), !.bad = FALSE]
          \/ job' = [job EXCEPT !.st = IF job.made = 0 THEN "ok" ELSE "save"]
      BY <1>4 DEF EndBatch, EndRequests
    <3> QED BY <1>1, <2>1, <3>1 DEF Jobs
  <2>3. Alive' = Alive /\ saved' = saved /\ (Exists(saved)' <=> Exists(saved))
    BY <2>1 DEF Alive, Exists
  <2>4. Strays' \subseteq Strays
    BY <1>2, <2>1, <2>2, <2>3 DEF Strays, Ended
  <2>5. Replacing' => Replacing
    <3>1. job'.st # "create"
      <4>1. \/ job'.st = "failed" \/ job'.st = job.st \/ job'.st \in {"ok", "save"}
        BY <1>1, <1>4 DEF EndBatch, EndRequests, Jobs
      <4> QED BY <2>1, <4>1
    <3> QED BY <2>1, <2>2, <2>3, <3>1 DEF Replacing
  <2> QED BY <2>1, <2>4, <2>5, StepPays
<1> QED
  BY <1>3, <1>4

\* The steps that make a playlist and save it.
LEMMA CreatesPaid ==
    ASSUME TypeOK, PaidFor, PlexCreates \/ JellyfinCreates \/ SaveId
    PROVE  PaidFor'
<1> USE DEF Goes, GoesDirty
<1>1. /\ job \in Jobs(Len(remote)) /\ Fits /\ remote \in Seq(Seq(Items) \cup {Gone})
      /\ Len(remote) \in Nat /\ saved \in 0..Len(remote) /\ DOMAIN remote = 1..Len(remote)
  BY TypeParts DEF TypeOK
<1>2. 0 \notin Alive /\ NewId = Len(remote) + 1
  BY DEF Alive, Exists, NewId
<1>3. ASSUME NEW list, remote' = Append(remote, list), UNCHANGED saved
      PROVE  Alive' \subseteq Alive \cup {NewId} /\ (Exists(saved)' => Exists(saved))
  <2>1. DOMAIN remote' = 1..(Len(remote) + 1) /\ \A id \in 1..Len(remote) : remote'[id] = remote[id]
    BY <1>1, <1>3
  <2>2. Alive' \subseteq Alive \cup {NewId}
    BY <1>1, <1>2, <2>1 DEF Alive, Exists
  <2>3. Exists(saved)' => Exists(saved)
    BY <1>1, <1>3, <2>1 DEF Exists
  <2> QED BY <2>2, <2>3
<1>4. CASE PlexCreates \/ JellyfinCreates
  <2>1. job.st = "create" /\ job.made = 0 /\ UNCHANGED saved /\ (Calm \/ Trouble)
    BY <1>1, <1>4 DEF PlexCreates, JellyfinCreates, Fits
  <2>2. \/ UNCHANGED remote
        \/ \E list : remote' = Append(remote, list)
    BY <1>4 DEF PlexCreates, JellyfinCreates
  <2>3. /\ Alive' \subseteq Alive \cup {NewId} /\ (Exists(saved)' => Exists(saved))
        /\ UNCHANGED remote => Alive' = Alive
    BY <1>3, <2>1, <2>2 DEF Alive, Exists
  <2>4. \/ job'.st \in {"requests", "save"} /\ job'.made = NewId
        \/ job'.st \in {"ok", "failed"} /\ Trouble
    <3>1. \/ \E todo : job' = [job EXCEPT !.st = "requests", !.made = NewId, !.batches = todo]
          \/ job' = [job EXCEPT !.st = "save", !.made = NewId]
          \/ job' = [job EXCEPT !.st = "ok", !.clean = FALSE] /\ Trouble
          \/ job' = [job EXCEPT !.st = "failed", !.clean = FALSE] /\ Trouble
      BY <1>4 DEF PlexCreates, JellyfinCreates
    <3> QED BY <1>1, <3>1 DEF Jobs
  <2>5. Replacing' => Replacing
    BY <2>1, <2>3, <2>4 DEF Replacing
  <2>6. Strays' \subseteq Strays \cup {NewId}
    BY <1>2, <2>1, <2>3 DEF Strays
  <2>7. job'.made = NewId /\ job'.st \in {"requests", "save"} => Strays' \subseteq Strays
    BY <1>2, <2>1, <2>3 DEF Strays, Ended
  <2> QED BY <2>1, <2>4, <2>5, <2>6, <2>7, StepPays
<1>5. CASE SaveId
  <2>1. job.st = "save" /\ saved' = job.made /\ UNCHANGED remote /\ Calm /\ job'.st = "ok"
    BY <1>1, <1>5 DEF SaveId, Jobs, Calm
  <2>2. Alive' = Alive /\ ~Replacing'
    BY <2>1 DEF Alive, Exists, Replacing
  <2>3. Strays' \subseteq Strays \cup {saved}
    BY <2>1, <2>2 DEF Strays, Ended
  <2>4. CASE Exists(saved)
    <3>1. Replacing
      BY <1>1, <2>1, <2>4 DEF Replacing, Fits
    <3> QED BY <2>1, <2>2, <2>3, <3>1, StepPays
  <2>5. CASE ~Exists(saved)
    <3>1. saved \notin Alive
      BY <2>5 DEF Alive
    <3>2. Strays' \subseteq Strays
      BY <2>2, <2>3, <3>1 DEF Strays
    <3> QED BY <2>1, <2>2, <3>2, StepPays
  <2> QED BY <2>4, <2>5
<1> QED
  BY <1>4, <1>5

\* The steps of others.
LEMMA OthersPaid ==
    ASSUME TypeOK, PaidFor, AttemptLost \/ \E id \in DOMAIN remote : UserEdits(id)
    PROVE  PaidFor'
<1> USE DEF Goes, GoesDirty
<1>1. /\ job \in Jobs(Len(remote)) /\ DOMAIN remote = 1..Len(remote)
      /\ saved \in 0..Len(remote) /\ Len(remote) \in Nat
  BY TypeParts DEF TypeOK
<1>2. CASE AttemptLost
  <2>1. UNCHANGED <<remote, saved>> /\ Trouble /\ job'.st = "failed" /\ job.st \notin Ended
    BY <1>1, <1>2 DEF AttemptLost, Jobs
  <2>2. Alive' = Alive /\ saved' = saved
    BY <2>1 DEF Alive, Exists
  <2>3. Strays' \subseteq Strays \cup {job.made} /\ ~Replacing'
    BY <2>1, <2>2 DEF Strays, Replacing
  <2> QED BY <2>1, <2>3, StepPays
<1>3. ASSUME NEW id \in DOMAIN remote, UserEdits(id) PROVE PaidFor'
  <2>1. /\ UNCHANGED saved /\ Trouble /\ Exists(id)
        /\ job' = [job EXCEPT !.clean = job.st \in Ended /\ job.clean]
        /\ \E list : remote' = [remote EXCEPT ![id] = list]
    BY <1>3 DEF UserEdits
  <2>2. job'.st = job.st /\ job'.made = job.made
    BY <1>1, <2>1 DEF Jobs
  <2>3. DOMAIN remote' = DOMAIN remote /\ \A k \in DOMAIN remote : k # id => remote'[k] = remote[k]
    BY <2>1
  <2>4. Alive' \subseteq Alive
    BY <2>1, <2>3 DEF Alive, Exists
  <2>5. Exists(saved)' => Exists(saved)
    <3>1. CASE saved = id
      BY <2>1, <3>1
    <3>2. CASE saved # id
      <4>1. Exists(saved)' => saved \in DOMAIN remote
        BY <1>1, <2>1 DEF Exists
      <4> QED BY <2>1, <2>3, <3>2, <4>1 DEF Exists
    <3> QED BY <3>1, <3>2
  <2>6. Strays' \subseteq Strays /\ (Replacing' => Replacing)
    BY <2>1, <2>2, <2>4, <2>5 DEF Strays, Replacing
  <2> QED BY <2>1, <2>6, StepPays
<1> QED
  BY <1>2, <1>3

\* Every playlist beside the saved one and the one being made was paid for by a
\* failure: attempts do not pile up playlists on the target by themselves.
THEOREM StraysPaidFor == Spec => []StraysBounded
<1>1. Init => PaidFor
  <2> SUFFICES ASSUME Init PROVE PaidFor
    OBVIOUS
  <2>1. remote = <<>> /\ saved = 0 /\ troubles = 0
    BY DEF Init
  <2>2. Strays = {} /\ ~Replacing
    BY <2>1 DEF Strays, Alive, Replacing, Exists
  <2>3. Cardinality({}) = 0
    BY FS_EmptySet
  <2> QED BY <2>1, <2>2, <2>3 DEF PaidFor
<1>2. TypeOK /\ PaidFor /\ [Next]_vars => PaidFor'
  <2> SUFFICES ASSUME TypeOK, PaidFor, [Next]_vars PROVE PaidFor'
    OBVIOUS
  <2>1. CASE UNCHANGED vars
    BY <2>1 DEF vars, PaidFor, Strays, Alive, Replacing, Exists
  <2> QED
    BY <2>1, CallsPaid, RequestsPaid, CreatesPaid, OthersPaid DEF Next
<1>3. TypeOK /\ PaidFor => StraysBounded
  <2> SUFFICES ASSUME TypeOK, PaidFor PROVE StraysBounded
    OBVIOUS
  <2>1. troubles \in Nat /\ Len(remote) \in Nat /\ DOMAIN remote = 1..Len(remote)
    BY TypeParts, AttemptBoundsAssumption
  <2>2. Strays \subseteq 1..Len(remote) /\ IsFiniteSet(1..Len(remote))
    BY <2>1, FS_Interval DEF Strays, Alive
  <2>3. IsFiniteSet(Strays)
    BY <2>2, FS_Subset
  <2>4. Cardinality(Strays) \in Nat
    BY <2>3, FS_CardinalityType
  <2>5. Cardinality(Strays) <= troubles
    BY <2>1, <2>4 DEF PaidFor
  <2> QED BY <2>5 DEF StraysBounded, Strays, Alive
<1> QED
  BY <1>1, <1>2, <1>3, PublicationTypes, PTL DEF Spec

-----------------------------------------------------------------------------
(* What an update reports *)

\* Some request of a batch still to make asks for an item.
Asked(todo, op, x) ==
    \E n \in DOMAIN todo : \E r \in ItemsOf(todo[n]) : r.op = op /\ x \in ItemsOf(r.items)

\* The last batch adds, the others remove, and without a batch none has failed.
AddsLast ==
    job.st = "requests" =>
        /\ \A n \in DOMAIN job.batches : \A r \in ItemsOf(job.batches[n]) :
              r.items # <<>> /\ r.op = IF n = Len(job.batches) THEN "add" ELSE "del"
        /\ job.batches = <<>> => ~job.bad

\* A wanted item is in the playlist and stays there, or is still to be added,
\* or the batch in which it should have been has failed.
Covered ==
    (job.st = "requests" /\ job.made = 0 /\ Exists(saved)) =>
        \A x \in ItemsOf(job.desired) :
            \/ x \in ItemsOf(remote[saved]) /\ ~Asked(job.batches, "del", x)
            \/ Asked(job.batches, "add", x)
            \/ job.bad

\* A request that was made leaves the others.
LEMMA SendLeaves ==
    ASSUME NEW todo \in Seq(Seq(Request)), todo # <<>>, Head(todo) # <<>>
    PROVE  LET req  == Head(Head(todo))
               rest == << Tail(Head(todo)) >> \o Tail(todo)
           IN  /\ rest \in Seq(Seq(Request)) /\ rest # <<>> /\ Len(rest) = Len(todo)
               /\ 1 \in DOMAIN todo /\ req \in ItemsOf(todo[1])
               /\ DOMAIN rest = DOMAIN todo
               /\ \A n \in DOMAIN todo : ItemsOf(rest[n]) \subseteq ItemsOf(todo[n])
               /\ \A op, x : Asked(rest, op, x) => Asked(todo, op, x)
               /\ \A op, x : Asked(todo, op, x) =>
                     Asked(rest, op, x) \/ (req.op = op /\ x \in ItemsOf(req.items))
<1> DEFINE h == Head(todo)
           req == Head(h)
           t == Tail(h)
           rest == << t >> \o Tail(todo)
<1>1. Len(todo) \in Nat /\ DOMAIN todo = 1..Len(todo) /\ 1 \in DOMAIN todo
  BY LenProperties, EmptySeq
<1>2. /\ h \in Seq(Request) /\ h = todo[1] /\ Tail(todo) \in Seq(Seq(Request))
      /\ Len(Tail(todo)) = Len(todo) - 1
      /\ \A i \in 1..Len(Tail(todo)) : Tail(todo)[i] = todo[i + 1]
  BY <1>1, HeadTailProperties, ElementOfSeq
<1> HIDE DEF h
<1>3. /\ t \in Seq(Request) /\ req = h[1] /\ Len(t) = Len(h) - 1 /\ Len(h) \in Nat \ {0}
      /\ \A i \in 1..Len(t) : t[i] = h[i + 1]
  <2>1. h # <<>>
    BY DEF h
  <2> QED BY <1>2, <2>1, HeadTailProperties, LenProperties, EmptySeq
<1>4. ItemsOf(h) = ItemsOf(t) \cup {req}
  <2>1. DOMAIN h = 1..Len(h) /\ DOMAIN t = 1..Len(t)
    BY <1>2, <1>3, LenProperties
  <2>2. \A i \in DOMAIN h : h[i] \in ItemsOf(t) \cup {req}
    <3> TAKE i \in DOMAIN h
    <3>1. CASE i = 1
      BY <1>3, <3>1
    <3>2. CASE i # 1
      <4>1. i - 1 \in DOMAIN t /\ t[i - 1] = h[(i - 1) + 1] /\ (i - 1) + 1 = i
        BY <1>3, <2>1, <3>2
      <4> QED BY <4>1 DEF ItemsOf
    <3> QED BY <3>1, <3>2
  <2>3. \A i \in DOMAIN t : t[i] \in ItemsOf(h)
    BY <1>3, <2>1 DEF ItemsOf
  <2>4. req \in ItemsOf(h)
    BY <1>3, <2>1 DEF ItemsOf
  <2> QED BY <2>2, <2>3, <2>4 DEF ItemsOf
<1> HIDE DEF t, req
<1>5. /\ rest \in Seq(Seq(Request)) /\ Len(rest) = Len(todo) /\ DOMAIN rest = DOMAIN todo
      /\ rest[1] = t /\ \A n \in DOMAIN todo : n # 1 => rest[n] = todo[n]
  <2> DEFINE u == Tail(todo)
  <2> HIDE DEF u
  <2>1. u \in Seq(Seq(Request)) /\ Len(u) = Len(todo) - 1 /\ \A i \in 1..Len(u) : u[i] = todo[i + 1]
    BY <1>2 DEF u
  <2>2. <<t>> \in Seq(Seq(Request)) /\ Len(<<t>>) = 1 /\ <<t>>[1] = t
    BY <1>3
  <2>3. /\ <<t>> \o u \in Seq(Seq(Request)) /\ Len(<<t>> \o u) = 1 + Len(u)
        /\ \A i \in 1..(1 + Len(u)) : (<<t>> \o u)[i] = IF i <= 1 THEN <<t>>[i] ELSE u[i - 1]
    BY <2>1, <2>2, ConcatProperties
  <2> DEFINE v == <<t>> \o u
  <2> HIDE DEF v
  <2>4. /\ v \in Seq(Seq(Request)) /\ Len(v) = Len(todo)
        /\ \A i \in 1..Len(todo) : v[i] = IF i <= 1 THEN t ELSE u[i - 1]
    <3>1. 1 + Len(u) = Len(todo)
      BY <1>1, <2>1
    <3>2. /\ v \in Seq(Seq(Request)) /\ Len(v) = Len(todo)
          /\ \A i \in 1..Len(todo) : v[i] = IF i <= 1 THEN <<t>>[i] ELSE u[i - 1]
      BY <2>3, <3>1 DEF v
    <3>3. \A i \in 1..Len(todo) : i <= 1 => <<t>>[i] = t
      BY <1>1, <2>2
    <3> QED BY <3>2, <3>3
  <2>5. DOMAIN v = DOMAIN todo /\ v[1] = t
    BY <1>1, <2>4, LenProperties
  <2>6. \A n \in DOMAIN todo : n # 1 => v[n] = todo[n]
    <3> SUFFICES ASSUME NEW n \in DOMAIN todo, n # 1 PROVE v[n] = todo[n]
      OBVIOUS
    <3>1. n - 1 \in 1..Len(u) /\ ~(n <= 1) /\ (n - 1) + 1 = n
      BY <1>1, <2>1
    <3> QED BY <1>1, <2>1, <2>4, <3>1
  <2> QED BY <2>4, <2>5, <2>6 DEF v, u
<1> HIDE DEF rest
<1>6. rest # <<>>
  BY <1>1, <1>5
<1>7. \A n \in DOMAIN todo : ItemsOf(rest[n]) \subseteq ItemsOf(todo[n])
  BY <1>2, <1>4, <1>5
<1>8. \A op, x : Asked(rest, op, x) => Asked(todo, op, x)
  BY <1>5, <1>7 DEF Asked
<1>9. \A op, x : Asked(todo, op, x) =>
         Asked(rest, op, x) \/ (req.op = op /\ x \in ItemsOf(req.items))
  <2> SUFFICES ASSUME NEW op, NEW x, NEW n \in DOMAIN todo, NEW r \in ItemsOf(todo[n]),
                      r.op = op, x \in ItemsOf(r.items), r # req
               PROVE  Asked(rest, op, x)
    BY DEF Asked
  <2>1. r \in ItemsOf(rest[n])
    BY <1>2, <1>4, <1>5
  <2> QED BY <1>5, <2>1 DEF Asked
<1>10. req \in ItemsOf(todo[1])
  BY <1>2, <1>4
<1> QED
  BY <1>1, <1>5, <1>6, <1>7, <1>8, <1>9, <1>10 DEF rest, t, req, h

\* A batch that is through leaves the others.
LEMMA BatchLeaves ==
    ASSUME NEW todo \in Seq(Seq(Request)), todo # <<>>, Head(todo) = <<>>
    PROVE  /\ Len(Tail(todo)) = Len(todo) - 1 /\ Len(todo) \in Nat
           /\ \A n \in DOMAIN Tail(todo) : n + 1 \in DOMAIN todo /\ Tail(todo)[n] = todo[n + 1]
           /\ \A op, x : Asked(Tail(todo), op, x) <=> Asked(todo, op, x)
<1> DEFINE u == Tail(todo)
<1>1. /\ u \in Seq(Seq(Request)) /\ Len(u) = Len(todo) - 1 /\ todo[1] = <<>>
      /\ \A i \in 1..Len(u) : u[i] = todo[i + 1]
  BY HeadTailProperties
<1> HIDE DEF u
<1>2. Len(todo) \in Nat /\ DOMAIN todo = 1..Len(todo) /\ DOMAIN u = 1..(Len(todo) - 1)
  <2>1. \A q \in Seq(Seq(Request)) : Len(q) \in Nat /\ DOMAIN q = 1..Len(q)
    BY LenProperties
  <2>2. DOMAIN u = 1..Len(u)
    BY <1>1, <2>1
  <2> QED BY <1>1, <2>1, <2>2
<1>3. \A n \in DOMAIN u : n + 1 \in DOMAIN todo /\ u[n] = todo[n + 1]
  <2> TAKE n \in DOMAIN u
  <2>1. n \in 1..(Len(todo) - 1) /\ n \in 1..Len(u)
    BY <1>1, <1>2
  <2>2. n + 1 \in DOMAIN todo
    BY <1>2, <2>1
  <2> QED BY <1>1, <2>1, <2>2
<1>4. \A op, x : Asked(todo, op, x) => Asked(u, op, x)
  <2> SUFFICES ASSUME NEW op, NEW x, NEW n \in DOMAIN todo, NEW r \in ItemsOf(todo[n]),
                      r.op = op, x \in ItemsOf(r.items)
               PROVE  Asked(u, op, x)
    BY DEF Asked
  <2>1. n # 1
    <3>1. ItemsOf(<<>>) = {}
      BY DEF ItemsOf
    <3> QED BY <1>1, <3>1
  <2>2. n - 1 \in 1..(Len(todo) - 1) /\ (n - 1) + 1 = n
    BY <1>2, <2>1, SMTT(30)
  <2>3. n - 1 \in DOMAIN u /\ u[n - 1] = todo[n]
    BY <1>2, <1>3, <2>2
  <2> QED BY <2>3 DEF Asked
<1>5. \A op, x : Asked(u, op, x) => Asked(todo, op, x)
  BY <1>3 DEF Asked
<1> QED
  BY <1>1, <1>2, <1>3, <1>4, <1>5 DEF u

\* The items of two lists in a row.
LEMMA ItemsConcat ==
    ASSUME NEW S, NEW s \in Seq(S), NEW t \in Seq(S)
    PROVE  ItemsOf(s \o t) = ItemsOf(s) \cup ItemsOf(t)
<1> DEFINE u == s \o t
<1>1. /\ Len(s) \in Nat /\ Len(t) \in Nat /\ DOMAIN s = 1..Len(s) /\ DOMAIN t = 1..Len(t)
      /\ DOMAIN u = 1..(Len(s) + Len(t))
      /\ \A i \in 1..(Len(s) + Len(t)) : u[i] = IF i <= Len(s) THEN s[i] ELSE t[i - Len(s)]
  <2>1. \A q \in Seq(S) : Len(q) \in Nat /\ DOMAIN q = 1..Len(q)
    BY LenProperties
  <2>2. /\ u \in Seq(S) /\ Len(u) = Len(s) + Len(t)
        /\ \A i \in 1..(Len(s) + Len(t)) : u[i] = IF i <= Len(s) THEN s[i] ELSE t[i - Len(s)]
    BY ConcatProperties
  <2> HIDE DEF u
  <2> QED BY <2>1, <2>2
<1> HIDE DEF u
<1>2. \A i \in DOMAIN u : u[i] \in ItemsOf(s) \cup ItemsOf(t)
  <2> TAKE i \in DOMAIN u
  <2>1. CASE i <= Len(s)
    <3>1. i \in DOMAIN s /\ u[i] = s[i]
      BY <1>1, <2>1
    <3> QED BY <3>1 DEF ItemsOf
  <2>2. CASE ~(i <= Len(s))
    <3>1. i - Len(s) \in DOMAIN t /\ u[i] = t[i - Len(s)]
      BY <1>1, <2>2
    <3> QED BY <3>1 DEF ItemsOf
  <2> QED BY <2>1, <2>2
<1>3. \A i \in DOMAIN s : s[i] \in ItemsOf(u)
  <2> TAKE i \in DOMAIN s
  <2>1. i \in DOMAIN u /\ u[i] = s[i]
    BY <1>1
  <2> QED BY <2>1 DEF ItemsOf
<1>4. \A i \in DOMAIN t : t[i] \in ItemsOf(u)
  <2> TAKE i \in DOMAIN t
  <2>1. Len(s) + i \in 1..(Len(s) + Len(t)) /\ ~(Len(s) + i <= Len(s)) /\ (Len(s) + i) - Len(s) = i
    BY <1>1
  <2>2. Len(s) + i \in DOMAIN u /\ u[Len(s) + i] = t[i]
    BY <1>1, <2>1
  <2> QED BY <2>2 DEF ItemsOf
<1> QED
  BY <1>2, <1>3, <1>4 DEF ItemsOf, u

\* What a request adds is there, and what it does not name stays.
LEMMA ServedKeeps ==
    ASSUME NEW s \in Seq(Items), NEW req \in Request, req.items # <<>>,
           backend \in {"plex", "jellyfin"}
    PROVE  /\ req.op = "add" => ItemsOf(Served(s, req)) = ItemsOf(s) \cup ItemsOf(req.items)
           /\ ItemsOf(s) \ ItemsOf(req.items) \subseteq ItemsOf(Served(s, req))
<1>1. req.op \in {"del", "add"} /\ req.items \in Seq(Items)
  BY DEF Request
<1>2. CASE req.op = "add"
  <2>1. Served(s, req) = s \o req.items
    BY <1>2 DEF Served
  <2> QED BY <1>1, <2>1, ItemsConcat
<1>3. CASE req.op = "del" /\ backend = "jellyfin"
  <2>1. Served(s, req) = Outside(s, ItemsOf(req.items))
    BY <1>3 DEF Served
  <2> DEFINE A == ItemsOf(req.items)
  <2> HIDE DEF A
  <2>2. ItemsOf(Outside(s, A)) = ItemsOf(s) \ A
    BY OutsideIs
  <2> QED BY <1>3, <2>1, <2>2 DEF A
<1>4. CASE req.op = "del" /\ backend = "plex"
  <2> DEFINE x == req.items[1]
  <2>1. Served(s, req) = IF x \in ItemsOf(s) THEN RemoveAt(s, FirstIndex(s, x)) ELSE s
    BY <1>4 DEF Served
  <2>2. x \in ItemsOf(req.items)
    <3>1. 1 \in DOMAIN req.items
      BY <1>1
    <3> QED BY <3>1 DEF ItemsOf
  <2> HIDE DEF x
  <2>3. ASSUME x \in ItemsOf(s)
        PROVE  ItemsOf(s) \ {x} \subseteq ItemsOf(RemoveAt(s, FirstIndex(s, x)))
    <3> DEFINE T == {i \in DOMAIN s : s[i] = x}
    <3>1. DOMAIN s = 1..Len(s) /\ Len(s) \in Nat
      BY LenProperties
    <3>2. T # {} /\ T \in SUBSET Nat
      BY <2>3, <3>1 DEF ItemsOf
    <3>3. PICK i \in T : \A j \in T : i <= j
      BY <3>2, LeastNumber
    <3>4. i \in DOMAIN s /\ s[i] = x /\ \A j \in 1..(i - 1) : s[j] # s[i]
      BY <3>1, <3>3
    <3>5. FirstIndex(s, x) = i
      BY <3>4, FirstIndexIs
    <3> DEFINE p == SubSeq(s, 1, i - 1)
               q == SubSeq(s, i + 1, Len(s))
    <3>6. p \in Seq(Items) /\ q \in Seq(Items) /\ s = (p \o <<s[i]>>) \o q
      BY <3>1, <3>4, SplitAt
    <3>7. RemoveAt(s, i) = p \o q
      BY DEF RemoveAt
    <3> HIDE DEF p, q
    <3>8. <<s[i]>> \in Seq(Items) /\ ItemsOf(<<s[i]>>) = {x}
      BY <3>1, <3>4, ElementOfSeq DEF ItemsOf
    <3> DEFINE m == <<s[i]>>
    <3> HIDE DEF m
    <3>9. m \in Seq(Items) /\ ItemsOf(m) = {x} /\ s = (p \o m) \o q /\ p \o m \in Seq(Items)
      <4>1. m \in Seq(Items) /\ ItemsOf(m) = {x} /\ s = (p \o m) \o q
        BY <3>6, <3>8 DEF m
      <4> QED BY <3>6, <4>1, ConcatProperties
    <3>10. ItemsOf(s) = (ItemsOf(p) \cup {x}) \cup ItemsOf(q)
      <4>1. ItemsOf((p \o m) \o q) = ItemsOf(p \o m) \cup ItemsOf(q)
        <5> DEFINE pm == p \o m
        <5>1. pm \in Seq(Items) /\ q \in Seq(Items)
          BY <3>6, <3>9
        <5> HIDE DEF pm
        <5>2. ItemsOf(pm \o q) = ItemsOf(pm) \cup ItemsOf(q)
          BY <5>1, ItemsConcat
        <5> QED BY <5>2 DEF pm
      <4>2. ItemsOf(p \o m) = ItemsOf(p) \cup {x}
        BY <3>6, <3>9, ItemsConcat
      <4> QED BY <3>9, <4>1, <4>2
    <3>11. ItemsOf(p \o q) = ItemsOf(p) \cup ItemsOf(q)
      BY <3>6, ItemsConcat
    <3> QED BY <3>5, <3>7, <3>10, <3>11
  <2> QED BY <1>4, <2>1, <2>2, <2>3
<1> QED
  BY <1>1, <1>2, <1>3, <1>4

\* A plan asks for every wanted item, or finds it there and leaves it.
LEMMA PlanCovers ==
    ASSUME NEW cur \in Seq(Items), NEW d \in Seq(Items), backend \in {"plex", "jellyfin"},
           NEW x \in ItemsOf(d)
    PROVE  \/ x \in ItemsOf(cur) /\ ~Asked(UpdatePlan(cur, d), "del", x)
           \/ Asked(UpdatePlan(cur, d), "add", x)
<1> DEFINE D == ItemsOf(d)
           C == ItemsOf(cur)
           gone == Outside(cur, D)
           add == Outside(d, C)
           rest == Inside(cur, D)
<1>0. x \in D
  OBVIOUS
<1> HIDE DEF C, D
<1>1. gone \in Seq(Items) /\ add \in Seq(Items) /\ rest \in Seq(Items)
  BY OutsideIs, InsideType
<1>2. ItemsOf(gone) = C \ D /\ ItemsOf(add) = D \ C
  <2>1. ItemsOf(gone) = ItemsOf(cur) \ D
    BY OutsideIs
  <2>2. ItemsOf(add) = ItemsOf(d) \ C
    BY OutsideIs
  <2> QED BY <2>1, <2>2 DEF C, D
<1> HIDE DEF gone, add, rest
<1>3. \A s \in Seq(Items) : x \in ItemsOf(s) =>
         \E r \in ItemsOf(Singles("add", s)) : r.op = "add" /\ x \in ItemsOf(r.items)
  <2> SUFFICES ASSUME NEW s \in Seq(Items), x \in ItemsOf(s)
               PROVE  \E r \in ItemsOf(Singles("add", s)) : r.op = "add" /\ x \in ItemsOf(r.items)
    OBVIOUS
  <2> DEFINE r == [op |-> "add", items |-> <<x>>]
  <2>1. r \in ItemsOf(Singles("add", s))
    BY SinglesFacts
  <2>2. r.op = "add" /\ r.items = <<x>> /\ x \in ItemsOf(<<x>>)
    BY DEF ItemsOf
  <2> QED BY <2>1, <2>2
<1>4. CASE backend = "jellyfin"
  <2>1. UpdatePlan(cur, d) = << Whole("del", cur), Whole("add", d) >>
    BY <1>4 DEF UpdatePlan, JellyfinPlan
  <2>2. d # <<>>
    <3>1. ItemsOf(<<>>) = {}
      BY DEF ItemsOf
    <3> QED BY <3>1
  <2>3. PICK r \in ItemsOf(Whole("add", d)) : r.op = "add" /\ x \in ItemsOf(r.items)
    BY <2>2, WholeFacts
  <2> DEFINE w == Whole("add", d)
             v == Whole("del", cur)
  <2> HIDE DEF w, v
  <2>4. 2 \in DOMAIN <<v, w>> /\ <<v, w>>[2] = w
    OBVIOUS
  <2>5. Asked(<<v, w>>, "add", x)
    BY <2>3, <2>4 DEF Asked, w
  <2> QED BY <2>1, <2>5 DEF v, w
<1>5. CASE backend = "plex"
  <2> DEFINE a == Singles("del", gone)
             b == Singles("del", rest)
             c == Singles("add", d)
             e == Singles("add", add)
  <2>1. UpdatePlan(cur, d) = IF cur = d THEN <<>>
                             ELSE IF NeedsReorder(rest, add, d) THEN <<a, b, c>> ELSE <<a, e>>
    BY <1>5 DEF UpdatePlan, PlexPlan, gone, rest, add, D, C
  <2>2. \A r \in ItemsOf(a) : r.op = "del" /\ ItemsOf(r.items) \subseteq C \ D
    BY <1>1, <1>2, SinglesFacts
  <2>3. \A r \in ItemsOf(e) : r.op = "add"
    BY <1>1, SinglesFacts
  <2>4. \E r \in ItemsOf(c) : r.op = "add" /\ x \in ItemsOf(r.items)
    BY <1>3
  <2>5. x \notin C => \E r \in ItemsOf(e) : r.op = "add" /\ x \in ItemsOf(r.items)
    <3>1. x \notin C => x \in ItemsOf(add)
      BY <1>0, <1>2
    <3> QED BY <1>1, <1>3, <3>1
  <2> HIDE DEF a, b, c, e
  <2>6. CASE cur = d
    <3>1. UpdatePlan(cur, d) = <<>> /\ DOMAIN <<>> = {}
      BY <2>1, <2>6
    <3> QED BY <2>6, <3>1 DEF Asked
  <2>7. Asked(<<a, b, c>>, "add", x)
    <3>1. 3 \in DOMAIN <<a, b, c>> /\ <<a, b, c>>[3] = c
      OBVIOUS
    <3> QED BY <2>4, <3>1 DEF Asked
  <2>8. CASE UpdatePlan(cur, d) = <<a, e>>
    <3>1. DOMAIN <<a, e>> = {1, 2} /\ <<a, e>>[1] = a /\ <<a, e>>[2] = e
      OBVIOUS
    <3>2. CASE x \in C
      <4>1. ~Asked(<<a, e>>, "del", x)
        <5> SUFFICES ASSUME NEW n \in {1, 2}, NEW r \in ItemsOf(<<a, e>>[n]), r.op = "del",
                            x \in ItemsOf(r.items)
                     PROVE  FALSE
          BY <3>1 DEF Asked
        <5> QED BY <1>0, <2>2, <2>3, <3>1
      <4> QED BY <2>8, <3>2, <4>1 DEF C
    <3>3. CASE x \notin C
      <4>1. Asked(<<a, e>>, "add", x)
        BY <2>5, <3>1, <3>3 DEF Asked
      <4> QED BY <2>8, <4>1
    <3> QED BY <3>2, <3>3
  <2> QED BY <2>1, <2>6, <2>7, <2>8
<1> QED
  BY <1>4, <1>5

\* An attempt that has made no request yet has seen none fail.
NoneFailed == job.st \in {"details", "create", "compare", "plan"} => ~job.bad

\* What is known of an update, whatever goes wrong.
CoverInv == NoneFailed /\ AddsLast /\ Covered

\* A request that is answered, refused or lost.
LEMMA SendCovers ==
    ASSUME TypeOK, CoverInv, SendRequest
    PROVE  CoverInv'
<1> USE DEF GoesDirty
<1>1. /\ job \in Jobs(Len(remote)) /\ Len(remote) \in Nat /\ saved \in 0..Len(remote)
      /\ remote \in Seq(Seq(Items) \cup {Gone}) /\ DOMAIN remote = 1..Len(remote)
      /\ backend \in {"plex", "jellyfin"}
  BY TypeParts DEF TypeOK
<1> DEFINE todo == job.batches
           req == Head(Head(todo))
           rest == << Tail(Head(todo)) >> \o Tail(todo)
<1>2. todo \in Seq(Seq(Request)) /\ todo # <<>> /\ Head(todo) # <<>> /\ job.st = "requests"
  BY <1>1 DEF SendRequest, Jobs
<1>3. \/ /\ Exists(Current) /\ remote' = [remote EXCEPT ![Current] = Served(@, req)]
         /\ job' = [job EXCEPT !.batches = rest]
      \/ job' = [job EXCEPT !.batches = rest, !.bad = TRUE]
      \/ job' = [job EXCEPT !.batches = rest, !.bad = TRUE, !.clean = FALSE]
      \/ job' = [job EXCEPT !.st = "failed", !.clean = FALSE]
  BY DEF SendRequest
<1>4. UNCHANGED <<saved, backend>>
  BY DEF SendRequest
<1>5. /\ rest \in Seq(Seq(Request)) /\ rest # <<>> /\ Len(rest) = Len(todo)
      /\ 1 \in DOMAIN todo /\ req \in ItemsOf(todo[1])
      /\ DOMAIN rest = DOMAIN todo
      /\ \A n \in DOMAIN todo : ItemsOf(rest[n]) \subseteq ItemsOf(todo[n])
      /\ \A op, x : Asked(rest, op, x) => Asked(todo, op, x)
      /\ \A op, x : Asked(todo, op, x) =>
            Asked(rest, op, x) \/ (req.op = op /\ x \in ItemsOf(req.items))
  <2> HIDE DEF todo
  <2> QED BY <1>2, SendLeaves
<1>6. \A n \in DOMAIN todo : \A r \in ItemsOf(todo[n]) :
         r.items # <<>> /\ r.op = IF n = Len(todo) THEN "add" ELSE "del"
  BY <1>2 DEF CoverInv, AddsLast
<1>7. req \in Request /\ req.items # <<>>
  <2>1. Head(todo) \in Seq(Request)
    BY <1>2
  <2> QED BY <1>2, <1>5, <1>6, <2>1
<1> HIDE DEF req, rest
<1>8. CASE job'.st # "requests"
  <2>1. job'.st = "failed"
    BY <1>1, <1>2, <1>3, <1>8 DEF Jobs
  <2> QED BY <2>1 DEF CoverInv, AddsLast, Covered, NoneFailed
<1>9. CASE job'.st = "requests"
  <2>1. /\ job'.batches = rest /\ job'.made = job.made /\ job'.desired = job.desired
        /\ \/ job'.bad
           \/ /\ Exists(Current) /\ remote' = [remote EXCEPT ![Current] = Served(@, req)]
              /\ job'.bad = job.bad
    BY <1>1, <1>3, <1>9 DEF Jobs
  <2>2. AddsLast'
    BY <1>5, <1>6, <2>1 DEF AddsLast
  <2>3. Covered'
    <3> SUFFICES ASSUME job.made = 0, ~job'.bad, NEW x \in ItemsOf(job.desired)
                 PROVE  \/ x \in ItemsOf(remote'[saved']) /\ ~Asked(rest, "del", x)
                        \/ Asked(rest, "add", x)
      BY <2>1 DEF Covered
    <3>1. Current = saved /\ Exists(saved) /\ ~job.bad
      BY <2>1 DEF Current
    <3>2. saved \in DOMAIN remote /\ remote[saved] \in Seq(Items)
      BY <3>1, ServeType, <1>7
    <3>3. remote'[saved'] = Served(remote[saved], req)
      BY <1>4, <2>1, <3>1, <3>2
    <3>4. /\ req.op = "add" =>
                 ItemsOf(remote'[saved']) = ItemsOf(remote[saved]) \cup ItemsOf(req.items)
          /\ ItemsOf(remote[saved]) \ ItemsOf(req.items) \subseteq ItemsOf(remote'[saved'])
      BY <1>1, <1>7, <3>2, <3>3, ServedKeeps
    <3>5. \/ x \in ItemsOf(remote[saved]) /\ ~Asked(todo, "del", x)
          \/ Asked(todo, "add", x)
      BY <1>2, <3>1 DEF CoverInv, Covered
    <3>6. req.op \in {"add", "del"}
      BY <1>7 DEF Request
    <3>7. CASE req.op = "del"
      <4>1. x \in ItemsOf(req.items) => Asked(todo, "del", x)
        BY <1>5, <3>7 DEF Asked
      <4>2. Asked(todo, "add", x) => Asked(rest, "add", x)
        BY <1>5, <3>7
      <4> QED BY <1>5, <3>4, <3>5, <4>1, <4>2
    <3>8. CASE req.op = "add"
      <4>1. Len(todo) = 1
        BY <1>5, <1>6, <3>8
      <4>2. \A n \in DOMAIN todo : n = Len(todo)
        <5>1. DOMAIN todo = 1..Len(todo)
          BY <1>2, LenProperties
        <5> QED BY <4>1, <5>1
      <4>3. ~Asked(todo, "del", x)
        BY <1>6, <4>2 DEF Asked
      <4>4. ~Asked(rest, "del", x)
        BY <1>5, <4>3
      <4> QED BY <1>5, <3>4, <3>5, <3>8, <4>4
    <3> QED BY <3>6, <3>7, <3>8
  <2> QED BY <1>9, <2>2, <2>3 DEF CoverInv, NoneFailed
<1> QED
  BY <1>8, <1>9

\* A batch that is through: if nothing in it failed, it has done its part.
LEMMA BatchCovers ==
    ASSUME TypeOK, CoverInv, EndBatch
    PROVE  CoverInv'
<1> USE DEF Goes
<1> DEFINE todo == job.batches
<1>1. job \in Jobs(Len(remote)) /\ job.st = "requests"
  BY TypeParts DEF EndBatch
<1>2. todo \in Seq(Seq(Request)) /\ todo # <<>> /\ Head(todo) = <<>>
  BY <1>1 DEF EndBatch, Jobs
<1>3. UNCHANGED <<remote, saved>>
  BY DEF EndBatch
<1>4. \A n \in DOMAIN todo : \A r \in ItemsOf(todo[n]) :
         r.items # <<>> /\ r.op = IF n = Len(todo) THEN "add" ELSE "del"
  BY <1>1 DEF CoverInv, AddsLast
<1>5. CASE job.bad /\ job.made = 0
  <2>1. job'.st = "failed"
    BY <1>1, <1>5 DEF EndBatch, Jobs
  <2> QED BY <2>1 DEF CoverInv, AddsLast, Covered, NoneFailed
<1>6. CASE ~(job.bad /\ job.made = 0)
  <2>1. job' = [job EXCEPT !.batches = Tail(todo), !.bad = FALSE]
    BY <1>6 DEF EndBatch
  <2>2. /\ job'.batches = Tail(todo) /\ ~job'.bad /\ job'.made = job.made /\ job'.st = "requests"
        /\ job'.desired = job.desired
    BY <1>1, <2>1 DEF Jobs
  <2> HIDE DEF todo
  <2>3. /\ Len(Tail(todo)) = Len(todo) - 1 /\ Len(todo) \in Nat
        /\ \A n \in DOMAIN Tail(todo) : n + 1 \in DOMAIN todo /\ Tail(todo)[n] = todo[n + 1]
        /\ \A op, x : Asked(Tail(todo), op, x) <=> Asked(todo, op, x)
    BY <1>2, BatchLeaves
  <2>4. DOMAIN todo = 1..Len(todo) /\ DOMAIN Tail(todo) = 1..(Len(todo) - 1)
    <3>1. Tail(todo) \in Seq(Seq(Request))
      BY <1>2, HeadTailProperties
    <3>2. \A q \in Seq(Seq(Request)) : DOMAIN q = 1..Len(q)
      BY LenProperties
    <3> QED BY <1>2, <2>3, <3>1, <3>2
  <2>5. \A n \in DOMAIN Tail(todo) : \A r \in ItemsOf(Tail(todo)[n]) :
           r.items # <<>> /\ r.op = IF n = Len(Tail(todo)) THEN "add" ELSE "del"
    <3> SUFFICES ASSUME NEW n \in DOMAIN Tail(todo), NEW r \in ItemsOf(Tail(todo)[n])
                 PROVE  r.items # <<>> /\ r.op = IF n = Len(Tail(todo)) THEN "add" ELSE "del"
      OBVIOUS
    <3>1. n + 1 \in DOMAIN todo /\ r \in ItemsOf(todo[n + 1])
      BY <2>3
    <3>2. n + 1 = Len(todo) <=> n = Len(Tail(todo))
      BY <2>3, <2>4
    <3> QED BY <1>4, <3>1, <3>2
  <2>6. AddsLast'
    BY <2>2, <2>5 DEF AddsLast
  <2>7. Covered'
    <3> SUFFICES ASSUME job.made = 0, Exists(saved), NEW x \in ItemsOf(job.desired)
                 PROVE  \/ x \in ItemsOf(remote[saved]) /\ ~Asked(Tail(todo), "del", x)
                        \/ Asked(Tail(todo), "add", x)
      BY <1>3, <2>2 DEF Covered, Exists
    <3>1. ~job.bad
      BY <1>6
    <3> QED BY <1>1, <2>3, <3>1 DEF CoverInv, Covered, todo
  <2> QED BY <2>2, <2>6, <2>7 DEF CoverInv, NoneFailed
<1> QED
  BY <1>5, <1>6

\* A plan is made from the playlist, or as if the playlist were empty.
LEMMA PlanStarts ==
    ASSUME TypeOK, CoverInv, PlanUpdate
    PROVE  CoverInv'
<1> USE DEF GoesDirty
<1>1. /\ job \in Jobs(Len(remote)) /\ job.st = "plan" /\ backend \in {"plex", "jellyfin"}
      /\ remote \in Seq(Seq(Items) \cup {Gone}) /\ DOMAIN remote = 1..Len(remote)
      /\ saved \in 0..Len(remote) /\ Len(remote) \in Nat
  BY TypeParts DEF PlanUpdate, TypeOK
<1>2. UNCHANGED <<remote, saved>>
  BY DEF PlanUpdate
<1>3. \/ job' = [job EXCEPT !.st = "failed", !.clean = FALSE]
      \/ \E cur \in {Listed(saved), <<>>} :
            LET todo == UpdatePlan(cur, job.desired) IN
            \/ job' = [job EXCEPT !.st = "requests", !.batches = todo]
            \/ job' = [job EXCEPT !.st = "requests", !.clean = FALSE, !.batches = todo]
  BY DEF PlanUpdate
<1>4. CASE job' = [job EXCEPT !.st = "failed", !.clean = FALSE]
  <2>1. job'.st = "failed"
    BY <1>1, <1>4 DEF Jobs
  <2> QED BY <2>1 DEF CoverInv, AddsLast, Covered, NoneFailed
<1>5. ASSUME NEW cur \in {Listed(saved), <<>>},
             \/ job' = [job EXCEPT !.st = "requests", !.batches = UpdatePlan(cur, job.desired)]
             \/ job' = [job EXCEPT !.st = "requests", !.clean = FALSE,
                                   !.batches = UpdatePlan(cur, job.desired)]
      PROVE  CoverInv'
  <2>1. job'.batches = UpdatePlan(cur, job.desired) /\ job'.desired = job.desired
    BY <1>1, <1>5 DEF Jobs
  <2>2. job.desired \in Seq(Items)
    BY <1>1 DEF Jobs
  <2>3. cur \in Seq(Items) /\ (Exists(saved) => ItemsOf(cur) \subseteq ItemsOf(remote[saved]))
    <3>1. Exists(saved) => saved \in DOMAIN remote /\ remote[saved] \in Seq(Items)
      <4>1. Exists(saved) => saved \in DOMAIN remote /\ remote[saved] # Gone
        BY <1>1 DEF Exists
      <4> QED BY <1>1, <4>1, ElementOfSeq
    <3>2. <<>> \in Seq(Items) /\ ItemsOf(<<>>) = {}
      BY DEF ItemsOf
    <3> QED BY <3>1, <3>2 DEF Listed
  <2> DEFINE todo == UpdatePlan(cur, job.desired)
  <2>4. \A n \in DOMAIN todo : \A r \in ItemsOf(todo[n]) :
           r.items # <<>> /\ r.op = IF n = Len(todo) THEN "add" ELSE "del"
    BY <1>1, <2>2, <2>3, PlanType
  <2>5. \A x \in ItemsOf(job.desired) : \/ x \in ItemsOf(cur) /\ ~Asked(todo, "del", x)
                                        \/ Asked(todo, "add", x)
    BY <1>1, <2>2, <2>3, PlanCovers
  <2> HIDE DEF todo
  <2>6. job'.batches = todo
    BY <2>1 DEF todo
  <2>7. Covered'
    <3>1. Exists(saved)' <=> Exists(saved)
      BY <1>2 DEF Exists
    <3> QED BY <1>2, <2>1, <2>3, <2>5, <2>6, <3>1 DEF Covered
  <2>8. ~job'.bad /\ job'.st = "requests"
    <3>1. ~job.bad
      BY <1>1 DEF CoverInv, NoneFailed
    <3> QED BY <1>1, <1>5, <3>1 DEF Jobs
  <2> QED BY <2>4, <2>6, <2>7, <2>8 DEF CoverInv, AddsLast, NoneFailed
<1> QED
  BY <1>3, <1>4, <1>5

\* The steps before and after the requests.
LEMMA RestCovers ==
    ASSUME TypeOK, CoverInv, \/ \E d \in Wanted : StartSync(d)
                             \/ GetDetails \/ CompareItems \/ EndRequests
                             \/ PlexCreates \/ JellyfinCreates \/ SaveId \/ AttemptLost
    PROVE  CoverInv'
<1> USE DEF Goes, GoesDirty
<1>1. /\ job \in Jobs(Len(remote)) /\ remote \in Seq(Seq(Items) \cup {Gone})
      /\ Len(remote) \in Nat
  BY TypeParts
<1>2. CASE PlexCreates
  <2> DEFINE first == Append(remote, <<job.desired[1]>>)
             adds == Singles("add", Tail(job.desired))
  <2>1. job.st = "create" /\ job.desired \in Seq(Items) /\ job.desired # <<>>
    BY <1>2, TypeParts, WantedAssumption DEF PlexCreates, Fits
  <2>2. \/ job' = [job EXCEPT !.st = "requests", !.made = NewId, !.batches = << adds >>]
        \/ job' = [job EXCEPT !.st = "ok", !.clean = FALSE]
        \/ job' = [job EXCEPT !.st = "failed", !.clean = FALSE]
    BY <1>2 DEF PlexCreates
  <2>3. Tail(job.desired) \in Seq(Items)
    BY <2>1
  <2>4. \A r \in ItemsOf(adds) : r.items # <<>> /\ r.op = "add"
    BY <2>3, SinglesFacts
  <2> HIDE DEF adds
  <2>5. \/ job'.st \in {"ok", "failed"}
        \/ job'.st = "requests" /\ job'.made = NewId /\ job'.batches = << adds >>
    BY <1>1, <2>2 DEF Jobs
  <2>6. NewId # 0
    BY <1>1 DEF NewId
  <2>7. << adds >> # <<>> /\ Len(<< adds >>) = 1 /\ DOMAIN << adds >> = {1} /\ << adds >>[1] = adds
    OBVIOUS
  <2> QED BY <2>4, <2>5, <2>6, <2>7 DEF CoverInv, AddsLast, Covered, NoneFailed
<1>3. CASE \E d \in Wanted : StartSync(d)
  <2>1. job'.st \in {"create", "details"} /\ ~job'.bad
    BY <1>3 DEF StartSync, NoJob
  <2> QED BY <2>1 DEF CoverInv, AddsLast, Covered, NoneFailed
<1>4. CASE GetDetails \/ CompareItems
  <2>1. job.st \in {"details", "compare"} /\ job'.bad = job.bad
    BY <1>1, <1>4 DEF GetDetails, CompareItems, Jobs
  <2>2. job'.st # "requests"
    BY <1>1, <1>4 DEF GetDetails, CompareItems, Jobs
  <2> QED BY <2>1, <2>2 DEF CoverInv, AddsLast, Covered, NoneFailed
<1>5. CASE EndRequests \/ JellyfinCreates \/ SaveId \/ AttemptLost
  <2>1. job'.st \in {"ok", "save", "failed"}
    BY <1>1, <1>5 DEF EndRequests, JellyfinCreates, SaveId, AttemptLost, Jobs
  <2> QED BY <2>1 DEF CoverInv, AddsLast, Covered, NoneFailed
<1> QED
  BY <1>2, <1>3, <1>4, <1>5

\* The user adds to a playlist, or deletes it, but takes nothing out of it.
LEMMA EditCovers ==
    ASSUME TypeOK, CoverInv, NEW id \in DOMAIN remote, UserEdits(id)
    PROVE  CoverInv'
<1>1. /\ job \in Jobs(Len(remote)) /\ remote \in Seq(Seq(Items) \cup {Gone})
      /\ saved \in 0..Len(remote) /\ DOMAIN remote = 1..Len(remote) /\ Len(remote) \in Nat
  BY TypeParts DEF TypeOK
<1>2. /\ UNCHANGED saved /\ Exists(id)
      /\ job' = [job EXCEPT !.clean = job.st \in Ended /\ job.clean]
      /\ \/ \E x \in Items : remote' = [remote EXCEPT ![id] = Append(remote[id], x)]
         \/ remote' = [remote EXCEPT ![id] = Gone]
  BY DEF UserEdits
<1>3. /\ job'.st = job.st /\ job'.made = job.made /\ job'.bad = job.bad
      /\ job'.batches = job.batches /\ job'.desired = job.desired
  BY <1>1, <1>2 DEF Jobs
<1>4. Exists(saved)' => /\ Exists(saved)
                        /\ ItemsOf(remote[saved]) \subseteq ItemsOf(remote'[saved])
  <2> SUFFICES ASSUME Exists(saved)'
               PROVE  Exists(saved) /\ ItemsOf(remote[saved]) \subseteq ItemsOf(remote'[saved])
    OBVIOUS
  <2>1. saved # 0 /\ saved \in DOMAIN remote /\ remote'[saved] # Gone
    BY <1>1, <1>2 DEF Exists
  <2>2. CASE saved # id
    <3>1. remote'[saved] = remote[saved]
      BY <1>1, <1>2, <2>1, <2>2
    <3> QED BY <2>1, <3>1 DEF Exists
  <2>3. CASE saved = id
    <3>1. PICK x \in Items : remote' = [remote EXCEPT ![id] = Append(remote[id], x)]
      BY <1>1, <1>2, <2>1, <2>3
    <3>2. remote[id] \in Seq(Items)
      BY <1>1, <1>2, ElementOfSeq DEF Exists
    <3>3. remote'[saved] = Append(remote[id], x) /\ remote[saved] = remote[id]
      BY <1>1, <2>3, <3>1
    <3> DEFINE list == remote[id]
    <3> HIDE DEF list
    <3>4. ItemsOf(list) \subseteq ItemsOf(Append(list, x))
      <4>1. list \in Seq(Items)
        BY <3>2 DEF list
      <4>2. DOMAIN list = 1..Len(list) /\ Len(list) \in Nat
        BY <4>1, LenProperties
      <4>3. \A i \in 1..Len(list) : i \in DOMAIN Append(list, x) /\ Append(list, x)[i] = list[i]
        BY <4>1, <4>2
      <4> QED BY <4>2, <4>3 DEF ItemsOf
    <3> QED BY <1>2, <2>3, <3>3, <3>4 DEF list
  <2> QED BY <2>2, <2>3
<1>5. saved' = saved
  BY <1>2
<1>6. Covered'
  BY <1>3, <1>4, <1>5 DEF CoverInv, Covered
<1> QED
  BY <1>3, <1>6 DEF CoverInv, AddsLast, NoneFailed

\* No step breaks it.
LEMMA CoverKept == TypeOK /\ CoverInv /\ [Next]_vars => CoverInv'
<1> SUFFICES ASSUME TypeOK, CoverInv, [Next]_vars PROVE CoverInv'
  OBVIOUS
<1>1. CASE UNCHANGED vars
  BY <1>1 DEF vars, CoverInv, NoneFailed, AddsLast, Covered, Exists
<1> QED
  BY <1>1, SendCovers, BatchCovers, PlanStarts, RestCovers, EditCovers DEF Next

\* An update that reports success lost none of the wanted items, whatever was
\* answered on the way and whatever was read before it.
THEOREM NothingWantedLost == Spec => UpdateLosesNothing
<1>1. Init => CoverInv
  BY DEF Init, NoJob, CoverInv, NoneFailed, AddsLast, Covered
<1>2. TypeOK /\ CoverInv /\ [Next]_vars => CoverInv'
  BY CoverKept
<1>3. ASSUME TypeOK, CoverInv, [Next]_vars
      PROVE  job.st = "requests" /\ job'.st = "ok" /\ Exists(saved)
                 => ItemsOf(job.desired) \subseteq ItemsOf(remote[saved])
  <2> USE DEF Goes, GoesDirty
  <2> SUFFICES ASSUME job.st = "requests", job'.st = "ok", Exists(saved)
               PROVE  ItemsOf(job.desired) \subseteq ItemsOf(remote[saved])
    OBVIOUS
  <2>1. job \in Jobs(Len(remote))
    BY <1>3, TypeParts
  <2>2. job' # job
    BY <2>1 DEF Jobs
  <2>3. Next
    BY <1>3, <2>2 DEF vars
  <2>4. ~SendRequest
    BY <1>3, <2>1, RequestAlive
  <2>5. ~EndBatch
    BY <2>1 DEF EndBatch, Jobs
  <2>6. ~AttemptLost /\ \A id \in DOMAIN remote : ~UserEdits(id)
    BY <2>1 DEF AttemptLost, UserEdits, Jobs
  <2>7. EndRequests
    BY <2>3, <2>4, <2>5, <2>6
       DEF Next, StartSync, GetDetails, CompareItems, PlanUpdate, PlexCreates, JellyfinCreates,
           SaveId, Ended
  <2>8. job.batches = <<>> /\ job.made = 0
    BY <2>1, <2>7 DEF EndRequests, Jobs
  <2>9. ~job.bad /\ \A op, x : ~Asked(job.batches, op, x)
    BY <1>3, <2>8 DEF CoverInv, AddsLast, Asked
  <2> QED BY <1>3, <2>8, <2>9 DEF CoverInv, Covered
<1> QED
  BY <1>1, <1>2, <1>3, PublicationTypes, PTL DEF Spec, UpdateLosesNothing

-----------------------------------------------------------------------------
(* An attempt in which nothing goes wrong *)

\* What is still to do turns the list into the wanted one, by adding alone,
AddsUp(list, todo, d) ==
    \E more \in Seq(Items) : todo = << Singles("add", more) >> /\ list \o more = d

\* the way Plex does it,
OnPlex(list, todo, d) ==
    \/ AddsUp(list, todo, d)
    \/ todo = << Singles("del", Outside(list, ItemsOf(d))),
                 Singles("del", Inside(list, ItemsOf(d))), Singles("add", d) >>
    \/ todo = << Singles("del", list), Singles("add", d) >>
    \/ \E more \in Seq(Items) :
          /\ todo = << Singles("del", Outside(list, ItemsOf(d))), Singles("add", more) >>
          /\ Inside(list, ItemsOf(d)) \o more = d

\* and the way Jellyfin does it.
OnJellyfin(list, todo, d) ==
    \/ todo = << Whole("del", list), Whole("add", d) >>
    \/ todo = << Whole("add", d) >> /\ list = <<>>
    \/ todo = << <<>> >> /\ list = d

\* One of them, or nothing is left to do.
Doing(list, todo, d) ==
    \/ todo = <<>> /\ list = d
    \/ backend = "plex" /\ OnPlex(list, todo, d)
    \/ backend = "jellyfin" /\ OnJellyfin(list, todo, d)

\* Lists of up to three batches, taken apart and put together.
ShortLists(S) ==
    \A a, b, c \in S :
        /\ Head(<<a>>) = a /\ Tail(<<a>>) = <<>>
        /\ Head(<<a, b>>) = a /\ Tail(<<a, b>>) = <<b>>
        /\ Head(<<a, b, c>>) = a /\ Tail(<<a, b, c>>) = <<b, c>>
        /\ <<a>> \o <<>> = <<a>> /\ <<a>> \o <<b>> = <<a, b>>
        /\ <<a>> \o <<b, c>> = <<a, b, c>>

\* They are what one expects.
LEMMA Rows == \A S : ShortLists(S)
<1> SUFFICES ASSUME NEW S, NEW a \in S, NEW b \in S, NEW c \in S
             PROVE  /\ Head(<<a>>) = a /\ Tail(<<a>>) = <<>>
                    /\ Head(<<a, b>>) = a /\ Tail(<<a, b>>) = <<b>>
                    /\ Head(<<a, b, c>>) = a /\ Tail(<<a, b, c>>) = <<b, c>>
                    /\ <<a>> \o <<>> = <<a>> /\ <<a>> \o <<b>> = <<a, b>>
                    /\ <<a>> \o <<b, c>> = <<a, b, c>>
  BY DEF ShortLists
<1>1. Head(<<a>>) = a /\ Tail(<<a>>) = <<>>
  OBVIOUS
<1>2. Head(<<a, b>>) = a /\ Tail(<<a, b>>) = <<b>>
  OBVIOUS
<1>3. Head(<<a, b, c>>) = a /\ Tail(<<a, b, c>>) = <<b, c>>
  OBVIOUS
<1>4. <<a>> \o <<>> = <<a>>
  BY ConcatEmptySeq
<1>5. ASSUME NEW u \in Seq(S), NEW v \in Seq(S), v # <<>>, Head(v) = a, Tail(v) = u
      PROVE  <<a>> \o u = v
  <2>1. /\ Len(v) \in Nat \ {0} /\ Len(u) = Len(v) - 1 /\ v[1] = a
        /\ \A i \in 1..Len(u) : u[i] = v[i + 1]
    <3>1. /\ Len(Tail(v)) = Len(v) - 1 /\ Head(v) = v[1]
          /\ \A i \in 1..Len(Tail(v)) : Tail(v)[i] = v[i + 1]
      BY <1>5, HeadTailProperties
    <3>2. Len(v) \in Nat /\ Len(v) # 0
      BY <1>5, LenProperties, EmptySeq
    <3> QED BY <1>5, <3>1, <3>2
  <2> DEFINE w == <<a>> \o u
  <2>2. <<a>> \in Seq(S) /\ Len(<<a>>) = 1 /\ <<a>>[1] = a
    OBVIOUS
  <2>3. /\ w \in Seq(S) /\ Len(w) = 1 + Len(u)
        /\ \A i \in 1..(1 + Len(u)) : w[i] = IF i <= 1 THEN <<a>>[i] ELSE u[i - 1]
    BY <2>2, ConcatProperties
  <2> HIDE DEF w
  <2>4. Len(w) = Len(v)
    BY <2>1, <2>3
  <2>5. ASSUME NEW i \in 1..Len(v) PROVE w[i] = v[i]
    <3>1. w[i] = IF i <= 1 THEN <<a>>[i] ELSE u[i - 1]
      BY <2>1, <2>3
    <3>2. CASE i = 1
      BY <2>1, <2>2, <3>1, <3>2
    <3>3. CASE i # 1
      <4>1. i - 1 \in 1..Len(u) /\ (i - 1) + 1 = i /\ ~(i <= 1)
        BY <2>1, <3>3
      <4> QED BY <2>1, <3>1, <4>1
    <3> QED BY <3>2, <3>3
  <2>6. w = v
    BY <2>3, <2>4, <2>5, SeqEqual
  <2> QED BY <2>6 DEF w
<1>6. <<a>> \o <<b>> = <<a, b>>
  <2>1. <<b>> \in Seq(S) /\ <<a, b>> \in Seq(S) /\ <<a, b>> # <<>>
    OBVIOUS
  <2> QED BY <1>2, <1>5, <2>1
<1>7. <<a>> \o <<b, c>> = <<a, b, c>>
  <2>1. <<b, c>> \in Seq(S) /\ <<a, b, c>> \in Seq(S) /\ <<a, b, c>> # <<>>
    OBVIOUS
  <2> QED BY <1>3, <1>5, <2>1
<1> QED BY <1>1, <1>2, <1>3, <1>4, <1>6, <1>7

\* Deleting the first entry outside a set, on Plex.
LEMMA DeletesOne ==
    ASSUME NEW list \in Seq(Items), NEW set, Outside(list, set) # <<>>, backend = "plex"
    PROVE  LET new == Served(list, [op |-> "del", items |-> << Head(Outside(list, set)) >>])
           IN  /\ new \in Seq(Items) /\ Outside(new, set) = Tail(Outside(list, set))
               /\ Inside(new, set) = Inside(list, set)
<1> DEFINE x == Head(Outside(list, set))
           req == [op |-> "del", items |-> << x >>]
           r == RemoveAt(list, FirstIndex(list, x))
<1>1. /\ x \in ItemsOf(list) /\ r \in Seq(Items)
      /\ Outside(r, set) = Tail(Outside(list, set)) /\ Inside(r, set) = Inside(list, set)
  BY RemoveOutside
<1> HIDE DEF x
<1>2. req.op = "del" /\ req.items[1] = x
  OBVIOUS
<1> HIDE DEF req
<1>3. Served(list, req) = r
  BY <1>1, <1>2 DEF Served
<1> QED
  BY <1>1, <1>3 DEF x, req

\* Nothing outside the empty set is left out.
LEMMA OutsideNothing ==
    ASSUME NEW S, NEW s \in Seq(S)
    PROVE  /\ Outside(s, {}) = s /\ Outside(s, ItemsOf(s)) = <<>>
           /\ \A set : Outside(s, set) = <<>> => Inside(s, set) = s
<1>1. Outside(s, {}) = s
  <2>1. ItemsOf(s) \ {} = ItemsOf(s)
    OBVIOUS
  <2>2. Inside(s, ItemsOf(s)) = s
    BY InsideAll
  <2> QED BY <2>1, <2>2 DEF Outside
<1>2. Outside(s, ItemsOf(s)) = <<>>
  <2>1. ItemsOf(s) \ ItemsOf(s) = {}
    OBVIOUS
  <2>2. Inside(s, {}) = <<>>
    BY InsideNone
  <2> QED BY <2>1, <2>2 DEF Outside
<1>3. ASSUME NEW set, Outside(s, set) = <<>> PROVE Inside(s, set) = s
  <2>1. ItemsOf(Outside(s, set)) = ItemsOf(s) \ set
    BY OutsideIs
  <2>2. ItemsOf(<<>>) = {}
    BY DEF ItemsOf
  <2>3. ItemsOf(s) \subseteq set
    BY <1>3, <2>1, <2>2
  <2> QED BY <2>3, InsideAll
<1> QED
  BY <1>1, <1>2, <1>3

\* A request Plex carries out keeps the attempt on its way.
LEMMA PlexSends ==
    ASSUME backend = "plex", NEW list \in Seq(Items), NEW d \in Seq(Items), NEW todo,
           Head(todo) # <<>>, OnPlex(list, todo, d)
    PROVE  OnPlex(Served(list, Head(Head(todo))), << Tail(Head(todo)) >> \o Tail(todo), d)
<1> DEFINE new == Served(list, Head(Head(todo)))
           rest == << Tail(Head(todo)) >> \o Tail(todo)
           D == ItemsOf(d)
           O == Outside(list, D)
           I == Inside(list, D)
<1>1. \A op \in {"del", "add"} : \A s \in Seq(Items) :
         /\ Singles(op, s) \in Seq(Request)
         /\ Singles(op, s) = <<>> <=> s = <<>>
         /\ s # <<>> => /\ Head(Singles(op, s)) = [op |-> op, items |-> <<Head(s)>>]
                        /\ Tail(Singles(op, s)) = Singles(op, Tail(s))
                        /\ Tail(s) \in Seq(Items)
  <2>1. \A s \in Seq(Items) : s # <<>> => Tail(s) \in Seq(Items)
    BY HeadTailProperties
  <2> QED BY <2>1, SinglesFacts
<1>2. \A a, b, c \in Seq(Request) :
         /\ Head(<<a>>) = a /\ Tail(<<a>>) = <<>>
         /\ Head(<<a, b>>) = a /\ Tail(<<a, b>>) = <<b>>
         /\ Head(<<a, b, c>>) = a /\ Tail(<<a, b, c>>) = <<b, c>>
         /\ <<a>> \o <<>> = <<a>> /\ <<a>> \o <<b>> = <<a, b>>
         /\ <<a>> \o <<b, c>> = <<a, b, c>>
  <2>1. ShortLists(Seq(Request))
    BY Rows
  <2> QED BY <2>1 DEF ShortLists
<1>3. O \in Seq(Items) /\ I \in Seq(Items)
  <2> HIDE DEF D
  <2> QED BY OutsideIs, InsideType
<1>4. ASSUME NEW more \in Seq(Items), todo = << Singles("add", more) >>, list \o more = d
      PROVE  OnPlex(new, rest, d)
  <2>1. Head(todo) = Singles("add", more) /\ Tail(todo) = <<>> /\ more # <<>>
    BY <1>1, <1>2, <1>4
  <2> DEFINE x == Head(more)
             req == [op |-> "add", items |-> <<x>>]
  <2>2. /\ Head(Head(todo)) = req /\ Tail(Head(todo)) = Singles("add", Tail(more))
        /\ Tail(more) \in Seq(Items)
    BY <1>1, <2>1
  <2>3. x \in Items /\ more = <<x>> \o Tail(more)
    BY <2>1
  <2> HIDE DEF x
  <2>4. req.op = "add" /\ req.items = <<x>>
    OBVIOUS
  <2> HIDE DEF req
  <2>5. Served(list, req) = list \o <<x>>
    BY <2>4 DEF Served
  <2> DEFINE t == Tail(more)
  <2>6. (list \o <<x>>) \o t = list \o (<<x>> \o t)
    <3>1. t \in Seq(Items) /\ <<x>> \in Seq(Items)
      BY <2>2, <2>3
    <3> DEFINE m == <<x>>
    <3>2. m \in Seq(Items)
      BY <3>1
    <3> HIDE DEF t, m
    <3>3. (list \o m) \o t = list \o (m \o t)
      BY <3>1, <3>2
    <3> QED BY <3>3 DEF m
  <2>7. new \o t = d
    BY <1>4, <2>2, <2>3, <2>5, <2>6
  <2>8. rest = << Singles("add", t) >>
    BY <1>1, <1>2, <2>1, <2>2
  <2> QED BY <2>2, <2>7, <2>8 DEF OnPlex, AddsUp
<1>5. ASSUME NEW more \in Seq(Items), todo = << Singles("del", O), Singles("add", more) >>,
             I \o more = d
      PROVE  OnPlex(new, rest, d)
  <2>1. Head(todo) = Singles("del", O) /\ Tail(todo) = << Singles("add", more) >> /\ O # <<>>
    BY <1>1, <1>2, <1>3, <1>5
  <2>2. Head(Head(todo)) = [op |-> "del", items |-> <<Head(O)>>]
        /\ Tail(Head(todo)) = Singles("del", Tail(O)) /\ Tail(O) \in Seq(Items)
    BY <1>1, <1>3, <2>1
  <2>3. Outside(new, D) = Tail(O) /\ Inside(new, D) = I
    <3> HIDE DEF D
    <3> QED BY <2>1, <2>2, DeletesOne
  <2>4. rest = << Singles("del", Tail(O)), Singles("add", more) >>
    <3> DEFINE a == Singles("del", Tail(O))
               b == Singles("add", more)
    <3>1. a \in Seq(Request) /\ b \in Seq(Request) /\ Tail(Head(todo)) = a /\ Tail(todo) = <<b>>
      BY <1>1, <2>1, <2>2
    <3> HIDE DEF a, b
    <3>2. <<a>> \o <<b>> = <<a, b>>
      BY <1>2, <3>1
    <3> QED BY <3>1, <3>2 DEF a, b
  <2> HIDE DEF new, rest, O, I
  <2> QED BY <1>5, <2>3, <2>4 DEF OnPlex
<1>6. ASSUME todo = << Singles("del", O), Singles("del", I), Singles("add", d) >>
      PROVE  OnPlex(new, rest, d)
  <2>1. /\ Head(todo) = Singles("del", O) /\ O # <<>>
        /\ Tail(todo) = << Singles("del", I), Singles("add", d) >>
    BY <1>1, <1>2, <1>3, <1>6
  <2>2. Head(Head(todo)) = [op |-> "del", items |-> <<Head(O)>>]
        /\ Tail(Head(todo)) = Singles("del", Tail(O)) /\ Tail(O) \in Seq(Items)
    BY <1>1, <1>3, <2>1
  <2>3. Outside(new, D) = Tail(O) /\ Inside(new, D) = I
    <3> HIDE DEF D
    <3> QED BY <2>1, <2>2, DeletesOne
  <2>4. rest = << Singles("del", Tail(O)), Singles("del", I), Singles("add", d) >>
    <3> DEFINE a == Singles("del", Tail(O))
               b == Singles("del", I)
               c == Singles("add", d)
    <3>1. /\ a \in Seq(Request) /\ b \in Seq(Request) /\ c \in Seq(Request)
          /\ Tail(Head(todo)) = a /\ Tail(todo) = <<b, c>>
      BY <1>1, <1>3, <2>1, <2>2
    <3> HIDE DEF a, b, c
    <3>2. <<a>> \o <<b, c>> = <<a, b, c>>
      BY <1>2, <3>1, ZenonT(30)
    <3> QED BY <3>1, <3>2 DEF a, b, c
  <2>5. rest = << Singles("del", Outside(new, ItemsOf(d))), Singles("del", Inside(new, ItemsOf(d))),
                  Singles("add", d) >>
    <3> HIDE DEF new, rest, O, I
    <3> QED BY <2>3, <2>4
  <2> HIDE DEF new, rest
  <2> QED BY <2>5 DEF OnPlex
<1>7. ASSUME todo = << Singles("del", list), Singles("add", d) >>
      PROVE  OnPlex(new, rest, d)
  <2>1. Head(todo) = Singles("del", list) /\ Tail(todo) = << Singles("add", d) >> /\ list # <<>>
    BY <1>1, <1>2, <1>7
  <2>2. Head(Head(todo)) = [op |-> "del", items |-> <<Head(list)>>]
        /\ Tail(Head(todo)) = Singles("del", Tail(list)) /\ Tail(list) \in Seq(Items)
    BY <1>1, <2>1
  <2>3. Outside(list, {}) = list
    BY OutsideNothing
  <2>4. new \in Seq(Items) /\ Outside(new, {}) = Tail(list)
    <3>1. new = Served(list, [op |-> "del", items |-> << Head(Outside(list, {})) >>])
      BY <2>2, <2>3
    <3>2. Outside(list, {}) # <<>>
      BY <2>1, <2>3
    <3> HIDE DEF new
    <3>3. new \in Seq(Items) /\ Outside(new, {}) = Tail(Outside(list, {}))
      BY <3>1, <3>2, DeletesOne
    <3> QED BY <3>3, <2>3
  <2>5. new = Tail(list)
    <3> HIDE DEF new
    <3> QED BY <2>4, OutsideNothing
  <2>6. rest = << Singles("del", Tail(list)), Singles("add", d) >>
    <3> DEFINE a == Singles("del", Tail(list))
               b == Singles("add", d)
    <3>1. a \in Seq(Request) /\ b \in Seq(Request) /\ Tail(Head(todo)) = a /\ Tail(todo) = <<b>>
      BY <1>1, <2>1, <2>2
    <3> HIDE DEF a, b
    <3>2. <<a>> \o <<b>> = <<a, b>>
      BY <1>2, <3>1
    <3> QED BY <3>1, <3>2 DEF a, b
  <2>7. rest = << Singles("del", new), Singles("add", d) >>
    <3> HIDE DEF new, rest
    <3> QED BY <2>5, <2>6
  <2> HIDE DEF new, rest
  <2> QED BY <2>7 DEF OnPlex
<1> QED
  <2> HIDE DEF new, rest
  <2>1. \/ \E more \in Seq(Items) : todo = << Singles("add", more) >> /\ list \o more = d
        \/ todo = << Singles("del", O), Singles("del", I), Singles("add", d) >>
        \/ todo = << Singles("del", list), Singles("add", d) >>
        \/ \E more \in Seq(Items) :
              todo = << Singles("del", O), Singles("add", more) >> /\ I \o more = d
    BY Zenon DEF OnPlex, AddsUp
  <2>2. OnPlex(new, rest, d)
    BY <1>4, <1>5, <1>6, <1>7, <2>1, Zenon
  <2> QED BY <2>2 DEF new, rest

\* A batch of Plex requests that is through has left the next one its part.
LEMMA PlexEnds ==
    ASSUME NEW list \in Seq(Items), NEW d \in Seq(Items), NEW todo,
           Head(todo) = <<>>, OnPlex(list, todo, d)
    PROVE  (Tail(todo) = <<>> /\ list = d) \/ OnPlex(list, Tail(todo), d)
<1> DEFINE O == Outside(list, ItemsOf(d))
           I == Inside(list, ItemsOf(d))
<1>1. \A op \in {"del", "add"} : \A s \in Seq(Items) :
         Singles(op, s) \in Seq(Request) /\ (Singles(op, s) = <<>> <=> s = <<>>)
  BY SinglesFacts
<1>2. \A a, b, c \in Seq(Request) :
         /\ Head(<<a>>) = a /\ Tail(<<a>>) = <<>>
         /\ Head(<<a, b>>) = a /\ Tail(<<a, b>>) = <<b>>
         /\ Head(<<a, b, c>>) = a /\ Tail(<<a, b, c>>) = <<b, c>>
  <2>1. ShortLists(Seq(Request))
    BY Rows
  <2> QED BY <2>1 DEF ShortLists
<1>3. O \in Seq(Items) /\ I \in Seq(Items)
  <2> DEFINE D == ItemsOf(d)
  <2> HIDE DEF D
  <2>1. Outside(list, D) \in Seq(Items) /\ Inside(list, D) \in Seq(Items)
    BY OutsideIs, InsideType
  <2> QED BY <2>1 DEF D
<1>4. O = <<>> => I = list
  <2> DEFINE D == ItemsOf(d)
  <2> HIDE DEF D
  <2>1. Outside(list, D) = <<>> => Inside(list, D) = list
    BY OutsideNothing
  <2> QED BY <2>1 DEF D
<1>5. ASSUME NEW more \in Seq(Items), todo = << Singles("add", more) >>, list \o more = d
      PROVE  Tail(todo) = <<>> /\ list = d
  <2>1. more = <<>> /\ Tail(todo) = <<>>
    BY <1>1, <1>2, <1>5
  <2>2. list \o <<>> = list
    BY ConcatEmptySeq
  <2> QED BY <1>5, <2>1, <2>2
<1>6. ASSUME NEW more \in Seq(Items), todo = << Singles("del", O), Singles("add", more) >>,
             I \o more = d
      PROVE  OnPlex(list, Tail(todo), d)
  <2>1. O = <<>> /\ Tail(todo) = << Singles("add", more) >>
    BY <1>1, <1>2, <1>3, <1>6
  <2>2. list \o more = d
    BY <1>4, <1>6, <2>1
  <2> QED BY <2>1, <2>2 DEF OnPlex, AddsUp
<1>7. ASSUME todo = << Singles("del", O), Singles("del", I), Singles("add", d) >>
      PROVE  OnPlex(list, Tail(todo), d)
  <2>1. O = <<>> /\ Tail(todo) = << Singles("del", I), Singles("add", d) >>
    BY <1>1, <1>2, <1>3, <1>7
  <2>2. I = list
    BY <1>4, <2>1
  <2>3. Tail(todo) = << Singles("del", list), Singles("add", d) >>
    <3> HIDE DEF I
    <3> QED BY <2>1, <2>2
  <2> DEFINE t == Tail(todo)
  <2> HIDE DEF t
  <2>4. t = << Singles("del", list), Singles("add", d) >>
    BY <2>3 DEF t
  <2>5. OnPlex(list, t, d)
    BY <2>4 DEF OnPlex
  <2> QED BY <2>5 DEF t
<1>8. ASSUME todo = << Singles("del", list), Singles("add", d) >>
      PROVE  OnPlex(list, Tail(todo), d)
  <2>1. list = <<>> /\ Tail(todo) = << Singles("add", d) >>
    BY <1>1, <1>2, <1>8
  <2>2. list \o d = d
    BY <2>1, ConcatEmptySeq
  <2> QED BY <2>1, <2>2 DEF OnPlex, AddsUp
<1> QED
  <2> HIDE DEF O, I
  <2>1. \/ \E more \in Seq(Items) : todo = << Singles("add", more) >> /\ list \o more = d
        \/ todo = << Singles("del", O), Singles("del", I), Singles("add", d) >>
        \/ todo = << Singles("del", list), Singles("add", d) >>
        \/ \E more \in Seq(Items) :
              todo = << Singles("del", O), Singles("add", more) >> /\ I \o more = d
    BY Zenon DEF OnPlex, AddsUp, O, I
  <2> QED BY <1>5, <1>6, <1>7, <1>8, <2>1, Zenon

\* Jellyfin empties the playlist and fills it again.
LEMMA JellyfinSends ==
    ASSUME backend = "jellyfin", NEW list \in Seq(Items), NEW d \in Seq(Items), NEW todo,
           Head(todo) # <<>>, OnJellyfin(list, todo, d)
    PROVE  OnJellyfin(Served(list, Head(Head(todo))), << Tail(Head(todo)) >> \o Tail(todo), d)
<1> DEFINE new == Served(list, Head(Head(todo)))
           rest == << Tail(Head(todo)) >> \o Tail(todo)
<1>1. \A op \in {"del", "add"} : \A s \in Seq(Items) :
         /\ Whole(op, s) \in Seq(Request)
         /\ Whole(op, s) = <<>> <=> s = <<>>
         /\ s # <<>> => Head(Whole(op, s)) = [op |-> op, items |-> s] /\ Tail(Whole(op, s)) = <<>>
  BY WholeFacts
<1>2. /\ <<>> \in Seq(Request)
      /\ \A a, b \in Seq(Request) :
            /\ Head(<<a>>) = a /\ Tail(<<a>>) = <<>>
            /\ Head(<<a, b>>) = a /\ Tail(<<a, b>>) = <<b>>
            /\ <<a>> \o <<>> = <<a>> /\ <<a>> \o <<b>> = <<a, b>>
  <2>1. ShortLists(Seq(Request)) /\ <<>> \in Seq(Request)
    BY Rows
  <2>2. ASSUME NEW a \in Seq(Request), NEW b \in Seq(Request)
        PROVE  /\ Head(<<a>>) = a /\ Tail(<<a>>) = <<>>
               /\ Head(<<a, b>>) = a /\ Tail(<<a, b>>) = <<b>>
               /\ <<a>> \o <<>> = <<a>> /\ <<a>> \o <<b>> = <<a, b>>
    BY <2>1, Zenon DEF ShortLists
  <2> QED BY <2>1, <2>2
<1>3. ASSUME todo = << Whole("del", list), Whole("add", d) >> PROVE OnJellyfin(new, rest, d)
  <2>1. Head(todo) = Whole("del", list) /\ Tail(todo) = << Whole("add", d) >> /\ list # <<>>
    BY <1>1, <1>2, <1>3
  <2> DEFINE req == [op |-> "del", items |-> list]
  <2>2. Head(Head(todo)) = req /\ Tail(Head(todo)) = <<>>
    BY <1>1, <2>1
  <2>3. req.op = "del" /\ req.items = list
    OBVIOUS
  <2> HIDE DEF req
  <2>4. Served(list, req) = Outside(list, ItemsOf(list))
    BY <2>3 DEF Served
  <2>5. new = <<>>
    BY <2>2, <2>4, OutsideNothing
  <2>6. Whole("del", <<>>) = <<>>
    BY DEF Whole
  <2>7. rest = << <<>>, Whole("add", d) >>
    <3> DEFINE w == Whole("add", d)
    <3>1. w \in Seq(Request) /\ Tail(todo) = <<w>>
      BY <1>1, <2>1
    <3> HIDE DEF w
    <3>2. << <<>> >> \o <<w>> = << <<>>, w >>
      BY <1>2, <3>1
    <3> QED BY <2>2, <3>1, <3>2 DEF w
  <2> HIDE DEF new, rest
  <2>8. rest = << Whole("del", new), Whole("add", d) >>
    BY <2>5, <2>6, <2>7
  <2> QED BY <2>8 DEF OnJellyfin
<1>4. ASSUME todo = << Whole("add", d) >>, list = <<>> PROVE OnJellyfin(new, rest, d)
  <2>1. Head(todo) = Whole("add", d) /\ Tail(todo) = <<>> /\ d # <<>>
    BY <1>1, <1>2, <1>4
  <2> DEFINE req == [op |-> "add", items |-> d]
  <2>2. Head(Head(todo)) = req /\ Tail(Head(todo)) = <<>>
    BY <1>1, <2>1
  <2>3. req.op = "add" /\ req.items = d
    OBVIOUS
  <2> HIDE DEF req
  <2>4. Served(list, req) = <<>> \o d
    BY <1>4, <2>3 DEF Served
  <2>5. new = d
    BY <2>2, <2>4, ConcatEmptySeq
  <2>6. rest = << <<>> >>
    BY <1>2, <2>1, <2>2
  <2> HIDE DEF new, rest
  <2> QED BY <2>5, <2>6 DEF OnJellyfin
<1>5. todo # << <<>> >>
  BY <1>2
<1> QED
  <2> HIDE DEF new, rest
  <2>1. OnJellyfin(new, rest, d)
    BY <1>3, <1>4, <1>5, Zenon DEF OnJellyfin
  <2> QED BY <2>1 DEF new, rest

\* A Jellyfin batch that is through has emptied the playlist, or filled it.
LEMMA JellyfinEnds ==
    ASSUME NEW list \in Seq(Items), NEW d \in Seq(Items), d # <<>>, NEW todo,
           Head(todo) = <<>>, OnJellyfin(list, todo, d)
    PROVE  (Tail(todo) = <<>> /\ list = d) \/ OnJellyfin(list, Tail(todo), d)
<1>1. \A op \in {"del", "add"} : \A s \in Seq(Items) :
         Whole(op, s) \in Seq(Request) /\ (Whole(op, s) = <<>> <=> s = <<>>)
  BY WholeFacts
<1>2. /\ <<>> \in Seq(Request)
      /\ \A a, b \in Seq(Request) :
            /\ Head(<<a>>) = a /\ Tail(<<a>>) = <<>>
            /\ Head(<<a, b>>) = a /\ Tail(<<a, b>>) = <<b>>
            /\ <<a>> \o <<>> = <<a>> /\ <<a>> \o <<b>> = <<a, b>>
  <2>1. ShortLists(Seq(Request)) /\ <<>> \in Seq(Request)
    BY Rows
  <2>2. ASSUME NEW a \in Seq(Request), NEW b \in Seq(Request)
        PROVE  /\ Head(<<a>>) = a /\ Tail(<<a>>) = <<>>
               /\ Head(<<a, b>>) = a /\ Tail(<<a, b>>) = <<b>>
               /\ <<a>> \o <<>> = <<a>> /\ <<a>> \o <<b>> = <<a, b>>
    BY <2>1, Zenon DEF ShortLists
  <2> QED BY <2>1, <2>2
<1>3. ASSUME todo = << Whole("del", list), Whole("add", d) >> PROVE OnJellyfin(list, Tail(todo), d)
  <2>1. list = <<>> /\ Tail(todo) = << Whole("add", d) >>
    BY <1>1, <1>2, <1>3
  <2> QED BY <2>1 DEF OnJellyfin
<1>4. ASSUME todo = << Whole("add", d) >> PROVE FALSE
  BY <1>1, <1>2, <1>4
<1>5. ASSUME todo = << <<>> >>, list = d PROVE Tail(todo) = <<>> /\ list = d
  BY <1>2, <1>5
<1> QED
  BY <1>3, <1>4, <1>5, Zenon DEF OnJellyfin

\* A plan starts on the way.
LEMMA PlanDoes ==
    ASSUME NEW cur \in Seq(Items), NEW d \in Seq(Items), backend \in {"plex", "jellyfin"},
           backend = "plex" => NoDuplicates(d)
    PROVE  Doing(cur, UpdatePlan(cur, d), d)
<1> DEFINE plan == UpdatePlan(cur, d)
<1>1. CASE backend = "jellyfin"
  <2>1. plan = << Whole("del", cur), Whole("add", d) >>
    BY <1>1 DEF UpdatePlan, JellyfinPlan
  <2> HIDE DEF plan
  <2>2. Doing(cur, plan, d)
    BY <1>1, <2>1 DEF Doing, OnJellyfin
  <2> QED BY <2>2 DEF plan
<1>2. CASE backend = "plex"
  <2> DEFINE O == Outside(cur, ItemsOf(d))
             I == Inside(cur, ItemsOf(d))
             add == Outside(d, ItemsOf(cur))
  <2>1. plan = IF cur = d THEN <<>>
               ELSE IF NeedsReorder(I, add, d)
               THEN << Singles("del", O), Singles("del", I), Singles("add", d) >>
               ELSE << Singles("del", O), Singles("add", add) >>
    BY <1>2 DEF UpdatePlan, PlexPlan
  <2>2. ~NeedsReorder(I, add, d) => I \o add = d
    BY <1>2, NothingToReorder
  <2>3. add \in Seq(Items)
    <3> DEFINE C == ItemsOf(cur)
    <3> HIDE DEF C
    <3>1. Outside(d, C) \in Seq(Items)
      BY OutsideIs
    <3> QED BY <3>1 DEF C
  <2> HIDE DEF plan, O, I, add
  <2>4. \/ plan = <<>> /\ cur = d
        \/ plan = << Singles("del", O), Singles("del", I), Singles("add", d) >>
        \/ plan = << Singles("del", O), Singles("add", add) >> /\ I \o add = d
    BY <2>1, <2>2
  <2>5. Doing(cur, plan, d)
    <3>1. ASSUME plan = << Singles("del", O), Singles("del", I), Singles("add", d) >>
          PROVE  Doing(cur, plan, d)
      BY <1>2, <3>1, Zenon DEF Doing, OnPlex, O, I
    <3>2. ASSUME plan = << Singles("del", O), Singles("add", add) >>, I \o add = d
          PROVE  Doing(cur, plan, d)
      BY <1>2, <2>3, <3>2, Zenon DEF Doing, OnPlex, O, I
    <3>3. ASSUME plan = <<>>, cur = d PROVE Doing(cur, plan, d)
      BY <3>3 DEF Doing
    <3> QED BY <2>4, <3>1, <3>2, <3>3
  <2> QED BY <2>5 DEF plan
<1> QED
  BY <1>1, <1>2

\* In an attempt in which nothing has gone wrong so far, what is still to do
\* turns the playlist into the wanted list.  (On Plex the list must be without
\* duplicates.)
Straight == job.clean /\ (backend = "plex" => NoDuplicates(job.desired))

\* Such an attempt is on track.
OnTrack ==
    Straight =>
        /\ job.st \in {"compare", "plan"} => Exists(saved)
        /\ job.st = "requests" => /\ Exists(Current) /\ ~job.bad
                                  /\ Doing(remote[Current], job.batches, job.desired)
        /\ job.st = "save" => Exists(job.made) /\ remote[job.made] = job.desired
        /\ job.st \notin Ended => ~job.skipped

\* The requests of such an attempt.
LEMMA TrackSend ==
    ASSUME TypeOK, OnTrack, SendRequest
    PROVE  OnTrack'
<1> USE DEF GoesDirty
<1>1. /\ job \in Jobs(Len(remote)) /\ Len(remote) \in Nat /\ saved \in 0..Len(remote)
      /\ remote \in Seq(Seq(Items) \cup {Gone}) /\ DOMAIN remote = 1..Len(remote)
      /\ backend \in {"plex", "jellyfin"}
  BY TypeParts DEF TypeOK
<1> DEFINE todo == job.batches
           req == Head(Head(todo))
           rest == << Tail(Head(todo)) >> \o Tail(todo)
<1>2. todo \in Seq(Seq(Request)) /\ todo # <<>> /\ Head(todo) # <<>> /\ job.st = "requests"
  BY <1>1 DEF SendRequest, Jobs
<1>3. \/ /\ Exists(Current) /\ remote' = [remote EXCEPT ![Current] = Served(@, req)]
         /\ job' = [job EXCEPT !.batches = rest]
      \/ ~Exists(Current) /\ job' = [job EXCEPT !.batches = rest, !.bad = TRUE]
      \/ job' = [job EXCEPT !.batches = rest, !.bad = TRUE, !.clean = FALSE]
      \/ job' = [job EXCEPT !.st = "failed", !.clean = FALSE]
  BY DEF SendRequest
<1>4. UNCHANGED <<saved, backend>>
  BY DEF SendRequest
<1>5. req \in Request
  <2>1. Head(todo) \in Seq(Request)
    BY <1>2
  <2> QED BY <1>2, <2>1
<1> HIDE DEF req, rest
<1>6. job'.desired = job.desired /\ job'.made = job.made /\ job'.skipped = job.skipped
      /\ (job'.clean => job.clean)
  BY <1>1, <1>3 DEF Jobs
<1> SUFFICES ASSUME Straight' PROVE OnTrack'
  BY DEF OnTrack
<1>7. Straight
  BY <1>4, <1>6 DEF Straight
<1>8. Exists(Current) /\ ~job.bad /\ ~job.skipped /\ Doing(remote[Current], todo, job.desired)
  BY <1>2, <1>7 DEF OnTrack, Ended
<1>9. /\ remote' = [remote EXCEPT ![Current] = Served(@, req)]
      /\ job'.st = "requests" /\ job'.batches = rest /\ ~job'.bad
  BY <1>1, <1>2, <1>3, <1>8 DEF Jobs, Straight
<1>10. /\ Current \in DOMAIN remote /\ remote[Current] \in Seq(Items)
       /\ Served(remote[Current], req) \in Seq(Items)
  BY <1>5, <1>8, ServeType
<1>11. Current' = Current
  BY <1>4, <1>6 DEF Current
<1> DEFINE list == remote[Current]
           new == Served(list, req)
<1>12. remote'[Current'] = new
  BY <1>9, <1>10, <1>11
<1>13. Exists(Current)'
  <2>1. new # Gone /\ Current # 0
    BY <1>1, <1>10, GoneIsNoList
  <2> QED BY <1>11, <1>12, <2>1 DEF Exists
<1>14. job.desired \in Seq(Items)
  BY <1>1 DEF Jobs
<1>15. \/ backend = "plex" /\ OnPlex(new, rest, job.desired)
       \/ backend = "jellyfin" /\ OnJellyfin(new, rest, job.desired)
  <2> HIDE DEF list
  <2>1. backend = "plex" => OnPlex(new, rest, job.desired)
    <3> SUFFICES ASSUME backend = "plex" PROVE OnPlex(new, rest, job.desired)
      OBVIOUS
    <3>1. OnPlex(list, todo, job.desired)
      BY <1>2, <1>8 DEF Doing, list
    <3> QED BY <1>2, <1>10, <1>14, <3>1, PlexSends DEF list, req, rest
  <2>2. backend = "jellyfin" => OnJellyfin(new, rest, job.desired)
    <3> SUFFICES ASSUME backend = "jellyfin" PROVE OnJellyfin(new, rest, job.desired)
      OBVIOUS
    <3>1. OnJellyfin(list, todo, job.desired)
      BY <1>2, <1>8 DEF Doing, list
    <3> QED BY <1>2, <1>10, <1>14, <3>1, JellyfinSends DEF list, req, rest
  <2> QED BY <1>1, <2>1, <2>2
<1> HIDE DEF new
<1>16. Doing(remote[Current], job.batches, job.desired)'
  BY <1>4, <1>6, <1>9, <1>12, <1>15 DEF Doing
<1> QED
  BY <1>6, <1>8, <1>9, <1>13, <1>16 DEF OnTrack

\* The end of a batch, and of the requests.
LEMMA TrackEnds ==
    ASSUME TypeOK, OnTrack, EndBatch \/ EndRequests
    PROVE  OnTrack'
<1> USE DEF Goes
<1>1. /\ job \in Jobs(Len(remote)) /\ Fits /\ backend \in {"plex", "jellyfin"}
      /\ Len(remote) \in Nat /\ DOMAIN remote = 1..Len(remote)
      /\ remote \in Seq(Seq(Items) \cup {Gone}) /\ saved \in 0..Len(remote)
  BY TypeParts DEF TypeOK
<1>2. job.st = "requests" /\ UNCHANGED <<backend, remote, saved>>
  BY DEF EndBatch, EndRequests
<1>3. \/ job.bad /\ EndBatch
      \/ /\ Head(job.batches) = <<>> /\ EndBatch
         /\ job' = [job EXCEPT !.batches = Tail(@), !.bad = FALSE]
      \/ /\ job.batches = <<>> /\ EndRequests
         /\ job' = [job EXCEPT !.st = IF job.made = 0 THEN "ok" ELSE "save"]
  BY DEF EndBatch, EndRequests
<1>4. job'.clean = job.clean /\ job'.desired = job.desired /\ job'.made = job.made
      /\ job'.skipped = job.skipped
  BY <1>1, <1>2 DEF EndBatch, EndRequests, Jobs
<1> SUFFICES ASSUME Straight' PROVE OnTrack'
  BY DEF OnTrack
<1>5. Straight
  BY <1>2, <1>4 DEF Straight
<1> DEFINE list == remote[Current]
           todo == job.batches
           d == job.desired
<1>6. Exists(Current) /\ ~job.bad /\ ~job.skipped /\ Doing(list, todo, d)
  BY <1>2, <1>5 DEF OnTrack, Ended
<1>7. Current' = Current /\ remote'[Current'] = list /\ Exists(Current)'
  <2>1. Current' = Current
    BY <1>2, <1>4 DEF Current
  <2> QED BY <1>2, <1>6, <2>1 DEF Exists
<1>8. list \in Seq(Items)
  <2>1. Current \in 0..Len(remote)
    BY <1>1 DEF Current, Jobs
  <2>2. Current \in DOMAIN remote /\ remote[Current] # Gone
    BY <1>1, <1>6, <2>1 DEF Exists
  <2> QED BY <1>1, <2>2, ElementOfSeq
<1>9. d \in Seq(Items) /\ d # <<>>
  BY <1>1, <1>2, WantedAssumption DEF Fits, Ended
<1> HIDE DEF list, todo, d
<1>10. CASE Head(todo) = <<>> /\ EndBatch /\ job' = [job EXCEPT !.batches = Tail(@), !.bad = FALSE]
  <2>1. job'.st = "requests" /\ job'.batches = Tail(todo) /\ ~job'.bad
    BY <1>1, <1>2, <1>10 DEF Jobs, todo
  <2>2. Doing(list, Tail(todo), d)
    <3>0. todo # <<>>
      BY <1>10 DEF EndBatch, todo
    <3>1. CASE backend = "plex"
      <4>1. OnPlex(list, todo, d)
        BY <1>6, <3>0, <3>1 DEF Doing
      <4> QED BY <1>8, <1>9, <1>10, <3>1, <4>1, PlexEnds DEF Doing
    <3>2. CASE backend = "jellyfin"
      <4>1. OnJellyfin(list, todo, d)
        BY <1>6, <3>0, <3>2 DEF Doing
      <4> QED BY <1>8, <1>9, <1>10, <3>2, <4>1, JellyfinEnds DEF Doing
    <3> QED BY <1>1, <3>1, <3>2
  <2>3. Doing(remote[Current], job.batches, job.desired)'
    BY <1>2, <1>4, <1>7, <2>1, <2>2 DEF Doing, d
  <2> QED BY <1>4, <1>6, <1>7, <2>1, <2>3 DEF OnTrack
<1>11. CASE job.batches = <<>> /\ job' = [job EXCEPT !.st = IF job.made = 0 THEN "ok" ELSE "save"]
  <2>1. list = d
    <3>1. \A x : <<>> # <<x>>
      OBVIOUS
    <3>2. \A x, y : <<>> # <<x, y>>
      OBVIOUS
    <3>3. \A x, y, z : <<>> # <<x, y, z>>
      OBVIOUS
    <3>4. todo = <<>>
      BY <1>11 DEF todo
    <3> QED BY <1>6, <3>1, <3>2, <3>3, <3>4, Zenon DEF Doing, OnPlex, OnJellyfin, AddsUp
  <2>2. job'.st = IF job.made = 0 THEN "ok" ELSE "save"
    BY <1>1, <1>11 DEF Jobs
  <2>3. job.made # 0 => Current = job.made
    BY DEF Current
  <2>4. job'.st = "save" => (Exists(job.made) /\ remote[job.made] = job.desired)'
    <3>1. remote' = remote /\ job'.made = job.made /\ job'.desired = job.desired
      BY <1>2, <1>4
    <3>2. job'.st = "save" => job.made # 0
      BY <2>2
    <3>3. job.made # 0 => Exists(job.made) /\ remote[job.made] = job.desired
      BY <1>6, <2>1, <2>3 DEF list, d
    <3> QED BY <3>1, <3>2, <3>3 DEF Exists
  <2> QED BY <1>4, <1>6, <2>2, <2>4 DEF OnTrack, Ended
<1> QED
  BY <1>3, <1>6, <1>10, <1>11 DEF todo

\* The plan of such an attempt starts on the way.
LEMMA TrackPlan ==
    ASSUME TypeOK, OnTrack, NoneFailed, PlanUpdate
    PROVE  OnTrack'
<1> USE DEF GoesDirty
<1>1. /\ job \in Jobs(Len(remote)) /\ Fits /\ backend \in {"plex", "jellyfin"}
      /\ Len(remote) \in Nat /\ DOMAIN remote = 1..Len(remote)
      /\ remote \in Seq(Seq(Items) \cup {Gone}) /\ saved \in 0..Len(remote)
  BY TypeParts DEF TypeOK
<1> SUFFICES ASSUME Straight' PROVE OnTrack'
  BY DEF OnTrack
<1>2. job.st = "plan" /\ job.made = 0 /\ UNCHANGED <<backend, remote, saved>>
  BY <1>1 DEF PlanUpdate, Fits
<1>3. \/ job' = [job EXCEPT !.st = "requests", !.batches = UpdatePlan(Listed(saved), job.desired)]
      \/ job' = [job EXCEPT !.st = "requests", !.clean = FALSE,
                            !.batches = UpdatePlan(<<>>, job.desired)]
      \/ job' = [job EXCEPT !.st = "failed", !.clean = FALSE]
  BY DEF PlanUpdate
<1>4. /\ job'.st = "requests" /\ job'.batches = UpdatePlan(Listed(saved), job.desired)
      /\ job'.desired = job.desired /\ job'.made = 0 /\ job'.bad = job.bad
      /\ job'.skipped = job.skipped /\ job.clean
  BY <1>1, <1>2, <1>3 DEF Jobs, Straight
<1>5. Straight
  BY <1>2, <1>4 DEF Straight
<1>6. Exists(saved) /\ ~job.bad /\ ~job.skipped
  BY <1>2, <1>5 DEF OnTrack, NoneFailed, Ended
<1>7. Listed(saved) = remote[saved] /\ remote[saved] \in Seq(Items)
  <2>1. saved \in DOMAIN remote /\ remote[saved] # Gone
    BY <1>1, <1>6 DEF Exists
  <2> QED BY <1>1, <1>6, <2>1, ElementOfSeq DEF Listed
<1>8. job.desired \in Seq(Items)
  BY <1>1 DEF Jobs
<1>9. Doing(Listed(saved), UpdatePlan(Listed(saved), job.desired), job.desired)
  BY <1>1, <1>5, <1>7, <1>8, PlanDoes DEF Straight
<1>10. Current' = saved /\ remote'[Current'] = Listed(saved)
  BY <1>2, <1>4, <1>7 DEF Current
<1>11. Doing(remote[Current], job.batches, job.desired)'
  BY <1>2, <1>4, <1>9, <1>10 DEF Doing
<1>12. Exists(Current)'
  BY <1>2, <1>6, <1>10 DEF Exists
<1> QED
  BY <1>4, <1>6, <1>11, <1>12 DEF OnTrack

\* A playlist that is made instead starts with the first item, or with all.
LEMMA TrackCreate ==
    ASSUME TypeOK, OnTrack, NoneFailed, PlexCreates \/ JellyfinCreates
    PROVE  OnTrack'
<1> USE DEF GoesDirty
<1>1. /\ job \in Jobs(Len(remote)) /\ Fits /\ Len(remote) \in Nat
      /\ remote \in Seq(Seq(Items) \cup {Gone}) /\ DOMAIN remote = 1..Len(remote)
  BY TypeParts DEF TypeOK
<1> SUFFICES ASSUME Straight' PROVE OnTrack'
  BY DEF OnTrack
<1>2. job.st = "create" /\ UNCHANGED <<backend, saved>>
  BY DEF PlexCreates, JellyfinCreates
<1>3. job.desired \in Seq(Items) /\ job.desired # <<>>
  BY <1>1, <1>2, WantedAssumption DEF Fits, Ended
<1>4. NewId = Len(remote) + 1 /\ NewId # 0
  BY <1>1 DEF NewId
<1>5. ASSUME NEW list \in Seq(Items), remote' = Append(remote, list)
      PROVE  remote'[NewId] = list /\ list # Gone
  BY <1>1, <1>4, <1>5, GoneIsNoList
<1>6. CASE PlexCreates
  <2> DEFINE one == <<job.desired[1]>>
             more == Tail(job.desired)
             todo == << Singles("add", more) >>
  <2>1. \/ /\ remote' = Append(remote, one)
           /\ job' = [job EXCEPT !.st = "requests", !.made = NewId, !.batches = todo]
        \/ job' = [job EXCEPT !.st = "ok", !.clean = FALSE]
        \/ job' = [job EXCEPT !.st = "failed", !.clean = FALSE]
    BY <1>6 DEF PlexCreates
  <2>2. one \in Seq(Items) /\ more \in Seq(Items) /\ one \o more = job.desired
    <3>1. one = <<Head(job.desired)>> /\ Head(job.desired) \in Items
      BY <1>3
    <3> DEFINE d == job.desired
    <3>2. d \in Seq(Items) /\ d # <<>>
      BY <1>3
    <3> HIDE DEF d
    <3>3. d = <<Head(d)>> \o Tail(d) /\ Tail(d) \in Seq(Items)
      BY <3>2
    <3> QED BY <3>1, <3>3 DEF d
  <2> HIDE DEF one, more, todo
  <2>3. /\ remote' = Append(remote, one) /\ job'.st = "requests" /\ job'.made = NewId
        /\ job'.batches = todo /\ job.clean /\ job'.desired = job.desired
        /\ job'.bad = job.bad /\ job'.skipped = job.skipped
    BY <1>1, <2>1 DEF Jobs, Straight
  <2>4. remote'[NewId] = one /\ one # Gone
    BY <1>5, <2>2, <2>3
  <2>5. Straight
    BY <1>2, <2>3 DEF Straight
  <2>6. ~job.bad /\ ~job.skipped
    BY <1>2, <2>5 DEF OnTrack, NoneFailed, Ended
  <2>7. Current' = NewId
    BY <1>4, <2>3 DEF Current
  <2>8. Doing(one, todo, job.desired)
    BY <1>6, <2>2 DEF Doing, OnPlex, AddsUp, PlexCreates, todo
  <2>9. Doing(remote[Current], job.batches, job.desired)'
    BY <1>2, <2>3, <2>4, <2>7, <2>8 DEF Doing
  <2>10. Exists(Current)'
    BY <1>4, <2>4, <2>7 DEF Exists
  <2> QED BY <2>3, <2>6, <2>9, <2>10 DEF OnTrack
<1>7. CASE JellyfinCreates
  <2>1. \/ /\ remote' = Append(remote, job.desired)
           /\ job' = [job EXCEPT !.st = "save", !.made = NewId]
        \/ job' = [job EXCEPT !.st = "ok", !.clean = FALSE]
    BY <1>7 DEF JellyfinCreates
  <2>2. /\ remote' = Append(remote, job.desired) /\ job'.st = "save" /\ job'.made = NewId
        /\ job.clean /\ job'.desired = job.desired /\ job'.skipped = job.skipped
    BY <1>1, <2>1 DEF Jobs, Straight
  <2>3. remote'[NewId] = job.desired /\ job.desired # Gone
    BY <1>3, <1>5, <2>2
  <2>4. Straight
    BY <1>2, <2>2 DEF Straight
  <2>5. ~job.skipped
    BY <1>2, <2>4 DEF OnTrack, Ended
  <2>6. (Exists(job.made) /\ remote[job.made] = job.desired)'
    BY <1>4, <2>2, <2>3 DEF Exists
  <2> QED BY <2>2, <2>5, <2>6 DEF OnTrack
<1> QED
  BY <1>6, <1>7

\* The other steps start an attempt, go on in it, or disturb it.
LEMMA TrackRest ==
    ASSUME TypeOK, OnTrack, \/ \E d \in Wanted : StartSync(d)
                            \/ GetDetails \/ CompareItems \/ SaveId \/ AttemptLost
                            \/ \E id \in DOMAIN remote : UserEdits(id)
    PROVE  OnTrack'
<1> USE DEF Goes, GoesDirty
<1>1. job \in Jobs(Len(remote))
  BY TypeParts
<1> SUFFICES ASSUME Straight' PROVE OnTrack'
  BY DEF OnTrack
<1>2. CASE \E d \in Wanted : StartSync(d)
  <2>1. job'.st \in {"create", "details"} /\ ~job'.skipped
    BY <1>2 DEF StartSync, NoJob
  <2> QED BY <2>1 DEF OnTrack
<1>3. CASE GetDetails \/ CompareItems
  <2>1. /\ job.st \in {"details", "compare"} /\ UNCHANGED <<backend, remote, saved>>
        /\ job'.desired = job.desired /\ job'.clean = job.clean
    <3>1. CASE GetDetails
      <4>1. \E st : \/ job' = [job EXCEPT !.st = st]
                    \/ job' = [job EXCEPT !.st = st, !.clean = FALSE]
        BY <3>1 DEF GetDetails
      <4> QED BY <1>1, <3>1, <4>1 DEF Jobs, Straight, GetDetails
    <3>2. CASE CompareItems
      <4>1. \/ job' = [job EXCEPT !.st = "ok", !.skipped = TRUE]
            \/ job' = [job EXCEPT !.st = "plan"]
            \/ job' = [job EXCEPT !.st = "plan", !.clean = FALSE]
        BY <3>2 DEF CompareItems
      <4> QED BY <1>1, <3>2, <4>1 DEF Jobs, Straight, CompareItems
    <3> QED BY <1>3, <3>1, <3>2
  <2>2. Straight
    BY <2>1 DEF Straight
  <2>3. ~job.skipped /\ (job.st = "compare" => Exists(saved))
    BY <2>1, <2>2 DEF OnTrack, Ended
  <2>4. \/ job'.st = "compare" /\ Exists(saved) /\ job'.skipped = job.skipped
        \/ job'.st = "create" /\ job'.skipped = job.skipped
        \/ job'.st = "plan" /\ Exists(saved) /\ job'.skipped = job.skipped
        \/ job'.st = "ok"
    <3>1. CASE GetDetails
      <4>1. \/ job' = [job EXCEPT !.st = IF Exists(saved) THEN "compare" ELSE "create"]
            \/ job' = [job EXCEPT !.st = "create", !.clean = FALSE]
        BY <3>1 DEF GetDetails
      <4> QED BY <1>1, <4>1 DEF Jobs
    <3>2. CASE CompareItems
      <4>1. /\ job.st = "compare"
            /\ \/ job' = [job EXCEPT !.st = "ok", !.skipped = TRUE]
               \/ job' = [job EXCEPT !.st = "plan"]
               \/ job' = [job EXCEPT !.st = "plan", !.clean = FALSE]
        BY <3>2 DEF CompareItems
      <4> QED BY <1>1, <2>3, <4>1 DEF Jobs
    <3> QED BY <1>3, <3>1, <3>2
  <2>5. Exists(saved) => Exists(saved)'
    BY <2>1 DEF Exists
  <2> QED BY <2>3, <2>4, <2>5 DEF OnTrack, Ended
<1>4. CASE SaveId
  <2>1. job'.st = "ok"
    BY <1>1, <1>4 DEF SaveId, Jobs
  <2> QED BY <2>1 DEF OnTrack, Ended
<1>5. CASE AttemptLost
  <2>1. ~job'.clean
    BY <1>1, <1>5 DEF AttemptLost, Jobs
  <2> QED BY <2>1 DEF Straight
<1>6. CASE \E id \in DOMAIN remote : UserEdits(id)
  <2>1. job' = [job EXCEPT !.clean = job.st \in Ended /\ job.clean]
    BY <1>6 DEF UserEdits
  <2>2. job'.st \in Ended
    BY <1>1, <2>1 DEF Jobs, Straight
  <2> QED BY <2>2 DEF OnTrack, Ended
<1> QED
  BY <1>2, <1>3, <1>4, <1>5, <1>6

\* How an attempt in which nothing went wrong can end.
LEMMA CleanEnds ==
    ASSUME TypeOK, OnTrack, Next, Ends, job'.clean, backend = "plex" => NoDuplicates(job.desired)
    PROVE  /\ job'.st = "ok" /\ saved' # 0
           /\ IF job'.skipped THEN SameItems(remote'[saved'], job.desired)
                              ELSE remote'[saved'] = job.desired
<1> USE DEF Goes, GoesDirty
<1>1. /\ job \in Jobs(Len(remote)) /\ Fits /\ backend \in {"plex", "jellyfin"}
      /\ job.st \notin Ended /\ job'.st \in Ended
  BY TypeParts DEF Ends
<1>2. ~(\E d \in Wanted : StartSync(d)) /\ ~GetDetails /\ ~PlanUpdate
  <2>1. ~(\E d \in Wanted : StartSync(d))
    BY <1>1 DEF StartSync
  <2>2. ~GetDetails
    BY <1>1 DEF GetDetails, Jobs, Ended
  <2>3. ~PlanUpdate
    <3> SUFFICES ASSUME PlanUpdate PROVE FALSE
      OBVIOUS
    <3>1. \/ \E todo : job' = [job EXCEPT !.st = "requests", !.batches = todo]
          \/ \E todo : job' = [job EXCEPT !.st = "requests", !.clean = FALSE, !.batches = todo]
          \/ job' = [job EXCEPT !.st = "failed", !.clean = FALSE]
      BY DEF PlanUpdate
    <3> QED BY <1>1, <3>1 DEF Jobs, Ended
  <2> QED BY <2>1, <2>2, <2>3
<1>3. ~SendRequest /\ ~PlexCreates /\ ~JellyfinCreates
  <2>1. ~SendRequest
    <3> SUFFICES ASSUME SendRequest PROVE FALSE
      OBVIOUS
    <3>1. job.st = "requests"
          /\ \/ \E todo : job' = [job EXCEPT !.batches = todo]
             \/ \E todo : job' = [job EXCEPT !.batches = todo, !.bad = TRUE]
             \/ \E todo : job' = [job EXCEPT !.batches = todo, !.bad = TRUE, !.clean = FALSE]
             \/ job' = [job EXCEPT !.st = "failed", !.clean = FALSE]
      BY DEF SendRequest
    <3> QED BY <1>1, <3>1 DEF Jobs, Ended
  <2>2. ~PlexCreates
    <3> SUFFICES ASSUME PlexCreates PROVE FALSE
      OBVIOUS
    <3>1. \/ \E todo : job' = [job EXCEPT !.st = "requests", !.made = NewId, !.batches = todo]
          \/ job' = [job EXCEPT !.st = "ok", !.clean = FALSE]
          \/ job' = [job EXCEPT !.st = "failed", !.clean = FALSE]
      BY DEF PlexCreates
    <3> QED BY <1>1, <3>1 DEF Jobs, Ended
  <2>3. ~JellyfinCreates
    <3> SUFFICES ASSUME JellyfinCreates PROVE FALSE
      OBVIOUS
    <3>1. \/ job' = [job EXCEPT !.st = "save", !.made = NewId]
          \/ job' = [job EXCEPT !.st = "ok", !.clean = FALSE]
      BY DEF JellyfinCreates
    <3> QED BY <1>1, <3>1 DEF Jobs, Ended
  <2> QED BY <2>1, <2>2, <2>3
<1>4. ~AttemptLost /\ ~(\E id \in DOMAIN remote : UserEdits(id))
  BY <1>1 DEF AttemptLost, UserEdits, Jobs
<1>5. CompareItems \/ EndBatch \/ EndRequests \/ SaveId
  BY <1>2, <1>3, <1>4 DEF Next
<1>6. job.clean /\ UNCHANGED remote
  BY <1>1, <1>5 DEF CompareItems, EndBatch, EndRequests, SaveId, Jobs
<1>7. Straight /\ ~job.skipped
  BY <1>1, <1>6 DEF Straight, OnTrack
<1>8. CASE CompareItems
  <2>1. /\ job.st = "compare" /\ UNCHANGED saved
        /\ \/ /\ SameItems(Listed(saved), job.desired)
              /\ job' = [job EXCEPT !.st = "ok", !.skipped = TRUE]
           \/ job' = [job EXCEPT !.st = "plan"]
           \/ job' = [job EXCEPT !.st = "plan", !.clean = FALSE]
    BY <1>8 DEF CompareItems
  <2>2. job'.st = "ok" /\ job'.skipped /\ SameItems(Listed(saved), job.desired)
    BY <1>1, <2>1 DEF Jobs, Ended
  <2>3. Exists(saved) /\ saved # 0
    BY <1>7, <2>1 DEF OnTrack, Exists
  <2>4. Listed(saved) = remote'[saved'] /\ saved' # 0
    BY <1>6, <2>1, <2>3 DEF Listed
  <2>5. SameItems(remote'[saved'], job.desired)
    <3> DEFINE list == Listed(saved)
    <3> HIDE DEF list
    <3>1. SameItems(list, job.desired) /\ remote'[saved'] = list
      BY <2>2, <2>4 DEF list
    <3> QED BY <3>1
  <2> QED BY <2>2, <2>4, <2>5
<1>9. CASE EndBatch
  <2>1. job.st = "requests" /\ ~job.bad
    BY <1>7, <1>9 DEF OnTrack, EndBatch
  <2>2. job' = [job EXCEPT !.batches = Tail(@), !.bad = FALSE]
    BY <1>9, <2>1 DEF EndBatch
  <2>3. job'.st = job.st
    BY <1>1, <2>2 DEF Jobs
  <2> QED BY <1>1, <2>3
<1>10. CASE EndRequests
  <2>1. job.st = "requests" /\ job.batches = <<>> /\ UNCHANGED saved
    BY <1>10 DEF EndRequests
  <2>2. job' = [job EXCEPT !.st = IF job.made = 0 THEN "ok" ELSE "save"]
    BY <1>10 DEF EndRequests
  <2>3. job.made = 0 /\ job'.st = "ok" /\ job'.skipped = job.skipped
    BY <1>1, <2>2 DEF Jobs, Ended
  <2>4. Current = saved /\ saved # 0
    BY <1>1, <2>1, <2>3 DEF Current, Fits
  <2>5. remote[saved] = job.desired
    <3>1. Doing(remote[saved], <<>>, job.desired)
      BY <1>7, <2>1, <2>4 DEF OnTrack
    <3>2. \A x : <<>> # <<x>>
      OBVIOUS
    <3>3. \A x, y : <<>> # <<x, y>>
      OBVIOUS
    <3>4. \A x, y, z : <<>> # <<x, y, z>>
      OBVIOUS
    <3> QED BY <3>1, <3>2, <3>3, <3>4, Zenon DEF Doing, OnPlex, OnJellyfin, AddsUp
  <2> QED BY <1>6, <1>7, <2>1, <2>3, <2>4, <2>5
<1>11. CASE SaveId
  <2>1. job.st = "save" /\ saved' = job.made /\ job' = [job EXCEPT !.st = "ok"]
    BY <1>11 DEF SaveId
  <2>2. job'.st = "ok" /\ job'.skipped = job.skipped
    BY <1>1, <2>1 DEF Jobs
  <2>3. job.made # 0 /\ remote[job.made] = job.desired
    BY <1>1, <1>7, <2>1 DEF OnTrack, Fits
  <2> QED BY <1>6, <1>7, <2>1, <2>2, <2>3
<1> QED
  BY <1>5, <1>8, <1>9, <1>10, <1>11

\* An attempt in which nothing goes wrong succeeds and leaves exactly the wanted
\* items in the playlist, in the wanted order if it wrote, whatever earlier
\* attempts had left there: for lists of any length, and on Plex for those
\* without duplicates.
THEOREM CleanSyncIsExact == Spec => CleanSyncExact
<1>1. Init => OnTrack /\ CoverInv
  BY DEF Init, NoJob, OnTrack, Ended, CoverInv, NoneFailed, AddsLast, Covered
<1>2. TypeOK /\ CoverInv /\ [Next]_vars => CoverInv'
  BY CoverKept
<1>3. TypeOK /\ OnTrack /\ CoverInv /\ [Next]_vars => OnTrack'
  <2> SUFFICES ASSUME TypeOK, OnTrack, NoneFailed, [Next]_vars PROVE OnTrack'
    BY DEF CoverInv
  <2>1. CASE UNCHANGED vars
    <3>1. UNCHANGED <<backend, remote, saved, job>>
      BY <2>1 DEF vars
    <3> QED BY <3>1 DEF OnTrack, Straight, Exists, Current, Doing
  <2> QED
    BY <2>1, TrackSend, TrackEnds, TrackPlan, TrackCreate, TrackRest DEF Next
<1>4. ASSUME TypeOK, OnTrack, [Next]_vars
      PROVE  Ends /\ job'.clean /\ (backend = "plex" => NoDuplicates(job.desired)) =>
                 /\ job'.st = "ok" /\ saved' # 0
                 /\ IF job'.skipped THEN SameItems(remote'[saved'], job.desired)
                                    ELSE remote'[saved'] = job.desired
  <2> SUFFICES ASSUME Ends, job'.clean, backend = "plex" => NoDuplicates(job.desired)
               PROVE  /\ job'.st = "ok" /\ saved' # 0
                      /\ IF job'.skipped THEN SameItems(remote'[saved'], job.desired)
                                         ELSE remote'[saved'] = job.desired
    OBVIOUS
  <2>1. Next
    BY <1>4 DEF vars, Ends
  <2> QED BY <1>4, <2>1, CleanEnds
<1> QED
  BY <1>1, <1>2, <1>3, <1>4, PublicationTypes, PTL DEF Spec, CleanSyncExact

-----------------------------------------------------------------------------
(* Clients: type correctness *)

\* What the end of a reset leaves in the worker process.
LEMMA PushChild ==
    ASSUME CacheTypeOK, Push
    PROVE  /\ child' \in [cache : Versions \cup {None}, processed : Fingerprints \cup {None},
                           asOf : Versions]
           /\ \/ child' = child
              \/ /\ child'.cache = child.cache
                 /\ child'.processed = seen /\ child'.asOf = from
<1>1. /\ child \in [cache : Versions \cup {None}, processed : Fingerprints \cup {None},
                    asOf : Versions]
      /\ seen \in Fingerprints \cup {None} /\ from \in Versions
  BY DEF CacheTypeOK
<1>2. child' = child \/ child' = [child EXCEPT !.processed = seen, !.asOf = from]
  BY DEF Push
<1>. QED BY <1>1, <1>2

\* Every reachable state is well typed, and the lock is held by exactly the
\* request that builds a client (services/target.py 51-63).
THEOREM CacheTypes == CacheSpec => []CacheTypeOK
<1>. USE TargetCacheAssumption DEF Versions, Eras, Fingerprints
<1>1. CacheInit => CacheTypeOK
  <2>1. CacheInit => missed \in BOOLEAN
    BY Zenon DEF CacheInit
  <2>2. CacheInit => was \in [Versions -> Looks]
    BY DEF CacheInit
  <2>. QED BY <2>1, <2>2 DEF CacheInit, CacheTypeOK, NoClient
<1>2. CacheTypeOK /\ [CacheNext]_cacheVars => CacheTypeOK'
  <2>. SUFFICES ASSUME CacheTypeOK, [CacheNext]_cacheVars
                PROVE  CacheTypeOK'
    OBVIOUS
  <2>. USE DEF CacheTypeOK, stored, api, worker, Goto, Mishap
  <2>1. ASSUME NEW r \in Requests, Get(r) \/ Lock(r) \/ Load(r) \/ LoadFails(r)
        PROVE  CacheTypeOK'
    <3>1. CASE Get(r)
      BY <3>1 DEF Get
    <3>2. CASE Lock(r)
      BY <3>2, SMTT(30) DEF Lock
    <3>3. CASE Load(r)
      BY <3>3 DEF Load
    <3>4. CASE LoadFails(r)
      BY <3>4 DEF LoadFails
    <3>. QED BY <2>1, <3>1, <3>2, <3>3, <3>4
  <2>2. ASSUME NEW r \in Requests, Store(r) \/ Use(r) \/ Save(r) \/ SaveBreaksOff(r)
        PROVE  CacheTypeOK'
    <3>1. CASE Store(r)
      BY <3>1 DEF Store
    <3>2. CASE Use(r)
      BY <3>2 DEF Use
    <3>3. CASE Save(r)
      BY <3>3 DEF Save
    <3>4. CASE SaveBreaksOff(r)
      BY <3>4 DEF SaveBreaksOff
    <3>. QED BY <2>2, <3>1, <3>2, <3>3, <3>4
  <2>3. ASSUME NEW r \in Requests, Reset(r) \/ PushRead(r) \/ PushWrite(r)
        PROVE  CacheTypeOK'
    <3>1. CASE Reset(r)
      BY <3>1 DEF Reset
    <3>2. CASE PushRead(r)
      BY <3>2 DEF PushRead, Fingerprint
    <3>3. CASE PushWrite(r)
      BY <3>3 DEF PushWrite
    <3>. QED BY <2>3, <3>1, <3>2, <3>3
  <2>4. CASE RotateSwitch
    BY <2>4 DEF RotateSwitch
  <2>5. CASE RotateCommit
    BY <2>5 DEF RotateCommit
  <2>6. CASE ApiRestarts
    <3>1. missed' \in BOOLEAN
      BY <2>6, Zenon DEF ApiRestarts
    <3>. QED BY <2>6, <3>1 DEF ApiRestarts
  <2>7. CASE TaskStarts \/ Compare \/ Push \/ ResetAgain
    <3>1. CASE TaskStarts
      BY <3>1 DEF TaskStarts, Fingerprint
    <3>2. CASE Compare
      BY <3>2 DEF Compare, NoClient
    <3>3. CASE Push
      <4>1. shared' \in Fingerprints \cup {None} /\ UNCHANGED <<stored, api, wkey, seen>>
        BY <3>3 DEF Push, Fingerprint
      <4>2. /\ wpc' \in {"target", "again"} /\ mishaps' \in 0..MaxMishaps
            /\ UNCHANGED <<wuse, from>>
        BY <3>3 DEF Push
      <4>. QED BY <3>3, <4>1, <4>2, PushChild
    <3>4. CASE ResetAgain
      BY <3>4 DEF ResetAgain, Fingerprint, NoClient, TaskOver
    <3>. QED BY <2>7, <3>1, <3>2, <3>3, <3>4
  <2>8. CASE \/ Target \/ TargetFails \/ TaskEnds
             \/ MatchTrack \/ ChildDies \/ WorkerRestarts
    <3>1. CASE Target \/ TargetFails \/ TaskEnds
      BY <3>1 DEF Target, TargetFails, TaskEnds, TaskOver
    <3>2. CASE MatchTrack \/ ChildDies \/ WorkerRestarts
      BY <3>2, SMTT(30) DEF MatchTrack, ChildDies, WorkerRestarts, NoClient, TaskOver
    <3>. QED BY <2>8, <3>1, <3>2
  <2>9. CASE UNCHANGED cacheVars
    BY <2>9 DEF cacheVars
  <2>. QED
    BY <2>1, <2>2, <2>3, <2>4, <2>5, <2>6, <2>7, <2>8, <2>9 DEF CacheNext
<1>. QED BY <1>1, <1>2, PTL DEF CacheSpec

-----------------------------------------------------------------------------
(* The worker *)

\* Client c serves settings f when the fingerprint is that of settings o.
Serves(c, o, f) ==
    \/ c >= f
    \/ was[c] = was[f]
    \/ o < c /\ was[o] = was[f]

\* What the fingerprints stand for: the worker's own one is of settings no
\* newer than its client, and the task's one of the settings it began with.
WorkerInv ==
    /\ from <= conf /\ child.asOf <= conf
    /\ child.cache # None => child.cache <= conf
    /\ wuse # None => wuse <= conf
    /\ child.processed # None => child.processed[1] = was[child.asOf]
    /\ child.processed # None /\ child.cache # None => child.asOf <= child.cache
    /\ wpc \in {"compare", "push"} => seen # None /\ seen[1] = was[from]
    /\ wpc = "push" => child = NoClient
    /\ wpc = "target" /\ child.cache # None => Serves(child.cache, child.asOf, from)
    /\ wpc = "run" => wuse # None /\ Serves(wuse, child.asOf, from)

\* A child task runs with a client of the settings that were stored when it
\* began, of newer ones, or of older ones with the same values (tasks.py
\* 369-390, target.py 65-112), however many changes, rotations, failures and
\* deaths there are; except when the settings had been changed and set back
\* around the building of the client, which its fingerprint cannot tell.
THEOREM WorkerIsFresh == CacheSpec => []WorkerFresh
<1>. USE TargetCacheAssumption DEF Versions, Eras, Fingerprints
<1>1. CacheInit => WorkerInv
  BY DEF CacheInit, WorkerInv, NoClient
<1>2. CacheTypeOK /\ CacheTypeOK' /\ WorkerInv /\ [CacheNext]_cacheVars => WorkerInv'
  <2>. SUFFICES ASSUME CacheTypeOK, CacheTypeOK', WorkerInv, [CacheNext]_cacheVars
                PROVE  WorkerInv'
    OBVIOUS
  <2>. USE DEF CacheTypeOK, WorkerInv, Serves, stored, worker, NoClient, Fingerprint
  <2>1. ASSUME UNCHANGED worker, conf <= conf',
               \A v \in Versions : v <= conf => was'[v] = was[v]
        PROVE  WorkerInv'
    BY <2>1, SMTT(30)
  <2>2. ASSUME NEW r \in Requests, Save(r)
        PROVE  WorkerInv'
    <3>1. UNCHANGED worker /\ conf' = conf + 1
      BY <2>2 DEF Save
    <3>2. \A v \in Versions : v <= conf => was'[v] = was[v]
      BY <2>2 DEF Save
    <3>. QED BY <2>1, <3>1, <3>2
  <2>3. ASSUME NEW r \in Requests,
               \/ Get(r) \/ Lock(r) \/ Load(r) \/ LoadFails(r) \/ Store(r) \/ Use(r)
               \/ SaveBreaksOff(r) \/ Reset(r) \/ PushRead(r) \/ PushWrite(r)
        PROVE  UNCHANGED <<worker, conf, was>>
    BY <2>3 DEF Get, Lock, Load, LoadFails, Store, Use, SaveBreaksOff, Reset,
                PushRead, PushWrite
  <2>4. ASSUME RotateSwitch \/ RotateCommit \/ ApiRestarts \/ UNCHANGED cacheVars
        PROVE  UNCHANGED <<worker, conf, was>>
    BY <2>4 DEF RotateSwitch, RotateCommit, ApiRestarts, cacheVars
  <2>5. CASE TaskStarts
    BY <2>5, SMTT(30) DEF TaskStarts
  <2>6. CASE Compare
    BY <2>6 DEF Compare
  <2>7. CASE Push
    <3>1. /\ UNCHANGED <<stored, wuse, from, seen>> /\ wpc' \in {"target", "again"}
          /\ wpc = "push" /\ seen # None /\ seen[1] = was[from] /\ child = NoClient
      BY <2>7 DEF Push
    <3>2. /\ child'.cache = None
          /\ \/ child'.processed = None /\ child'.asOf = 0
             \/ child'.processed = seen /\ child'.asOf = from
      <4>. HIDE DEF CacheTypeOK
      <4>1. \/ child' = child
            \/ /\ child'.cache = child.cache
               /\ child'.processed = seen /\ child'.asOf = from
        BY <2>7, PushChild
      <4>2. child.cache = None /\ child.processed = None /\ child.asOf = 0
        BY <3>1
      <4>. QED BY <4>1, <4>2
    <3>3. from \in Nat /\ conf \in Nat /\ from <= conf /\ (wuse # None => wuse <= conf)
      OBVIOUS
    <3>. HIDE DEF CacheTypeOK
    <3>. QED BY <3>1, <3>2, <3>3
  <2>8. CASE ResetAgain
    BY <2>8 DEF ResetAgain, TaskOver
  <2>9. CASE Target
    BY <2>9 DEF Target
  <2>10. CASE MatchTrack
    BY <2>10 DEF MatchTrack
  <2>11. CASE TargetFails \/ TaskEnds \/ ChildDies \/ WorkerRestarts
    BY <2>11, SMTT(30) DEF TargetFails, TaskEnds, ChildDies, WorkerRestarts, TaskOver
  <2>. QED
    <3>1. ASSUME UNCHANGED <<worker, conf, was>>
          PROVE  WorkerInv'
      BY <2>1, <3>1
    <3>. HIDE DEF CacheTypeOK, WorkerInv, Serves, stored, worker, NoClient, Fingerprint
    <3>. QED
      BY <2>2, <2>3, <2>4, <2>5, <2>6, <2>7, <2>8, <2>9, <2>10, <2>11, <3>1
      DEF CacheNext
<1>3. WorkerInv => WorkerFresh
  BY DEF WorkerInv, WorkerFresh, Serves
<1>. QED BY <1>1, <1>2, <1>3, CacheTypes, PTL DEF CacheSpec

-----------------------------------------------------------------------------
(* The API *)

\* Whether a save has still to reset, or its reset missed something
Owing == missed \/ \E r \in Requests : pc[r] = "saved"

\* A client of superseded settings is in the cache, or about to be put there,
\* only while a reset is owing.
ApiInv ==
    /\ ApiFresh
    /\ \A q \in Requests : pc[q] = "built" /\ inst[q] < conf => Owing

\* The API serves a client of superseded settings only between a save and its
\* reset, after a save that broke off, or when the reset came while a client
\* was being built (target.py 41-82): for any number of requests.
THEOREM ApiIsFresh == CacheSpec => []ApiFresh
<1>. USE TargetCacheAssumption DEF Versions, Eras, Fingerprints
<1>1. CacheInit => ApiInv
  BY DEF CacheInit, ApiInv, ApiFresh
<1>2. CacheTypeOK /\ ApiInv /\ [CacheNext]_cacheVars => ApiInv'
  <2>. SUFFICES ASSUME CacheTypeOK, ApiInv, [CacheNext]_cacheVars
                PROVE  ApiInv'
    OBVIOUS
  <2>. USE DEF CacheTypeOK, ApiInv, ApiFresh, Owing, stored, Goto
  <2>1. ASSUME NEW r \in Requests,
               Get(r) \/ Lock(r) \/ Load(r) \/ LoadFails(r) \/ Store(r) \/ Use(r)
        PROVE  ApiInv'
    <3>1. /\ UNCHANGED <<conf, missed>>
          /\ \A q \in Requests : pc[q] = "saved" <=> pc'[q] = "saved"
      BY <2>1 DEF Get, Lock, Load, LoadFails, Store, Use
    <3>2. Owing <=> Owing'
      BY <3>1
    <3>3. cache' = cache \/ (pc[r] = "built" /\ cache' = inst[r])
      BY <2>1 DEF Get, Lock, Load, LoadFails, Store, Use
    <3>4. \A q \in Requests : pc'[q] = "built" => \/ inst'[q] = conf
                                                  \/ pc[q] = "built" /\ inst'[q] = inst[q]
      BY <2>1 DEF Get, Lock, Load, LoadFails, Store, Use
    <3>. QED BY <3>1, <3>2, <3>3, <3>4
  <2>2. ASSUME NEW r \in Requests, Save(r)
        PROVE  ApiInv'
    <3>1. pc'[r] = "saved"
      BY <2>2 DEF Save
    <3>. QED BY <3>1
  <2>3. ASSUME NEW r \in Requests, SaveBreaksOff(r)
        PROVE  ApiInv'
    BY <2>3 DEF SaveBreaksOff
  <2>4. ASSUME NEW r \in Requests, Reset(r)
        PROVE  ApiInv'
    BY <2>4 DEF Reset
  <2>5. ASSUME NEW r \in Requests, PushRead(r) \/ PushWrite(r)
        PROVE  ApiInv'
    BY <2>5 DEF PushRead, PushWrite
  <2>6. CASE RotateSwitch \/ RotateCommit
    BY <2>6 DEF RotateSwitch, RotateCommit, api
  <2>7. CASE ApiRestarts
    BY <2>7 DEF ApiRestarts
  <2>8. CASE TaskStarts \/ Compare \/ Push \/ ResetAgain
    BY <2>8 DEF TaskStarts, Compare, Push, ResetAgain, api
  <2>9. CASE \/ Target \/ TargetFails \/ TaskEnds
             \/ MatchTrack \/ ChildDies \/ WorkerRestarts
    BY <2>9
    DEF Target, TargetFails, TaskEnds, MatchTrack, ChildDies, WorkerRestarts, api
  <2>10. CASE UNCHANGED cacheVars
    BY <2>10 DEF cacheVars, api
  <2>. QED
    BY <2>1, <2>2, <2>3, <2>4, <2>5, <2>6, <2>7, <2>8, <2>9, <2>10 DEF CacheNext
<1>3. ApiInv => ApiFresh
  BY DEF ApiInv
<1>. QED BY <1>1, <1>2, <1>3, CacheTypes, PTL DEF CacheSpec
=============================================================================
