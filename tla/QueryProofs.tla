----------------------------- MODULE QueryProofs ------------------------------
(***************************************************************************)
(* What one question to an index is answered, for data of any size: the    *)
(* counts of a tree (TreeViews), the list of a hybrid search               *)
(* (HybridSearch), the guards and the meaning of a filter (Filters), the   *)
(* cut of a text that is embedded (Truncate).                              *)
(***************************************************************************)
EXTENDS TreeViews, HybridSearch, Filters, Truncate, FiniteSetTheorems, SequenceTheorems,
        NaturalsInduction, WellFoundedInduction, TLAPS

-----------------------------------------------------------------------------
(* Finite sets. *)

(* A one-to-one function keeps sizes. *)
LEMMA ImageSize ==
  ASSUME NEW I, IsFiniteSet(I), NEW g, \A i, j \in I : g[i] = g[j] => i = j
  PROVE  /\ IsFiniteSet({g[i] : i \in I})
         /\ Cardinality({g[i] : i \in I}) = Cardinality(I)
<1> DEFINE T == {g[i] : i \in I}
           h == [i \in I |-> g[i]]
<1>1. h \in Surjection(I, T) /\ h \in Injection(I, T)
  BY DEF Surjection, Injection, IsInjective
<1> HIDE DEF h
<1> QED
  BY <1>1, FS_Surjection

(* Two finite sets without a common element. *)
LEMMA Apart ==
  ASSUME NEW S, NEW T, IsFiniteSet(S), IsFiniteSet(T), S \cap T = {}
  PROVE  /\ IsFiniteSet(S \cup T)
         /\ Cardinality(S \cup T) = Cardinality(S) + Cardinality(T)
         /\ Cardinality(S) \in Nat /\ Cardinality(T) \in Nat
<1>1. Cardinality(S) \in Nat /\ Cardinality(T) \in Nat
  BY FS_CardinalityType
<1>2. Cardinality(S \cap T) = 0
  BY FS_EmptySet
<1>3. /\ IsFiniteSet(S \cup T)
      /\ Cardinality(S \cup T) = Cardinality(S) + Cardinality(T) - Cardinality(S \cap T)
  BY FS_Union
<1> QED
  BY <1>1, <1>2, <1>3

(* As many numbers as a finite set has members count them.                 *)
LEMMA Counting ==
  ASSUME NEW S, IsFiniteSet(S)
  PROVE  \E f \in [1 .. Cardinality(S) -> S] :
            /\ \A m, n \in 1 .. Cardinality(S) : f[m] = f[n] => m = n
            /\ \A x \in S : \E n \in 1 .. Cardinality(S) : f[n] = x
<1>1. ExistsBijection(1 .. Cardinality(S), S)
  BY FS_CardinalityType, Zenon
<1>2. PICK f \in Bijection(1 .. Cardinality(S), S) : TRUE
  BY <1>1 DEF ExistsBijection
<1>3. /\ f \in [1 .. Cardinality(S) -> S]
      /\ \A m, n \in 1 .. Cardinality(S) : f[m] = f[n] => m = n
      /\ \A x \in S : \E n \in 1 .. Cardinality(S) : f[n] = x
  BY <1>2 DEF Bijection, Injection, Surjection, IsInjective
<1> QED
  BY <1>3

(* Disjoint sets, each as large as a number says: side by side the numbers *)
(* are as many as the members of all.                                      *)
Disjoint(C, L, n) ==
    /\ \A c \in C : IsFiniteSet(L[c]) /\ n[c] = Cardinality(L[c])
    /\ \A c, d \in C : c # d => L[c] \cap L[d] = {}
    /\ IsFiniteSet(UNION {L[c] : c \in C})

LEMMA SideBySide ==
  ASSUME NEW C, NEW L, NEW n, Disjoint(C, L, n)
  PROVE  Cardinality(UNION {{c} \X (1 .. n[c]) : c \in C})
            = Cardinality(UNION {L[c] : c \in C})
<1> DEFINE Counts(c, f) ==
              /\ f \in [1 .. n[c] -> L[c]]
              /\ \A i, j \in 1 .. n[c] : f[i] = f[j] => i = j
              /\ \A x \in L[c] : \E i \in 1 .. n[c] : f[i] = x
           b == [c \in C |-> CHOOSE f : Counts(c, f)]
           All == UNION {L[c] : c \in C}
           Pairs == UNION {{c} \X (1 .. n[c]) : c \in C}
<1>0. /\ \A c \in C : IsFiniteSet(L[c]) /\ n[c] = Cardinality(L[c])
      /\ \A c, d \in C : c # d => L[c] \cap L[d] = {}
      /\ IsFiniteSet(UNION {L[c] : c \in C})
  BY DEF Disjoint
<1>1. \A c \in C : Counts(c, b[c])
  <2> SUFFICES ASSUME NEW c \in C
               PROVE  Counts(c, b[c])
    OBVIOUS
  <2>1. \E f : Counts(c, f)
    <3>1. IsFiniteSet(L[c]) /\ n[c] = Cardinality(L[c])
      BY <1>0
    <3>2. PICK f \in [1 .. Cardinality(L[c]) -> L[c]] :
            /\ \A i, j \in 1 .. Cardinality(L[c]) : f[i] = f[j] => i = j
            /\ \A x \in L[c] : \E i \in 1 .. Cardinality(L[c]) : f[i] = x
      BY <3>1, Counting
    <3>3. Counts(c, f)
      BY <3>1, <3>2
    <3> HIDE DEF Counts
    <3> QED
      BY <3>3
  <2>2. Counts(c, CHOOSE f : Counts(c, f))
    <3> HIDE DEF Counts
    <3> QED
      BY <2>1
  <2> HIDE DEF Counts
  <2> QED
    BY <2>2
<1> HIDE DEF b
<1> DEFINE h == [p \in Pairs |-> b[p[1]][p[2]]]
<1>2. \A p \in Pairs : p[1] \in C /\ p[2] \in 1 .. n[p[1]] /\ p = <<p[1], p[2]>>
  OBVIOUS
<1>3. \A p \in Pairs : h[p] \in L[p[1]]
  <2> SUFFICES ASSUME NEW p \in Pairs
               PROVE  b[p[1]][p[2]] \in L[p[1]]
    OBVIOUS
  <2>1. p[1] \in C /\ p[2] \in 1 .. n[p[1]]
    BY <1>2
  <2>2. b[p[1]] \in [1 .. n[p[1]] -> L[p[1]]]
    BY <1>1, <2>1
  <2> QED
    BY <2>1, <2>2
<1>4. \A p, q \in Pairs : h[p] = h[q] => p = q
  <2> SUFFICES ASSUME NEW p \in Pairs, NEW q \in Pairs, h[p] = h[q]
               PROVE  p = q
    OBVIOUS
  <2>1. p[1] = q[1]
    BY <1>0, <1>2, <1>3
  <2>2. p[2] = q[2]
    BY <1>1, <1>2, <2>1
  <2> QED
    BY <1>2, <2>1, <2>2
<1>5. \A x \in All : \E p \in Pairs : h[p] = x
  <2> SUFFICES ASSUME NEW c \in C, NEW x \in L[c]
               PROVE  \E p \in Pairs : h[p] = x
    OBVIOUS
  <2>1. PICK i \in 1 .. n[c] : b[c][i] = x
    BY <1>1
  <2>2. <<c, i>> \in Pairs
    OBVIOUS
  <2>3. h[<<c, i>>] = x
    BY <2>1, <2>2
  <2> QED
    BY <2>2, <2>3
<1>6. h \in Injection(Pairs, All) /\ h \in Surjection(Pairs, All)
  <2>1. \A p \in Pairs : h[p] \in All
    BY <1>2, <1>3
  <2>2. h \in [Pairs -> All]
    <3> HIDE DEF Pairs, All
    <3> QED
      BY <2>1
  <2> HIDE DEF h, Pairs, All
  <2> QED
    BY <1>4, <1>5, <2>2 DEF Injection, Surjection, IsInjective
<1> HIDE DEF h, Pairs, All
<1>7. IsFiniteSet(Pairs) /\ Cardinality(Pairs) = Cardinality(All)
  <2>1. IsFiniteSet(All)
    BY <1>0 DEF All
  <2> QED
    BY <1>6, <2>1, FS_Injection
<1> QED
  BY <1>7 DEF Pairs, All

-----------------------------------------------------------------------------
(* TreeViews: paths. *)

LEMMA TreeIsSeq ==
  ASSUME NEW t \in Tree
  PROVE  t \in Seq(Label) /\ Len(t) \in 0 .. Depth /\ DOMAIN t = 1 .. Len(t)
BY TreeAssumptions DEF Tree, SeqOf

LEMMA CutPath ==
  ASSUME NEW t \in Tree, NEW n \in 0 .. Len(t)
  PROVE  /\ SubSeq(t, 1, n) \in Tree /\ Len(SubSeq(t, 1, n)) = n
         /\ \A i \in 1 .. n : SubSeq(t, 1, n)[i] = t[i]
<1>1. t \in Seq(Label) /\ Len(t) \in 0 .. Depth /\ n \in Nat /\ n \in 0 .. Depth
  BY TreeIsSeq, TreeAssumptions
<1>2. \A i \in 1 .. n : t[i] \in Label
  BY <1>1
<1>3. /\ SubSeq(t, 1, n) \in Seq(Label) /\ Len(SubSeq(t, 1, n)) = n
      /\ \A i \in 1 .. n : SubSeq(t, 1, n)[i] = t[i]
  <2>1. /\ SubSeq(t, 1, n) \in Seq(Label)
        /\ Len(SubSeq(t, 1, n)) = IF 1 <= n THEN n - 1 + 1 ELSE 0
        /\ \A i \in 1 .. n - 1 + 1 : SubSeq(t, 1, n)[i] = t[1 + i - 1]
    BY <1>1, <1>2, 1 \in Int, n \in Int, SubSeqProperties
  <2> QED
    BY <1>1, <2>1
<1>4. SubSeq(t, 1, n) \in [1 .. n -> Label]
  BY <1>3, LenProperties
<1> QED
  BY <1>1, <1>3, <1>4 DEF Tree, SeqOf

LEMMA SamePath ==
  ASSUME NEW s \in Tree, NEW t \in Tree, Len(s) = Len(t),
         \A i \in 1 .. Len(s) : s[i] = t[i]
  PROVE  s = t
BY TreeIsSeq, SeqEqual

(* One path lies on another exactly if it is one of its beginnings.        *)
LEMMA OnTheWay ==
  ASSUME NEW s \in Tree, NEW t \in Tree
  PROVE  /\ IsPrefix(s, t) <=> Len(s) <= Len(t) /\ \A i \in 1 .. Len(s) : s[i] = t[i]
         /\ \A n \in 0 .. Len(t) : SubSeq(t, 1, n) = s <=> n = Len(s) /\ IsPrefix(s, t)
<1>1. Len(s) \in Nat /\ Len(t) \in Nat
  BY TreeIsSeq
<1>2. SubSeq(s, 1, Len(s)) = s
  BY TreeIsSeq, SubSeqFull
<1>3. ASSUME Len(s) <= Len(t)
      PROVE  SubSeq(t, 1, Len(s)) = s <=> \A i \in 1 .. Len(s) : s[i] = t[i]
  <2>1. Len(s) \in 0 .. Len(t)
    BY <1>1, <1>3
  <2>2. /\ SubSeq(t, 1, Len(s)) \in Tree /\ Len(SubSeq(t, 1, Len(s))) = Len(s)
        /\ \A i \in 1 .. Len(s) : SubSeq(t, 1, Len(s))[i] = t[i]
    BY <2>1, CutPath
  <2>3. (\A i \in 1 .. Len(s) : s[i] = t[i]) => SubSeq(t, 1, Len(s)) = s
    BY <2>2, SamePath
  <2> QED
    BY <2>2, <2>3
<1>4. IsPrefix(s, t) <=> Len(s) <= Len(t) /\ \A i \in 1 .. Len(s) : s[i] = t[i]
  BY <1>2, <1>3 DEF IsPrefix
<1>5. ASSUME NEW n \in 0 .. Len(t)
      PROVE  SubSeq(t, 1, n) = s <=> n = Len(s) /\ IsPrefix(s, t)
  <2>1. Len(SubSeq(t, 1, n)) = n
    BY CutPath
  <2> QED
    BY <1>1, <1>3, <1>4, <2>1
<1> QED
  BY <1>4, <1>5

(* The records that are shown at a node at all. *)
Passed(last, t) == {i \in DOMAIN last : IsPrefix(t, tree[i]) /\ Len(t) <= last[i]}

Shown(first, last) == {t \in Tree : first <= Len(t) /\ Passed(last, t) # {}}

(* Expanding records to the nodes above them counts each at every node of  *)
(* its path between the first depth and the last.                          *)
LEMMA ExpandCounts ==
  ASSUME NEW first \in Nat, NEW last, DOMAIN last \subseteq Id,
         \A i \in DOMAIN last : tree[i] \in Tree /\ last[i] \in 0 .. Len(tree[i])
  PROVE  Expand(first, last)
            = {[tree |-> t, count |-> Cardinality(Passed(last, t))] : t \in Shown(first, last)}
<1> DEFINE above == {p \in (DOMAIN last) \X (first .. Depth) : p[2] <= last[p[1]]}
<1>1. ASSUME NEW i \in DOMAIN last, NEW n \in first .. Depth, n <= last[i]
      PROVE  /\ n \in 0 .. Len(tree[i]) /\ Prefix(<<i, n>>) \in Tree
             /\ Len(Prefix(<<i, n>>)) = n /\ IsPrefix(Prefix(<<i, n>>), tree[i])
             /\ \A t \in Tree : Prefix(<<i, n>>) = t <=> n = Len(t) /\ IsPrefix(t, tree[i])
  <2>1. tree[i] \in Tree /\ last[i] \in 0 .. Len(tree[i]) /\ Len(tree[i]) \in Nat
    BY TreeIsSeq
  <2>2. n \in 0 .. Len(tree[i]) /\ Prefix(<<i, n>>) = SubSeq(tree[i], 1, n)
    BY <1>1, <2>1, TreeAssumptions DEF Prefix
  <2>3. SubSeq(tree[i], 1, n) \in Tree /\ Len(SubSeq(tree[i], 1, n)) = n
    BY <2>1, <2>2, CutPath
  <2>4. \A t \in Tree : SubSeq(tree[i], 1, n) = t <=> n = Len(t) /\ IsPrefix(t, tree[i])
    BY <2>1, <2>2, OnTheWay
  <2> QED
    BY <2>2, <2>3, <2>4
<1>2. ASSUME NEW t \in Shown(first, last)
      PROVE  Grouped(above, t) = Cardinality(Passed(last, t))
  <2> DEFINE g == [i \in Passed(last, t) |-> <<i, Len(t)>>]
  <2>1. t \in Tree /\ first <= Len(t) /\ Len(t) \in first .. Depth
    BY TreeIsSeq, TreeAssumptions DEF Shown
  <2>2. {p \in above : Prefix(p) = t} = {g[i] : i \in Passed(last, t)}
    <3>1. ASSUME NEW p \in above, Prefix(p) = t
          PROVE  p[1] \in Passed(last, t) /\ p = g[p[1]]
      <4>1. p = <<p[1], p[2]>> /\ p[1] \in DOMAIN last /\ p[2] \in first .. Depth
            /\ p[2] <= last[p[1]]
        OBVIOUS
      <4>2. p[2] = Len(t) /\ IsPrefix(t, tree[p[1]])
        BY <1>1, <2>1, <3>1, <4>1
      <4> QED
        BY <4>1, <4>2 DEF Passed
    <3>2. ASSUME NEW i \in Passed(last, t)
          PROVE  g[i] \in above /\ Prefix(g[i]) = t
      <4>1. i \in DOMAIN last /\ IsPrefix(t, tree[i]) /\ Len(t) <= last[i]
        BY DEF Passed
      <4>2. g[i] = <<i, Len(t)>>
        OBVIOUS
      <4> QED
        BY <1>1, <2>1, <4>1, <4>2
    <3>3. ASSUME NEW x
          PROVE  x \in {p \in above : Prefix(p) = t} <=> \E i \in Passed(last, t) : x = g[i]
      <4> HIDE DEF above, g
      <4> QED
        BY <3>1, <3>2
    <3> HIDE DEF above, g
    <3> QED
      BY <3>3
  <2>3. IsFiniteSet(Passed(last, t))
    BY TreeAssumptions, FS_Subset DEF Passed
  <2>4. \A i, j \in Passed(last, t) : g[i] = g[j] => i = j
    OBVIOUS
  <2> HIDE DEF g
  <2>5. Cardinality({g[i] : i \in Passed(last, t)}) = Cardinality(Passed(last, t))
    BY <2>3, <2>4, ImageSize
  <2> QED
    BY <2>2, <2>5 DEF Grouped
<1>3. {Prefix(p) : p \in above} = Shown(first, last)
  <2>1. ASSUME NEW p \in above
        PROVE  Prefix(p) \in Shown(first, last)
    <3>1. p = <<p[1], p[2]>> /\ p[1] \in DOMAIN last /\ p[2] \in first .. Depth
          /\ p[2] <= last[p[1]]
      OBVIOUS
    <3>2. /\ Prefix(p) \in Tree /\ Len(Prefix(p)) = p[2]
          /\ IsPrefix(Prefix(p), tree[p[1]])
      BY <1>1, <3>1
    <3> QED
      BY <3>1, <3>2, TreeAssumptions DEF Shown, Passed
  <2>2. ASSUME NEW t \in Shown(first, last)
        PROVE  \E p \in above : Prefix(p) = t
    <3>1. PICK i \in DOMAIN last : IsPrefix(t, tree[i]) /\ Len(t) <= last[i]
      BY DEF Shown, Passed
    <3>2. t \in Tree /\ Len(t) \in first .. Depth
      BY TreeIsSeq, TreeAssumptions DEF Shown
    <3>3. <<i, Len(t)>> \in above /\ Prefix(<<i, Len(t)>>) = t
      BY <1>1, <3>1, <3>2
    <3> QED
      BY <3>3
  <2> QED
    BY <2>1, <2>2
<1>4. Expand(first, last)
        = {[tree |-> t, count |-> Grouped(above, t)] : t \in {Prefix(p) : p \in above}}
  BY Zenon DEF Expand
<1> HIDE DEF above
<1>5. Expand(first, last) = {[tree |-> t, count |-> Grouped(above, t)] : t \in Shown(first, last)}
  BY <1>3, <1>4
<1> QED
  BY <1>2, <1>5

(* A beginning of a beginning is one, and of two beginnings of a path the  *)
(* shorter is one of the longer.                                           *)
LEMMA BeginningsNest ==
  ASSUME NEW s \in Tree, NEW t \in Tree, NEW u \in Tree, IsPrefix(t, u)
  PROVE  /\ IsPrefix(s, t) => IsPrefix(s, u)
         /\ IsPrefix(s, u) /\ Len(s) <= Len(t) => IsPrefix(s, t)
<1>1. Len(s) \in Nat /\ Len(t) \in Nat /\ Len(u) \in Nat
  BY TreeIsSeq
<1>2. Len(t) <= Len(u) /\ \A i \in 1 .. Len(t) : t[i] = u[i]
  BY OnTheWay
<1>3. ASSUME IsPrefix(s, t)
      PROVE  IsPrefix(s, u)
  <2>1. Len(s) <= Len(t) /\ \A i \in 1 .. Len(s) : s[i] = t[i]
    BY <1>3, OnTheWay
  <2>2. Len(s) <= Len(u) /\ \A i \in 1 .. Len(s) : s[i] = u[i]
    BY <1>1, <1>2, <2>1
  <2> QED
    BY <2>2, OnTheWay
<1>4. ASSUME IsPrefix(s, u), Len(s) <= Len(t)
      PROVE  IsPrefix(s, t)
  <2>1. \A i \in 1 .. Len(s) : s[i] = u[i]
    BY <1>4, OnTheWay
  <2>2. \A i \in 1 .. Len(s) : s[i] = t[i]
    BY <1>1, <1>2, <1>4, <2>1
  <2> QED
    BY <1>4, <2>2, OnTheWay
<1> QED
  BY <1>3, <1>4

-----------------------------------------------------------------------------
(* TreeViews: the three answers. *)

RecordsHaveTrees == tree \in [Id -> Tree \cup {Nowhere}]

LEMMA UnderIsFinite ==
  ASSUME RecordsHaveTrees, NEW base
  PROVE  /\ Under(base) \subseteq Id /\ \A i \in Under(base) : tree[i] \in Tree
         /\ IsFiniteSet(Under(base)) /\ Cardinality(Under(base)) \in Nat
<1>1. Under(base) \in SUBSET Id /\ \A i \in Under(base) : tree[i] \in Tree
  BY DEF Under, RecordsHaveTrees
<1>2. IsFiniteSet(Under(base))
  BY <1>1, TreeAssumptions, FS_Subset
<1> QED
  BY <1>1, <1>2, FS_CardinalityType

(* The nodes a view shows, as its caller understands it.                   *)
InView(base, levels) ==
    {t \in Tree : /\ IsPrefix(base, t) /\ Under(t) # {}
                  /\ levels = Unlimited \/ Len(t) <= Len(base) + levels}

LEMMA ViewShowsSubtrees ==
  ASSUME RecordsHaveTrees, NEW base \in Tree, NEW levels \in 0 .. Depth \cup {Unlimited}
  PROVE  Expand(Len(base), [i \in Under(base) |-> Deepest(base, levels, i)])
            = {[tree |-> t, count |-> Cardinality(Under(t))] : t \in InView(base, levels)}
<1> DEFINE last == [i \in Under(base) |-> Deepest(base, levels, i)]
<1>1. Len(base) \in Nat /\ (levels # Unlimited => levels \in Nat)
  BY TreeIsSeq, TreeAssumptions
<1>2. DOMAIN last = Under(base) /\ Under(base) \subseteq Id
  BY UnderIsFinite
<1>3. ASSUME NEW i \in Under(base)
      PROVE  /\ tree[i] \in Tree /\ IsPrefix(base, tree[i])
             /\ Len(base) <= Len(tree[i]) /\ Len(tree[i]) \in Nat
             /\ last[i] \in 0 .. Len(tree[i])
             /\ \A n \in 0 .. Len(tree[i]) :
                   n <= last[i] <=> levels = Unlimited \/ n <= Len(base) + levels
  <2>1. tree[i] \in Tree /\ IsPrefix(base, tree[i])
    BY UnderIsFinite DEF Under
  <2>2. Len(base) <= Len(tree[i]) /\ Len(tree[i]) \in Nat
    BY <2>1, TreeIsSeq DEF IsPrefix
  <2>3. last[i] = IF levels = Unlimited \/ Len(tree[i]) < Len(base) + levels
                  THEN Len(tree[i]) ELSE Len(base) + levels
    BY DEF Deepest
  <2> HIDE DEF last
  <2> QED
    BY <1>1, <2>1, <2>2, <2>3
<1>4. ASSUME NEW t \in Tree, NEW i \in Id
      PROVE  i \in Passed(last, t) /\ Len(base) <= Len(t)
               <=> /\ IsPrefix(base, t) /\ i \in Under(t)
                   /\ levels = Unlimited \/ Len(t) <= Len(base) + levels
  <2>1. Len(t) \in Nat
    BY TreeIsSeq
  <2>2. ASSUME i \in Passed(last, t), Len(base) <= Len(t)
        PROVE  /\ IsPrefix(base, t) /\ i \in Under(t)
               /\ levels = Unlimited \/ Len(t) <= Len(base) + levels
    <3>1. i \in Under(base) /\ IsPrefix(t, tree[i]) /\ Len(t) <= last[i]
      BY <1>2, <2>2 DEF Passed
    <3>2. tree[i] \in Tree /\ IsPrefix(base, tree[i]) /\ Len(tree[i]) \in Nat
      BY <1>3, <3>1
    <3>3. IsPrefix(base, t)
      BY <2>2, <3>1, <3>2, BeginningsNest
    <3>4. i \in Under(t)
      BY <3>1 DEF Under
    <3>5. Len(t) \in 0 .. Len(tree[i])
      BY <2>1, <3>1, <3>2 DEF IsPrefix
    <3> HIDE DEF last
    <3> QED
      BY <1>3, <3>1, <3>3, <3>4, <3>5
  <2>3. ASSUME IsPrefix(base, t), i \in Under(t),
               levels = Unlimited \/ Len(t) <= Len(base) + levels
        PROVE  i \in Passed(last, t) /\ Len(base) <= Len(t)
    <3>1. tree[i] \in Tree /\ IsPrefix(t, tree[i])
      BY <2>3, UnderIsFinite DEF Under
    <3>2. IsPrefix(base, tree[i])
      BY <2>3, <3>1, BeginningsNest
    <3>3. i \in Under(base)
      BY <2>3, <3>2 DEF Under
    <3>4. Len(t) \in 0 .. Len(tree[i]) /\ Len(base) <= Len(t)
      BY <1>1, <1>3, <2>1, <2>3, <3>1, <3>3 DEF IsPrefix
    <3>5. Len(t) <= last[i]
      <4> HIDE DEF last
      <4> QED
        BY <1>3, <2>3, <3>3, <3>4
    <3> HIDE DEF last
    <3> QED
      BY <1>2, <3>1, <3>3, <3>4, <3>5 DEF Passed
  <2> HIDE DEF last
  <2> QED
    BY <2>2, <2>3
<1>5. \A t \in Tree : Passed(last, t) \subseteq Id /\ Under(t) \subseteq Id
  <2> HIDE DEF last
  <2> QED
    BY <1>2, UnderIsFinite DEF Passed
<1> HIDE DEF last
<1>6. Shown(Len(base), last) = InView(base, levels)
  <2> SUFFICES ASSUME NEW t \in Tree
               PROVE  Len(base) <= Len(t) /\ Passed(last, t) # {}
                        <=> /\ IsPrefix(base, t) /\ Under(t) # {}
                            /\ levels = Unlimited \/ Len(t) <= Len(base) + levels
    BY DEF Shown, InView
  <2> QED
    BY <1>4, <1>5
<1>7. \A t \in InView(base, levels) : Passed(last, t) = Under(t)
  <2> SUFFICES ASSUME NEW t \in InView(base, levels), NEW i \in Id
               PROVE  i \in Passed(last, t) <=> i \in Under(t)
    BY <1>5 DEF InView
  <2>1. /\ t \in Tree /\ IsPrefix(base, t)
        /\ levels = Unlimited \/ Len(t) <= Len(base) + levels
    BY DEF InView
  <2>2. Len(base) <= Len(t)
    BY <2>1 DEF IsPrefix
  <2> QED
    BY <1>4, <2>1, <2>2
<1>8. Expand(Len(base), last)
        = {[tree |-> t, count |-> Cardinality(Passed(last, t))] : t \in Shown(Len(base), last)}
  BY <1>1, <1>2, <1>3, ExpandCounts
<1>9. Expand(Len(base), last)
        = {[tree |-> t, count |-> Cardinality(Under(t))] : t \in InView(base, levels)}
  BY <1>6, <1>7, <1>8
<1> QED
  BY <1>9 DEF last

(* The matching records at a node and below it.                            *)
Below(matched, t) == {i \in Id : tree[i] \in Tree \cap matched /\ IsPrefix(t, tree[i])}

ListNodes(matched) == {t \in Tree : 1 <= Len(t) /\ Below(matched, t) # {}}

ListRows(matched) ==
    {[tree |-> t, count |-> Cardinality(Below(matched, t))] : t \in ListNodes(matched)}

LEMMA BelowIsFinite ==
  ASSUME NEW matched, NEW t
  PROVE  IsFiniteSet(Below(matched, t)) /\ Cardinality(Below(matched, t)) \in Nat
<1>1. IsFiniteSet(Below(matched, t))
  BY TreeAssumptions, FS_Subset DEF Below
<1> QED
  BY <1>1, FS_CardinalityType

LEMMA ListCountsBelow ==
  ASSUME RecordsHaveTrees, NEW matched \in SUBSET Tree
  PROVE  Expand(1, [i \in {i \in Id : tree[i] # Nowhere /\ tree[i] \in matched} |-> Len(tree[i])])
            = ListRows(matched)
<1> DEFINE listed == {i \in Id : tree[i] # Nowhere /\ tree[i] \in matched}
           last == [i \in listed |-> Len(tree[i])]
<1>1. \A i \in listed : /\ i \in Id /\ tree[i] \in Tree \cap matched
                        /\ last[i] = Len(tree[i]) /\ last[i] \in 0 .. Len(tree[i])
  BY TreeIsSeq
<1>2. \A t \in Tree : Passed(last, t) = Below(matched, t)
  <2> SUFFICES ASSUME NEW t \in Tree, NEW i \in Id
               PROVE  i \in Passed(last, t) <=> i \in Below(matched, t)
    <3>1. DOMAIN last \subseteq Id
      OBVIOUS
    <3> HIDE DEF last
    <3> QED
      BY <3>1 DEF Passed, Below
  <2>1. i \in listed <=> tree[i] \in Tree \cap matched
    BY TreeAssumptions DEF Tree
  <2>2. i \in listed => (IsPrefix(t, tree[i]) => Len(t) <= last[i])
    BY DEF IsPrefix
  <2>3. DOMAIN last = listed
    OBVIOUS
  <2> HIDE DEF last, listed
  <2> QED
    BY <2>1, <2>2, <2>3 DEF Passed, Below
<1>3. DOMAIN last \subseteq Id /\ DOMAIN last = listed
  OBVIOUS
<1> HIDE DEF last, listed
<1>4. Expand(1, last) = {[tree |-> t, count |-> Cardinality(Passed(last, t))] : t \in Shown(1, last)}
  BY <1>1, <1>3, 1 \in Nat, ExpandCounts
<1>5. Shown(1, last) = ListNodes(matched)
  BY <1>2 DEF Shown, ListNodes
<1>6. \A t \in ListNodes(matched) : Passed(last, t) = Below(matched, t)
  BY <1>2 DEF ListNodes
<1>7. Expand(1, last) = ListRows(matched)
  BY <1>4, <1>5, <1>6 DEF ListRows
<1> QED
  BY <1>7 DEF last, listed

(* A path with one more label than t that is on the way from t to u.       *)
LEMMA OneFurther ==
  ASSUME NEW t \in Tree, NEW u \in Tree, IsPrefix(t, u), t # u
  PROVE  \E c \in Tree : Len(c) = Len(t) + 1 /\ IsPrefix(t, c) /\ IsPrefix(c, u)
<1> DEFINE c == SubSeq(u, 1, Len(t) + 1)
<1>1. Len(t) \in Nat /\ Len(u) \in Nat
  BY TreeIsSeq
<1>2. Len(t) <= Len(u) /\ \A i \in 1 .. Len(t) : t[i] = u[i]
  BY OnTheWay
<1>3. Len(t) # Len(u)
  BY <1>2, SamePath
<1>4. Len(t) + 1 \in 0 .. Len(u)
  BY <1>1, <1>2, <1>3
<1>5. c \in Tree /\ Len(c) = Len(t) + 1
  BY <1>4, CutPath
<1>6. IsPrefix(c, u)
  BY <1>4, <1>5, OnTheWay
<1>7. IsPrefix(t, c)
  <2>1. Len(t) <= Len(c)
    BY <1>1, <1>5
  <2> HIDE DEF c
  <2> QED
    BY <1>5, <1>6, <2>1, BeginningsNest
<1> HIDE DEF c
<1> QED
  BY <1>5, <1>6, <1>7

Nearest(matched, t) == {c \in ListNodes(matched) : Len(c) = Len(t) + 1 /\ IsPrefix(t, c)}

(* What is below a node is at it, or below exactly one of its children.    *)
LEMMA BelowSplits ==
  ASSUME NEW matched, NEW t \in Tree
  PROVE  /\ Below(matched, t) = (UNION {Below(matched, c) : c \in Nearest(matched, t)})
                                  \cup (IF t \in matched THEN At(t) ELSE {})
         /\ (UNION {Below(matched, c) : c \in Nearest(matched, t)}) \cap At(t) = {}
         /\ \A c, d \in Nearest(matched, t) :
               c # d => Below(matched, c) \cap Below(matched, d) = {}
<1> DEFINE C == Nearest(matched, t)
<1>1. Len(t) \in Nat
  BY TreeIsSeq
<1>2. \A c \in C : c \in Tree /\ Len(c) = Len(t) + 1 /\ IsPrefix(t, c)
  BY DEF Nearest, ListNodes
<1>3. \A c \in C : \A i \in Below(matched, c) : i \in Below(matched, t) /\ tree[i] # t
  <2> SUFFICES ASSUME NEW c \in C, NEW i \in Below(matched, c)
               PROVE  i \in Below(matched, t) /\ tree[i] # t
    OBVIOUS
  <2>1. i \in Id /\ tree[i] \in Tree /\ tree[i] \in matched /\ IsPrefix(c, tree[i])
    BY DEF Below
  <2>2. IsPrefix(t, tree[i])
    BY <1>2, <2>1, BeginningsNest
  <2>3. Len(c) <= Len(tree[i])
    BY <2>1 DEF IsPrefix
  <2>4. tree[i] # t
    BY <1>1, <1>2, <2>3
  <2> QED
    BY <2>1, <2>2, <2>4 DEF Below
<1>4. \A i \in Below(matched, t) : tree[i] # t => \E c \in C : i \in Below(matched, c)
  <2> SUFFICES ASSUME NEW i \in Below(matched, t), tree[i] # t
               PROVE  \E c \in C : i \in Below(matched, c)
    OBVIOUS
  <2>1. i \in Id /\ tree[i] \in Tree /\ tree[i] \in matched /\ IsPrefix(t, tree[i])
    BY DEF Below
  <2>2. PICK c \in Tree : Len(c) = Len(t) + 1 /\ IsPrefix(t, c) /\ IsPrefix(c, tree[i])
    BY <2>1, OneFurther
  <2>3. i \in Below(matched, c)
    BY <2>1, <2>2 DEF Below
  <2>4. 1 <= Len(c)
    BY <1>1, <2>2
  <2>5. c \in C
    BY <2>2, <2>3, <2>4 DEF Nearest, ListNodes
  <2> QED
    BY <2>3, <2>5
<1>5. \A i \in Below(matched, t) : tree[i] = t => t \in matched /\ i \in At(t)
  BY DEF Below, At
<1>6. \A i \in At(t) : t \in matched => i \in Below(matched, t)
  <2>1. IsPrefix(t, t)
    BY <1>1 DEF IsPrefix
  <2> QED
    BY <2>1 DEF Below, At
<1>7. \A i \in At(t) : tree[i] = t
  BY DEF At
<1>8. \A c, d \in C : c # d => Below(matched, c) \cap Below(matched, d) = {}
  <2> SUFFICES ASSUME NEW c \in C, NEW d \in C, NEW i \in Below(matched, c),
                      i \in Below(matched, d)
               PROVE  c = d
    OBVIOUS
  <2>1. tree[i] \in Tree /\ IsPrefix(c, tree[i]) /\ IsPrefix(d, tree[i])
    BY DEF Below
  <2>2. /\ \A k \in 1 .. Len(c) : c[k] = tree[i][k]
        /\ \A k \in 1 .. Len(d) : d[k] = tree[i][k]
    BY <1>2, <2>1, OnTheWay
  <2>3. Len(c) = Len(d) /\ \A k \in 1 .. Len(c) : c[k] = d[k]
    BY <1>2, <2>2
  <2> QED
    BY <1>2, <2>3, SamePath
<1> HIDE DEF C
<1>9. Below(matched, t) = (UNION {Below(matched, c) : c \in C})
                            \cup (IF t \in matched THEN At(t) ELSE {})
  BY <1>3, <1>4, <1>5, <1>6
<1>10. (UNION {Below(matched, c) : c \in C}) \cap At(t) = {}
  BY <1>3, <1>7
<1> QED
  BY <1>8, <1>9, <1>10 DEF C

LEMMA ListingIsRight ==
  ASSUME RecordsHaveTrees, asked.kind = "list", asked.matched \in SUBSET Tree,
         rows = ListRows(asked.matched)
  PROVE  ListingAddsUp
<1> DEFINE M == asked.matched
           L(t) == Below(M, t)
<1>1. \A r \in rows : /\ r.tree \in ListNodes(M) /\ r.count = Cardinality(L(r.tree))
                      /\ r = [tree |-> r.tree, count |-> Cardinality(L(r.tree))]
  BY DEF ListRows
<1>2. \A t \in ListNodes(M) : \E r \in rows : r.tree = t
  <2> SUFFICES ASSUME NEW t \in ListNodes(M)
               PROVE  \E r \in rows : r.tree = t
    OBVIOUS
  <2>1. [tree |-> t, count |-> Cardinality(L(t))] \in rows
    BY DEF ListRows
  <2>2. [tree |-> t, count |-> Cardinality(L(t))].tree = t
    OBVIOUS
  <2> HIDE DEF L
  <2> QED
    BY <2>1, <2>2
<1>3. \A t \in ListNodes(M) : t \in Tree /\ 1 <= Len(t) /\ L(t) # {}
  BY DEF ListNodes
<1> HIDE DEF L
<1>4. \A t : IsFiniteSet(L(t)) /\ Cardinality(L(t)) \in Nat
  BY BelowIsFinite DEF L
<1>5. \A t \in ListNodes(M) : CountAt(t) = Cardinality(L(t)) /\ CountAt(t) > 0
  <2> SUFFICES ASSUME NEW t \in ListNodes(M)
               PROVE  CountAt(t) = Cardinality(L(t)) /\ CountAt(t) > 0
    OBVIOUS
  <2>1. (CHOOSE r \in rows : r.tree = t) \in rows /\ (CHOOSE r \in rows : r.tree = t).tree = t
    BY <1>2
  <2>2. CountAt(t) = Cardinality(L(t))
    BY <1>1, <1>2, <2>1 DEF CountAt
  <2>3. Cardinality(L(t)) # 0
    BY <1>3, <1>4, FS_EmptySet
  <2> QED
    BY <1>4, <2>2, <2>3
<1>6. \A t \in Tree : Children(t) = Nearest(M, t)
  <2> SUFFICES ASSUME NEW t \in Tree, NEW c
               PROVE  c \in Children(t) <=> c \in Nearest(M, t)
    OBVIOUS
  <2>1. c \in Children(t) => c \in Nearest(M, t)
    BY <1>1 DEF Children, Nearest
  <2>2. c \in Nearest(M, t) => c \in Children(t)
    BY <1>2 DEF Children, Nearest
  <2> QED
    BY <2>1, <2>2
<1>7. ASSUME NEW t \in ListNodes(M)
      PROVE  Cardinality(L(t)) = SumOver(Children(t))
                                   + (IF t \in M THEN Cardinality(At(t)) ELSE 0)
  <2> DEFINE C == Nearest(M, t)
             All == UNION {L(c) : c \in C}
             Here == IF t \in M THEN At(t) ELSE {}
  <2>1. C \subseteq ListNodes(M) /\ t \in Tree
    BY <1>3 DEF Nearest
  <2>2. /\ L(t) = All \cup Here /\ All \cap At(t) = {}
        /\ \A c, d \in C : c # d => L(c) \cap L(d) = {}
    BY <2>1, BelowSplits DEF L
  <2>3. All \cap Here = {}
    BY <2>2
  <2> HIDE DEF C, All, Here
  <2>4. IsFiniteSet(All) /\ IsFiniteSet(Here)
    <3>1. All \in SUBSET L(t) /\ Here \in SUBSET L(t)
      BY <2>2
    <3> QED
      BY <1>4, <3>1, FS_Subset
  <2>5. Cardinality(L(t)) = Cardinality(All) + Cardinality(Here)
    BY <2>2, <2>3, <2>4, Apart
  <2>6. Cardinality(Here) = IF t \in M THEN Cardinality(At(t)) ELSE 0
    BY FS_EmptySet DEF Here
  <2>7. SumOver(C) = Cardinality(All)
    <3> DEFINE l == [c \in C |-> L(c)]
               n == [c \in C |-> CountAt(c)]
    <3>1. \A c \in C : IsFiniteSet(l[c]) /\ n[c] = Cardinality(l[c])
      BY <1>4, <1>5, <2>1
    <3>2. \A c, d \in C : c # d => l[c] \cap l[d] = {}
      BY <2>2
    <3>3. UNION {l[c] : c \in C} = All
      BY DEF All
    <3>4. UNION {{c} \X (1 .. n[c]) : c \in C} = UNION {{c} \X (1 .. CountAt(c)) : c \in C}
      <4>1. \A c \in C : n[c] = CountAt(c)
        OBVIOUS
      <4> HIDE DEF n
      <4>2. {{c} \X (1 .. n[c]) : c \in C} = {{c} \X (1 .. CountAt(c)) : c \in C}
        BY <4>1
      <4> QED
        BY <4>2
    <3> HIDE DEF l, n
    <3>5. Cardinality(UNION {{c} \X (1 .. n[c]) : c \in C}) = Cardinality(UNION {l[c] : c \in C})
      <4>1. IsFiniteSet(UNION {l[c] : c \in C})
        BY <2>4, <3>3
      <4>2. Disjoint(C, l, n)
        BY <3>1, <3>2, <4>1, Zenon DEF Disjoint
      <4> QED
        BY <4>2, SideBySide
    <3> QED
      BY <3>3, <3>4, <3>5 DEF SumOver
  <2>8. Children(t) = C
    BY <1>6, <2>1 DEF C
  <2> QED
    BY <2>5, <2>6, <2>7, <2>8
<1>8. \A r \in rows : r.tree # <<>>
        /\ r.count = SumOver(Children(r.tree))
                       + (IF r.tree \in M THEN Cardinality(At(r.tree)) ELSE 0)
  <2> SUFFICES ASSUME NEW r \in rows
               PROVE  r.tree # <<>>
                      /\ r.count = SumOver(Children(r.tree))
                                     + (IF r.tree \in M THEN Cardinality(At(r.tree)) ELSE 0)
    OBVIOUS
  <2>1. r.tree \in ListNodes(M) /\ r.count = Cardinality(L(r.tree))
    BY <1>1
  <2>2. r.tree # <<>>
    BY <1>3, <2>1, EmptySeq
  <2>3. Cardinality(L(r.tree)) = SumOver(Children(r.tree))
                                   + (IF r.tree \in M THEN Cardinality(At(r.tree)) ELSE 0)
    BY <1>7, <2>1
  <2> QED
    BY <2>1, <2>2, <2>3
<1>9. \A r, s \in rows : r.tree = s.tree => r = s
  BY <1>1
<1>10. ASSUME NEW i \in Id, tree[i] \in M \ {<<>>}, NEW n \in 1 .. Len(tree[i])
       PROVE  CountAt(SubSeq(tree[i], 1, n)) > 0
  <2> DEFINE t == SubSeq(tree[i], 1, n)
  <2>1. tree[i] \in Tree /\ Len(tree[i]) \in Nat
    BY <1>10, TreeIsSeq
  <2>2. n \in 0 .. Len(tree[i]) /\ 1 <= n
    BY <2>1
  <2>3. t \in Tree /\ Len(t) = n
    BY <2>1, <2>2, CutPath
  <2>4. IsPrefix(t, tree[i])
    BY <2>1, <2>2, <2>3, OnTheWay
  <2> HIDE DEF t
  <2>5. i \in Below(M, t)
    BY <1>10, <2>1, <2>4 DEF Below
  <2>6. t \in ListNodes(M)
    BY <2>2, <2>3, <2>5 DEF ListNodes
  <2> QED
    BY <1>5, <2>6 DEF t
<1> QED
  BY <1>8, <1>9, <1>10 DEF ListingAddsUp

CountIsRight(base) ==
    IF told.capped THEN told.count < Cardinality(Under(base))
                   ELSE told.count = Cardinality(Under(base))

(* Every answer is about the tree as it is.                                *)
TreeInv ==
    /\ RecordsHaveTrees
    /\ asked.kind = "view" =>
          rows = {[tree |-> t, count |-> Cardinality(Under(t))] :
                     t \in InView(asked.base, asked.levels)}
    /\ asked.kind = "list" => asked.matched \in SUBSET Tree /\ rows = ListRows(asked.matched)
    /\ asked.kind = "count" => CountIsRight(asked.base)

LEMMA AnswersAddUp == ASSUME TreeInv PROVE TreeCountsAddUp
<1>1. ListingAddsUp
  BY ListingIsRight DEF TreeInv, ListingAddsUp
<1>2. CountsAreSubtreeSizes
  BY DEF TreeInv, CountsAreSubtreeSizes, InView, CountIsRight
<1> QED
  BY <1>1, <1>2 DEF TreeCountsAddUp

LEMMA ViewKeeps ==
  ASSUME TreeInv, NEW base \in Tree, NEW levels \in 0 .. Depth \cup {Unlimited},
         TreeView(base, levels)
  PROVE  TreeInv'
<1>1. /\ asked' = [kind |-> "view", base |-> base, levels |-> levels] /\ tree' = tree
      /\ rows' = Expand(Len(base), [i \in Under(base) |-> Deepest(base, levels, i)])
  BY DEF TreeView
<1>2. RecordsHaveTrees
  BY DEF TreeInv
<1>3. rows' = {[tree |-> t, count |-> Cardinality(Under(t))] : t \in InView(base, levels)}
  BY <1>1, <1>2, ViewShowsSubtrees
<1>4. RecordsHaveTrees'
  BY <1>1, <1>2 DEF RecordsHaveTrees
<1>5. /\ asked'.kind = "view" /\ asked'.base = base /\ asked'.levels = levels
  BY <1>1
<1>6. InView(base, levels)' = InView(base, levels) /\ \A t : Under(t)' = Under(t)
  BY <1>1 DEF InView, Under
<1> QED
  BY <1>3, <1>4, <1>5, <1>6 DEF TreeInv

LEMMA ListingKeeps ==
  ASSUME TreeInv, NEW matched \in SUBSET Tree, ListTree(matched)
  PROVE  TreeInv'
<1>1. /\ asked' = [kind |-> "list", matched |-> matched] /\ tree' = tree
      /\ rows' = Expand(1, [i \in {i \in Id : tree[i] # Nowhere /\ tree[i] \in matched}
                               |-> Len(tree[i])])
  BY DEF ListTree, First
<1>2. RecordsHaveTrees
  BY DEF TreeInv
<1>3. rows' = ListRows(matched)
  BY <1>1, <1>2, ListCountsBelow
<1>4. RecordsHaveTrees'
  BY <1>1, <1>2 DEF RecordsHaveTrees
<1>5. asked'.kind = "list" /\ asked'.matched = matched
  BY <1>1
<1>6. ListRows(matched)' = ListRows(matched)
  BY <1>1 DEF ListRows, ListNodes, Below
<1> QED
  BY <1>3, <1>4, <1>5, <1>6 DEF TreeInv

LEMMA CountKeeps ==
  ASSUME TreeInv, NEW base \in Tree, NEW cap \in 1 .. MaxLimit \cup {Unlimited},
         CountTree(base, cap)
  PROVE  TreeInv'
<1> DEFINE n == Cardinality(Under(base))
           raw == IF cap # Unlimited /\ Scanned(cap) < n THEN Scanned(cap) ELSE n
           capped == cap # Unlimited /\ raw > cap
<1>1. /\ asked' = [kind |-> "count", base |-> base, limit |-> cap] /\ tree' = tree
      /\ told' = [count |-> IF capped THEN cap ELSE raw, capped |-> capped]
  BY DEF CountTree
<1>2. RecordsHaveTrees /\ n \in Nat /\ (cap # Unlimited => cap \in Nat)
  BY UnderIsFinite, TreeAssumptions DEF TreeInv
<1>3. IF capped THEN told'.capped = TRUE /\ told'.count = cap
                ELSE told'.capped = FALSE /\ told'.count = raw
  <2> HIDE DEF capped, raw
  <2>1. told'.capped = capped /\ told'.count = IF capped THEN cap ELSE raw
    BY <1>1, Zenon
  <2>2. capped \in BOOLEAN
    BY DEF capped
  <2> QED
    BY <2>1, <2>2
<1>4. IF told'.capped THEN told'.count < n ELSE told'.count = n
  <2> HIDE DEF n
  <2>1. CASE cap = Unlimited
    BY <1>3, <2>1
  <2>2. CASE cap # Unlimited
    <3>1. cap \in Nat /\ n \in Nat
      BY <1>2, <2>2
    <3>2. CASE cap + 1 < n
      <4>1. capped
        BY <2>2, <3>1, <3>2 DEF Scanned
      <4> HIDE DEF capped
      <4> QED
        BY <1>3, <3>1, <3>2, <4>1
    <3>3. CASE ~(cap + 1 < n)
      <4>1. raw = n
        BY <2>2, <3>1, <3>3 DEF Scanned
      <4>2. capped => cap < n
        BY <2>2, <3>1, <4>1
      <4> HIDE DEF capped, raw
      <4> QED
        BY <1>3, <3>1, <4>1, <4>2
    <3> QED
      BY <3>2, <3>3
  <2> QED
    BY <2>1, <2>2
<1>5. RecordsHaveTrees'
  BY <1>1, <1>2 DEF RecordsHaveTrees
<1>6. asked'.kind = "count" /\ asked'.base = base
  BY <1>1
<1>7. Cardinality(Under(base))' = n
  BY <1>1 DEF Under
<1>8. CountIsRight(base)'
  BY <1>4, <1>7 DEF CountIsRight
<1> QED
  BY <1>5, <1>6, <1>8 DEF TreeInv

(* Every number the tree shows is the number of records it stands for: in  *)
(* a view the whole subtree of each node, in a listing what is at it and   *)
(* below it, in a count all there are unless it says it was cut off; for   *)
(* trees of any depth, and any records in them.                            *)
THEOREM TreeCountsAreTrue == TreeSpec => []TreeCountsAddUp
<1>1. TreeInit => TreeInv
  <2> SUFFICES ASSUME TreeInit
               PROVE  TreeInv
    OBVIOUS
  <2>1. asked.kind = "none" /\ RecordsHaveTrees
    BY DEF TreeInit, RecordsHaveTrees
  <2> QED
    BY <2>1 DEF TreeInv
<1>2. TreeInv /\ [TreeNext]_treeVars => TreeInv'
  <2> SUFFICES ASSUME TreeInv, [TreeNext]_treeVars
               PROVE  TreeInv'
    OBVIOUS
  <2>1. CASE UNCHANGED treeVars
    <3>1. asked' = asked /\ rows' = rows /\ told' = told /\ tree' = tree
      BY <2>1 DEF treeVars
    <3>2. RecordsHaveTrees' /\ \A t : Under(t)' = Under(t)
      BY <3>1 DEF TreeInv, RecordsHaveTrees, Under
    <3>3. ListRows(asked.matched)' = ListRows(asked.matched)
      BY <3>1 DEF ListRows, ListNodes, Below
    <3>4. InView(asked.base, asked.levels)' = InView(asked.base, asked.levels)
      BY <3>1 DEF InView, Under
    <3>5. CountIsRight(asked.base)' = CountIsRight(asked.base)
      BY <3>1 DEF CountIsRight, Under
    <3> QED
      BY <3>1, <3>2, <3>3, <3>4, <3>5 DEF TreeInv
  <2>2. CASE TreeNext
    BY <2>2, ViewKeeps, ListingKeeps, CountKeeps DEF TreeNext
  <2> QED
    BY <2>1, <2>2
<1>3. TreeInv => TreeCountsAddUp
  BY AnswersAddUp
<1> QED
  BY <1>1, <1>2, <1>3, PTL DEF TreeSpec

-----------------------------------------------------------------------------
(* Rankings. *)

(* Less puts the members of S in a row.                                    *)
Orders(Less, S) ==
    /\ \A i \in S : <<i, i>> \notin Less
    /\ \A i, j \in S : i # j => <<i, j>> \in Less \/ <<j, i>> \in Less
    /\ \A i, j, k \in S : <<i, j>> \in Less /\ <<j, k>> \in Less => <<i, k>> \in Less

Ahead(Less, S, i) == {j \in S : <<j, i>> \in Less}

(* Then how many are ahead of a member tells its place from 1 to the last, *)
(* and every place is taken.                                               *)
LEMMA PlacesAreTaken ==
  ASSUME NEW S, IsFiniteSet(S), NEW Less, Orders(Less, S)
  PROVE  /\ \A i \in S : 1 + Cardinality(Ahead(Less, S, i)) \in 1 .. Cardinality(S)
         /\ \A i, j \in S : <<i, j>> \in Less
               <=> Cardinality(Ahead(Less, S, i)) < Cardinality(Ahead(Less, S, j))
         /\ \A n \in 1 .. Cardinality(S) : \E i \in S : 1 + Cardinality(Ahead(Less, S, i)) = n
<1> DEFINE A(i) == Ahead(Less, S, i)
           place == [i \in S |-> 1 + Cardinality(A(i))]
<1>1. \A i : A(i) \in SUBSET S /\ IsFiniteSet(A(i)) /\ Cardinality(A(i)) \in Nat
  <2> SUFFICES ASSUME NEW i
               PROVE  A(i) \in SUBSET S /\ IsFiniteSet(A(i)) /\ Cardinality(A(i)) \in Nat
    OBVIOUS
  <2>1. A(i) \in SUBSET S
    BY DEF Ahead
  <2>2. IsFiniteSet(A(i))
    BY <2>1, FS_Subset
  <2> QED
    BY <2>1, <2>2, FS_CardinalityType
<1>2. Cardinality(S) \in Nat
  BY FS_CardinalityType
<1>3. ASSUME NEW i \in S
      PROVE  Cardinality(A(i)) < Cardinality(S)
  <2>1. A(i) \in SUBSET S /\ i \notin A(i)
    BY <1>1 DEF Ahead, Orders
  <2>2. Cardinality(A(i)) <= Cardinality(S) /\ (Cardinality(S) = Cardinality(A(i)) => S = A(i))
    BY <2>1, FS_Subset
  <2>3. S # A(i)
    BY <2>1
  <2> HIDE DEF A
  <2> QED
    BY <1>1, <1>2, <2>2, <2>3
<1>4. ASSUME NEW i \in S, NEW j \in S, <<i, j>> \in Less
      PROVE  Cardinality(A(i)) < Cardinality(A(j))
  <2>1. A(i) \in SUBSET A(j)
    <3> SUFFICES ASSUME NEW k \in S, <<k, i>> \in Less
                 PROVE  <<k, j>> \in Less
      BY DEF Ahead
    <3> QED
      BY <1>4 DEF Orders
  <2>2. i \in A(j) /\ i \notin A(i)
    BY <1>4 DEF Ahead, Orders
  <2> HIDE DEF A
  <2>3. Cardinality(A(i)) <= Cardinality(A(j))
        /\ (Cardinality(A(j)) = Cardinality(A(i)) => A(j) = A(i))
    BY <1>1, <2>1, FS_Subset
  <2> QED
    BY <1>1, <2>2, <2>3
<1>5. ASSUME NEW i \in S, NEW j \in S
      PROVE  <<i, j>> \in Less <=> Cardinality(A(i)) < Cardinality(A(j))
  <2>1. <<i, j>> \in Less \/ i = j \/ <<j, i>> \in Less
    BY DEF Orders
  <2> HIDE DEF A
  <2> QED
    BY <1>1, <1>4, <2>1
<1> HIDE DEF A
<1>6. place \in Injection(S, 1 .. Cardinality(S))
  <2>1. \A i \in S : place[i] \in 1 .. Cardinality(S)
    BY <1>1, <1>2, <1>3
  <2>2. \A i, j \in S : place[i] = place[j] => i = j
    <3> SUFFICES ASSUME NEW i \in S, NEW j \in S, place[i] = place[j], i # j
                 PROVE  FALSE
      OBVIOUS
    <3>1. Cardinality(A(i)) = Cardinality(A(j))
      BY <1>1
    <3>2. <<i, j>> \in Less \/ <<j, i>> \in Less
      BY DEF Orders
    <3> QED
      BY <1>1, <1>4, <3>1, <3>2
  <2>3. place \in [S -> 1 .. Cardinality(S)]
    BY <2>1
  <2> HIDE DEF place
  <2> QED
    BY <2>2, <2>3 DEF Injection, IsInjective
<1>7. place \in Surjection(S, 1 .. Cardinality(S))
  <2>1. IsFiniteSet(1 .. Cardinality(S)) /\ Cardinality(1 .. Cardinality(S)) = Cardinality(S)
    <3>1. Cardinality(1 .. Cardinality(S))
            = IF 1 > Cardinality(S) THEN 0 ELSE Cardinality(S) - 1 + 1
      BY <1>2, FS_Interval, 1 \in Int, Cardinality(S) \in Int
    <3>2. IsFiniteSet(1 .. Cardinality(S))
      BY <1>2, FS_Interval, 1 \in Int, Cardinality(S) \in Int
    <3> QED
      BY <1>2, <3>1, <3>2
  <2> HIDE DEF place
  <2> QED
    BY <1>6, <2>1, FS_Injection
<1>8. \A n \in 1 .. Cardinality(S) : \E i \in S : place[i] = n
  <2> HIDE DEF place
  <2> QED
    BY <1>7 DEF Surjection
<1>9. \A i \in S : 1 + Cardinality(A(i)) \in 1 .. Cardinality(S)
  BY <1>1, <1>2, <1>3
<1>10. \A n \in 1 .. Cardinality(S) : \E i \in S : 1 + Cardinality(A(i)) = n
  BY <1>8
<1> QED
  BY <1>5, <1>9, <1>10 DEF A

(* Records in the order of an arm: the better score first, then the id.    *)
Arm == [Hit -> Nat]

Precedes(arm, i, j) == arm[i] > arm[j] \/ (arm[i] = arm[j] /\ i < j)

LEMMA HitIsFinite == IsFiniteSet(Hit) /\ Cardinality(Hit) = MaxHit
<1>1. 1 \in Int /\ MaxHit \in Int /\ MaxHit >= 1
  BY HybridAssumptions
<1>2. /\ IsFiniteSet(1 .. MaxHit)
      /\ Cardinality(1 .. MaxHit) = IF 1 > MaxHit THEN 0 ELSE MaxHit - 1 + 1
  BY <1>1, FS_Interval
<1> QED
  BY <1>1, <1>2 DEF Hit

(* Ranks run from 1 without a gap, in the order of the arm.                *)
LEMMA RanksCount ==
  ASSUME NEW arm \in Arm
  PROVE  /\ \A i \in Hit : Rank(arm, i) \in 1 .. MaxHit
         /\ \A i, j \in Hit : Precedes(arm, i, j) <=> Rank(arm, i) < Rank(arm, j)
         /\ \A n \in 1 .. MaxHit : \E i \in Hit : Rank(arm, i) = n
<1> DEFINE Less == {p \in Hit \X Hit : Precedes(arm, p[1], p[2])}
<1>1. \A i, j \in Hit : <<i, j>> \in Less <=> Precedes(arm, i, j)
  OBVIOUS
<1>2. Orders(Less, Hit)
  <2>1. \A i \in Hit : i \in Nat /\ arm[i] \in Nat
    BY HybridAssumptions DEF Hit, Arm
  <2>2. /\ \A i \in Hit : ~Precedes(arm, i, i)
        /\ \A i, j \in Hit : i # j => Precedes(arm, i, j) \/ Precedes(arm, j, i)
        /\ \A i, j, k \in Hit :
              Precedes(arm, i, j) /\ Precedes(arm, j, k) => Precedes(arm, i, k)
    BY <2>1 DEF Precedes
  <2> HIDE DEF Less
  <2> QED
    BY <1>1, <2>2 DEF Orders
<1>3. \A i \in Hit : Rank(arm, i) = 1 + Cardinality(Ahead(Less, Hit, i))
  <2> SUFFICES ASSUME NEW i \in Hit
               PROVE  Rank(arm, i) = 1 + Cardinality(Ahead(Less, Hit, i))
    OBVIOUS
  <2>1. {j \in Hit : arm[j] > arm[i] \/ (arm[j] = arm[i] /\ j < i)} = Ahead(Less, Hit, i)
    <3> HIDE DEF Less
    <3> QED
      BY <1>1 DEF Ahead, Precedes
  <2> QED
    BY <2>1 DEF Rank
<1> HIDE DEF Less
<1>4. /\ \A i \in Hit : 1 + Cardinality(Ahead(Less, Hit, i)) \in 1 .. Cardinality(Hit)
      /\ \A i, j \in Hit : <<i, j>> \in Less
            <=> Cardinality(Ahead(Less, Hit, i)) < Cardinality(Ahead(Less, Hit, j))
      /\ \A n \in 1 .. Cardinality(Hit) :
            \E i \in Hit : 1 + Cardinality(Ahead(Less, Hit, i)) = n
  BY <1>2, HitIsFinite, PlacesAreTaken
<1>5. \A i \in Hit : Cardinality(Ahead(Less, Hit, i)) \in Nat
  <2> SUFFICES ASSUME NEW i \in Hit
               PROVE  Cardinality(Ahead(Less, Hit, i)) \in Nat
    OBVIOUS
  <2>1. Ahead(Less, Hit, i) \in SUBSET Hit
    BY DEF Ahead
  <2>2. IsFiniteSet(Ahead(Less, Hit, i))
    BY <2>1, HitIsFinite, FS_Subset
  <2> QED
    BY <2>2, FS_CardinalityType
<1>6. \A i \in Hit : Rank(arm, i) \in 1 .. MaxHit
  BY <1>3, <1>4, HitIsFinite
<1>7. \A n \in 1 .. MaxHit : \E i \in Hit : Rank(arm, i) = n
  BY <1>3, <1>4, HitIsFinite
<1>8. \A i, j \in Hit : Precedes(arm, i, j) <=> Rank(arm, i) < Rank(arm, j)
  <2> SUFFICES ASSUME NEW i \in Hit, NEW j \in Hit
               PROVE  Precedes(arm, i, j) <=> Rank(arm, i) < Rank(arm, j)
    OBVIOUS
  <2> DEFINE a == Cardinality(Ahead(Less, Hit, i))
             b == Cardinality(Ahead(Less, Hit, j))
  <2>1. Precedes(arm, i, j) <=> a < b
    BY <1>1, <1>4
  <2>2. Rank(arm, i) = 1 + a /\ Rank(arm, j) = 1 + b /\ a \in Nat /\ b \in Nat
    BY <1>3, <1>5
  <2> HIDE DEF a, b
  <2> QED
    BY <2>1, <2>2
<1> QED
  BY <1>6, <1>7, <1>8

(* The best n of an arm are n, unless they are all that match.             *)
LEMMA BestAreMany ==
  ASSUME NEW arm \in Arm, NEW n \in Nat, NEW i \in Hit, arm[i] > 0, i \notin Best(arm, n)
  PROVE  /\ IsFiniteSet(Best(arm, n))
         /\ Cardinality(Best(arm, n)) \in Nat
         /\ n <= Cardinality(Best(arm, n))
<1> DEFINE g == [r \in 1 .. n |-> CHOOSE j \in Hit : Rank(arm, j) = r]
           T == {g[r] : r \in 1 .. n}
<1>1. Rank(arm, i) \in 1 .. MaxHit /\ Rank(arm, i) > n
  BY RanksCount, HybridAssumptions DEF Best
<1>2. \A r \in 1 .. n : g[r] \in Hit /\ Rank(arm, g[r]) = r
  <2> SUFFICES ASSUME NEW r \in 1 .. n
               PROVE  g[r] \in Hit /\ Rank(arm, g[r]) = r
    OBVIOUS
  <2>1. r \in 1 .. MaxHit
    BY <1>1, HybridAssumptions
  <2>2. \E j \in Hit : Rank(arm, j) = r
    BY <2>1, RanksCount
  <2> QED
    BY <2>2
<1> HIDE DEF g
<1>3. \A r \in 1 .. n : g[r] \in Best(arm, n)
  <2> SUFFICES ASSUME NEW r \in 1 .. n
               PROVE  g[r] \in Best(arm, n)
    OBVIOUS
  <2>1. g[r] \in Hit /\ Rank(arm, g[r]) = r /\ r <= n
    BY <1>2
  <2>2. Rank(arm, g[r]) < Rank(arm, i)
    BY <1>1, <2>1, HybridAssumptions
  <2>3. Precedes(arm, g[r], i)
    BY <2>1, <2>2, RanksCount
  <2>4. arm[g[r]] > 0
    BY <2>1, <2>3 DEF Precedes, Arm
  <2> QED
    BY <2>1, <2>4 DEF Best
<1>4. \A r, s \in 1 .. n : g[r] = g[s] => r = s
  BY <1>2
<1>5. IsFiniteSet(1 .. n) /\ Cardinality(1 .. n) = n
  <2>1. 1 \in Int /\ n \in Int
    OBVIOUS
  <2>2. /\ IsFiniteSet(1 .. n)
        /\ Cardinality(1 .. n) = IF 1 > n THEN 0 ELSE n - 1 + 1
    BY <2>1, FS_Interval
  <2> QED
    BY <2>2
<1>6. IsFiniteSet(T) /\ Cardinality(T) = n
  BY <1>4, <1>5, ImageSize
<1>7. T \in SUBSET Best(arm, n) /\ Best(arm, n) \in SUBSET Hit
  BY <1>3 DEF Best
<1>8. IsFiniteSet(Best(arm, n))
  BY <1>7, HitIsFinite, FS_Subset
<1> HIDE DEF T
<1>9. Cardinality(T) <= Cardinality(Best(arm, n))
  BY <1>7, <1>8, FS_Subset
<1> QED
  BY <1>6, <1>8, <1>9, FS_CardinalityType

ArmsTyped == fulltext \in Arm /\ semantic \in Arm

LEMMA BestIsFinite ==
  ASSUME NEW arm, NEW n
  PROVE  IsFiniteSet(Best(arm, n)) /\ Cardinality(Best(arm, n)) \in Nat
<1>1. Best(arm, n) \in SUBSET Hit
  BY DEF Best
<1>2. IsFiniteSet(Best(arm, n))
  BY <1>1, HitIsFinite, FS_Subset
<1> QED
  BY <1>2, FS_CardinalityType

LEMMA FusedIsFinite ==
  ASSUME NEW q
  PROVE  /\ Fused(q) \in SUBSET Hit /\ IsFiniteSet(Fused(q)) /\ Cardinality(Fused(q)) \in Nat
         /\ Fused(q) \in SUBSET Matches
         /\ IsFiniteSet(Matches) /\ Cardinality(Matches) \in Nat
<1>1. Fused(q) \in SUBSET Hit /\ Fused(q) \in SUBSET Matches /\ Matches \in SUBSET Hit
  BY DEF Fused, Best, Matches
<1>2. IsFiniteSet(Fused(q)) /\ IsFiniteSet(Matches)
  BY <1>1, HitIsFinite, FS_Subset
<1> QED
  BY <1>1, <1>2, FS_CardinalityType

LEMMA CandidatesSuffice ==
  ASSUME NEW q \in Query
  PROVE  /\ Candidates(q) \in Nat /\ q.limit \in Nat /\ q.limit <= Candidates(q)
         /\ q.k \in Nat /\ q.k <= MaxK
         /\ q.fulltextWeight \in Nat /\ q.semanticWeight \in Nat
BY HybridAssumptions DEF Query, Candidates

(* What is fused is all that matches, or at least what the limit allows.   *)
LEMMA FusedAreMany ==
  ASSUME ArmsTyped, NEW q \in Query
  PROVE  Fused(q) = Matches \/ q.limit <= Cardinality(Fused(q))
<1> SUFFICES ASSUME NEW i \in Matches, i \notin Fused(q)
             PROVE  q.limit <= Cardinality(Fused(q))
  BY FusedIsFinite
<1> DEFINE C == Candidates(q)
<1>1. i \in Hit /\ (fulltext[i] > 0 \/ semantic[i] > 0)
      /\ i \notin Best(fulltext, C) /\ i \notin Best(semantic, C)
  BY DEF Matches, Fused
<1>2. PICK arm \in {fulltext, semantic} : arm[i] > 0 /\ i \notin Best(arm, C)
  BY <1>1
<1>3. arm \in Arm /\ C \in Nat /\ q.limit \in Nat /\ q.limit <= C
  BY CandidatesSuffice DEF ArmsTyped
<1> HIDE DEF C
<1>4. Cardinality(Best(arm, C)) \in Nat /\ C <= Cardinality(Best(arm, C))
  BY <1>1, <1>2, <1>3, BestAreMany
<1>5. Best(arm, C) \in SUBSET Fused(q)
  BY <1>2 DEF Fused, C
<1>6. Cardinality(Best(arm, C)) <= Cardinality(Fused(q))
  BY <1>5, FusedIsFinite, FS_Subset
<1> QED
  BY <1>3, <1>4, <1>6, FusedIsFinite

LEMMA AsManyAsAllowed ==
  ASSUME ArmsTyped, NEW q \in Query
  PROVE  /\ Returned(q) = (IF q.limit < Cardinality(Matches)
                           THEN q.limit ELSE Cardinality(Matches))
         /\ Returned(q) \in Nat /\ Returned(q) <= Cardinality(Fused(q))
<1>1. Cardinality(Fused(q)) <= Cardinality(Matches)
  BY FusedIsFinite, FS_Subset
<1>2. Fused(q) = Matches \/ q.limit <= Cardinality(Fused(q))
  BY FusedAreMany
<1>3. Cardinality(Fused(q)) \in Nat /\ Cardinality(Matches) \in Nat /\ q.limit \in Nat
  BY FusedIsFinite, CandidatesSuffice
<1> QED
  BY <1>1, <1>2, <1>3 DEF Returned

(* The shares of better ranks are greater.                                 *)
LEMMA QuotientsFall ==
  ASSUME NEW a \in 1 .. MaxK + MaxHit, NEW b \in 1 .. MaxK + MaxHit, a < b
  PROVE  /\ Scale \div a \in Nat /\ Scale \div b \in Nat
         /\ 0 < Scale \div b /\ Scale \div b < Scale \div a
<1>1. /\ Scale \in Nat /\ Scale > 0
      /\ a \in Nat /\ b \in Nat /\ a > 0 /\ b > 0
  BY HybridAssumptions
<1> DEFINE x == Scale \div a
           y == Scale \div b
<1>2. x \in Int /\ y \in Int /\ Scale = a * x /\ Scale = b * y
  <2>1. x \in Int /\ y \in Int
    BY <1>1
  <2>2. Scale = a * x /\ Scale = b * y
    BY HybridAssumptions
  <2> QED
    BY <2>1, <2>2
<1> HIDE DEF x, y
<1>3. x > 0 /\ y > 0
  BY <1>1, <1>2
<1>4. y < x
  <2> SUFFICES ASSUME x <= y
               PROVE  FALSE
    BY <1>2
  <2>1. a * x < b * x
    BY <1>1, <1>2, <1>3
  <2>2. b * x <= b * y
    BY <1>1, <1>2
  <2>3. a * x \in Int /\ b * x \in Int /\ b * y \in Int
    BY <1>1, <1>2
  <2> QED
    BY <1>2, <2>1, <2>2, <2>3
<1> QED
  BY <1>2, <1>3, <1>4 DEF x, y

IsWorth(arm, weight, q) == arm \in Arm /\ q \in Query /\ weight \in Nat

InBest(arm, i, q) == i \in Best(arm, Candidates(q))

LEMMA ShareOfTheBest ==
  ASSUME NEW arm, NEW weight, NEW q, IsWorth(arm, weight, q), NEW i \in Hit
  PROVE  /\ Share(arm, i, weight, q) \in Nat
         /\ weight > 0 /\ InBest(arm, i, q) => Share(arm, i, weight, q) > 0
         /\ weight = 0 \/ ~InBest(arm, i, q) => Share(arm, i, weight, q) = 0
<1> DEFINE a == q.k + Rank(arm, i)
<1>1. a \in 1 .. MaxK + MaxHit
  <2>1. q.k \in Nat /\ q.k <= MaxK
    BY CandidatesSuffice DEF IsWorth
  <2>2. Rank(arm, i) \in 1 .. MaxHit
    BY RanksCount DEF IsWorth
  <2> QED
    BY <2>1, <2>2, HybridAssumptions
<1>2. Scale \div a \in Nat /\ Scale \div a > 0
  <2>1. a * (Scale \div a) = Scale /\ Scale \in Nat /\ Scale > 0
    BY <1>1, HybridAssumptions
  <2>2. a \in Nat /\ a > 0 /\ Scale \div a \in Int
    BY <1>1, <2>1
  <2> QED
    BY <2>1, <2>2
<1>3. Share(arm, i, weight, q)
        = IF InBest(arm, i, q) THEN weight * (Scale \div a) ELSE 0
  BY DEF Share, InBest
<1> DEFINE x == Scale \div a
<1>4. weight \in Nat /\ x \in Nat /\ x > 0
  BY <1>2 DEF IsWorth
<1>5. Share(arm, i, weight, q) = IF InBest(arm, i, q) THEN weight * x ELSE 0
  BY <1>3
<1> HIDE DEF a, x
<1>6. weight * x \in Nat /\ (weight > 0 => weight * x > 0) /\ (weight = 0 => weight * x = 0)
  BY <1>4
<1> QED
  BY <1>5, <1>6

LEMMA ShareFollowsRank ==
  ASSUME NEW arm, NEW weight, NEW q, IsWorth(arm, weight, q), NEW i \in Hit, NEW j \in Hit,
         InBest(arm, i, q), InBest(arm, j, q)
  PROVE  /\ Rank(arm, i) = Rank(arm, j)
               => Share(arm, i, weight, q) = Share(arm, j, weight, q)
         /\ Rank(arm, i) < Rank(arm, j)
               => Share(arm, i, weight, q) >= Share(arm, j, weight, q)
         /\ weight > 0 /\ Rank(arm, i) < Rank(arm, j)
               => Share(arm, i, weight, q) > Share(arm, j, weight, q)
<1> DEFINE a == q.k + Rank(arm, i)
           b == q.k + Rank(arm, j)
           x == Scale \div a
           y == Scale \div b
<1>1. Share(arm, i, weight, q) = weight * x /\ Share(arm, j, weight, q) = weight * y
  BY DEF Share, InBest
<1>2. Rank(arm, i) = Rank(arm, j) => x = y
  OBVIOUS
<1>3. ASSUME Rank(arm, i) < Rank(arm, j)
      PROVE  x \in Nat /\ y \in Nat /\ y < x
  <2>1. q.k \in Nat /\ q.k <= MaxK
    BY CandidatesSuffice DEF IsWorth
  <2>2. Rank(arm, i) \in 1 .. MaxHit /\ Rank(arm, j) \in 1 .. MaxHit
    BY RanksCount DEF IsWorth
  <2>3. a \in 1 .. MaxK + MaxHit /\ b \in 1 .. MaxK + MaxHit /\ a < b
    BY <1>3, <2>1, <2>2, HybridAssumptions
  <2> HIDE DEF a, b
  <2> QED
    BY <2>3, QuotientsFall
<1>4. weight \in Nat
  BY DEF IsWorth
<1> HIDE DEF x, y
<1>5. ASSUME x \in Nat, y \in Nat, y < x
      PROVE  weight * x >= weight * y /\ (weight > 0 => weight * x > weight * y)
  BY <1>4, <1>5
<1> QED
  BY <1>1, <1>2, <1>3, <1>5

LEMMA NoWorseShare ==
  ASSUME NEW arm, NEW weight, IsWorth(arm, weight, query), NEW i \in Hit, NEW j \in Hit,
         NoWorse(arm, weight, i, j)
  PROVE  Share(arm, i, weight, query) >= Share(arm, j, weight, query)
<1>1. /\ Share(arm, i, weight, query) \in Nat /\ Share(arm, j, weight, query) \in Nat
      /\ weight = 0 \/ ~InBest(arm, j, query) => Share(arm, j, weight, query) = 0
  BY ShareOfTheBest
<1>2. CASE weight = 0 \/ ~InBest(arm, j, query)
  BY <1>1, <1>2
<1>3. CASE weight # 0 /\ InBest(arm, j, query)
  <2>1. InBest(arm, i, query) /\ Rank(arm, i) <= Rank(arm, j)
    BY <1>3 DEF NoWorse, Found, InBest
  <2>2. Rank(arm, i) \in 1 .. MaxHit /\ Rank(arm, j) \in 1 .. MaxHit
    BY RanksCount DEF IsWorth
  <2>3. Rank(arm, i) = Rank(arm, j) \/ Rank(arm, i) < Rank(arm, j)
    BY <2>1, <2>2
  <2> QED
    BY <1>1, <1>3, <2>1, <2>3, ShareFollowsRank
<1> QED
  BY <1>2, <1>3

LEMMA BetterShare ==
  ASSUME NEW arm, NEW weight, IsWorth(arm, weight, query), NEW i \in Hit, NEW j \in Hit,
         Better(arm, weight, i, j)
  PROVE  /\ InBest(arm, i, query)
         /\ Share(arm, i, weight, query) > Share(arm, j, weight, query)
<1>1. /\ weight > 0 /\ InBest(arm, i, query)
      /\ InBest(arm, j, query) => Rank(arm, i) < Rank(arm, j)
  BY DEF Better, Found, InBest
<1>2. CASE InBest(arm, j, query)
  BY <1>1, <1>2, ShareFollowsRank
<1>3. CASE ~InBest(arm, j, query)
  <2>1. /\ Share(arm, i, weight, query) > 0 /\ Share(arm, j, weight, query) = 0
    BY <1>1, <1>3, ShareOfTheBest
  <2> QED
    BY <1>1, <2>1
<1> QED
  BY <1>2, <1>3

(* Positions in the fused list run from 1 without a gap, in its order.     *)
LEMMA PositionsCount ==
  ASSUME ArmsTyped, NEW q \in Query
  PROVE  /\ \A i \in Fused(q) : Position(i, q) \in 1 .. Cardinality(Fused(q))
         /\ \A i, j \in Fused(q) : Sooner(i, j, q) <=> Position(i, q) < Position(j, q)
         /\ \A n \in 1 .. Cardinality(Fused(q)) : \E i \in Fused(q) : Position(i, q) = n
<1> DEFINE S == Fused(q)
           Less == {p \in S \X S : Sooner(p[1], p[2], q)}
<1>0. S \in SUBSET Hit /\ IsFiniteSet(S) /\ Cardinality(S) \in Nat
  BY FusedIsFinite
<1>1. \A i, j \in S : <<i, j>> \in Less <=> Sooner(i, j, q)
  OBVIOUS
<1>2. Orders(Less, S)
  <2>1. \A i \in S : i \in Nat /\ Score(i, q) \in Nat
    <3> SUFFICES ASSUME NEW i \in S
                 PROVE  i \in Nat /\ Score(i, q) \in Nat
      OBVIOUS
    <3>1. i \in Hit /\ i \in Nat
      BY <1>0, HybridAssumptions DEF Hit
    <3>2. IsWorth(fulltext, q.fulltextWeight, q) /\ IsWorth(semantic, q.semanticWeight, q)
      BY CandidatesSuffice DEF IsWorth, ArmsTyped
    <3>3. Share(fulltext, i, q.fulltextWeight, q) \in Nat
          /\ Share(semantic, i, q.semanticWeight, q) \in Nat
      BY <3>1, <3>2, ShareOfTheBest
    <3> QED
      BY <3>1, <3>3 DEF Score
  <2> HIDE DEF S
  <2>2. /\ \A i \in S : ~Sooner(i, i, q)
        /\ \A i, j \in S : i # j => Sooner(i, j, q) \/ Sooner(j, i, q)
        /\ \A i, j, k \in S : Sooner(i, j, q) /\ Sooner(j, k, q) => Sooner(i, k, q)
    BY <2>1 DEF Sooner
  <2> HIDE DEF Less
  <2> QED
    BY <1>1, <2>2 DEF Orders
<1>3. \A i \in S : Position(i, q) = 1 + Cardinality(Ahead(Less, S, i))
  <2> SUFFICES ASSUME NEW i \in S
               PROVE  Position(i, q) = 1 + Cardinality(Ahead(Less, S, i))
    OBVIOUS
  <2>1. {j \in Fused(q) : Sooner(j, i, q)} = Ahead(Less, S, i)
    <3> HIDE DEF Less
    <3> QED
      BY <1>1 DEF Ahead
  <2> QED
    BY <2>1 DEF Position
<1> HIDE DEF Less
<1>4. /\ \A i \in S : 1 + Cardinality(Ahead(Less, S, i)) \in 1 .. Cardinality(S)
      /\ \A i, j \in S : <<i, j>> \in Less
            <=> Cardinality(Ahead(Less, S, i)) < Cardinality(Ahead(Less, S, j))
      /\ \A n \in 1 .. Cardinality(S) : \E i \in S : 1 + Cardinality(Ahead(Less, S, i)) = n
  <2> HIDE DEF S
  <2> QED
    BY <1>0, <1>2, PlacesAreTaken
<1>5. \A i \in S : Cardinality(Ahead(Less, S, i)) \in Nat
  <2> SUFFICES ASSUME NEW i \in S
               PROVE  Cardinality(Ahead(Less, S, i)) \in Nat
    OBVIOUS
  <2>1. Ahead(Less, S, i) \in SUBSET S
    BY DEF Ahead
  <2>2. IsFiniteSet(Ahead(Less, S, i))
    BY <1>0, <2>1, FS_Subset
  <2> QED
    BY <2>2, FS_CardinalityType
<1> HIDE DEF S
<1>6. \A i \in S : Position(i, q) \in 1 .. Cardinality(S)
  BY <1>3, <1>4
<1>7. \A n \in 1 .. Cardinality(S) : \E i \in S : Position(i, q) = n
  BY <1>3, <1>4
<1>8. \A i, j \in S : Sooner(i, j, q) <=> Position(i, q) < Position(j, q)
  <2> SUFFICES ASSUME NEW i \in S, NEW j \in S
               PROVE  Sooner(i, j, q) <=> Position(i, q) < Position(j, q)
    OBVIOUS
  <2> DEFINE a == Cardinality(Ahead(Less, S, i))
             b == Cardinality(Ahead(Less, S, j))
  <2>1. Sooner(i, j, q) <=> a < b
    BY <1>1, <1>4
  <2>2. Position(i, q) = 1 + a /\ Position(j, q) = 1 + b /\ a \in Nat /\ b \in Nat
    BY <1>3, <1>5
  <2> HIDE DEF a, b
  <2> QED
    BY <2>1, <2>2
<1> QED
  BY <1>6, <1>7, <1>8 DEF S

Answer(q) == [n \in 1 .. Returned(q) |-> CHOOSE i \in Fused(q) : Position(i, q) = n]

LEMMA AnswerHolds ==
  ASSUME ArmsTyped, NEW q \in Query
  PROVE  /\ Returned(q) \in Nat
         /\ Len(Answer(q)) = Returned(q)
         /\ \A n \in 1 .. Returned(q) :
               Answer(q)[n] \in Fused(q) /\ Position(Answer(q)[n], q) = n
         /\ \A i \in Fused(q) :
               Position(i, q) <= Returned(q) => Answer(q)[Position(i, q)] = i
<1>1. Returned(q) \in Nat /\ Returned(q) <= Cardinality(Fused(q))
  BY AsManyAsAllowed
<1>2. Cardinality(Fused(q)) \in Nat
  BY FusedIsFinite
<1>3. ASSUME NEW n \in 1 .. Returned(q)
      PROVE  Answer(q)[n] \in Fused(q) /\ Position(Answer(q)[n], q) = n
  <2>1. n \in 1 .. Cardinality(Fused(q))
    BY <1>1, <1>2
  <2>2. \E i \in Fused(q) : Position(i, q) = n
    BY <2>1, PositionsCount
  <2>3. Answer(q)[n] = CHOOSE i \in Fused(q) : Position(i, q) = n
    BY DEF Answer
  <2> QED
    BY <2>2, <2>3
<1>4. ASSUME NEW i \in Fused(q), Position(i, q) <= Returned(q)
      PROVE  Answer(q)[Position(i, q)] = i
  <2> DEFINE j == Answer(q)[Position(i, q)]
  <2>1. Position(i, q) \in 1 .. Cardinality(Fused(q))
    BY PositionsCount
  <2>2. Position(i, q) \in 1 .. Returned(q)
    BY <1>1, <1>2, <1>4, <2>1
  <2>3. j \in Fused(q) /\ Position(j, q) = Position(i, q)
    BY <1>3, <2>2
  <2> HIDE DEF j
  <2>4. ~Sooner(i, j, q) /\ ~Sooner(j, i, q)
    <3>1. Position(i, q) \in Nat
      BY <2>1
    <3>2. ~(Position(i, q) < Position(j, q)) /\ ~(Position(j, q) < Position(i, q))
      BY <2>3, <3>1
    <3> QED
      BY <2>3, <3>2, PositionsCount
  <2>5. i \in Hit /\ j \in Hit
    BY <2>3, FusedIsFinite
  <2>6. Score(i, q) \in Nat /\ Score(j, q) \in Nat
    <3>1. IsWorth(fulltext, q.fulltextWeight, q) /\ IsWorth(semantic, q.semanticWeight, q)
      BY CandidatesSuffice DEF IsWorth, ArmsTyped
    <3>2. \A x \in Hit : /\ Share(fulltext, x, q.fulltextWeight, q) \in Nat
                         /\ Share(semantic, x, q.semanticWeight, q) \in Nat
      BY <3>1, ShareOfTheBest
    <3> QED
      BY <2>5, <3>2 DEF Score
  <2>7. i \in Nat /\ j \in Nat
    BY <2>5, HybridAssumptions DEF Hit
  <2>8. i = j
    BY <2>4, <2>6, <2>7 DEF Sooner
  <2> QED
    BY <2>8 DEF j
<1>5. Len(Answer(q)) = Returned(q)
  BY <1>1 DEF Answer
<1> QED
  BY <1>1, <1>3, <1>4, <1>5

(* A record no arm minds and one prefers scores more.                      *)
LEMMA ScoreFollowsArms ==
  ASSUME ArmsTyped, query \in Query, NEW i \in Hit, NEW j \in Hit,
         NoWorse(fulltext, query.fulltextWeight, i, j),
         NoWorse(semantic, query.semanticWeight, i, j),
         \/ Better(fulltext, query.fulltextWeight, i, j)
         \/ Better(semantic, query.semanticWeight, i, j)
  PROVE  i \in Fused(query) /\ Score(i, query) > Score(j, query)
<1> DEFINE f(x) == Share(fulltext, x, query.fulltextWeight, query)
           s(x) == Share(semantic, x, query.semanticWeight, query)
<1>1. /\ IsWorth(fulltext, query.fulltextWeight, query)
      /\ IsWorth(semantic, query.semanticWeight, query)
  BY CandidatesSuffice DEF IsWorth, ArmsTyped
<1>2. f(i) \in Nat /\ f(j) \in Nat /\ s(i) \in Nat /\ s(j) \in Nat
  BY <1>1, ShareOfTheBest
<1>3. f(i) >= f(j)
  BY <1>1, NoWorseShare
<1>4. s(i) >= s(j)
  BY <1>1, NoWorseShare
<1>5. CASE Better(fulltext, query.fulltextWeight, i, j)
  <2>1. InBest(fulltext, i, query) /\ f(i) > f(j)
    BY <1>1, <1>5, BetterShare
  <2>2. i \in Fused(query)
    BY <2>1 DEF InBest, Fused
  <2>3. Score(i, query) = f(i) + s(i) /\ Score(j, query) = f(j) + s(j)
    BY DEF Score
  <2> HIDE DEF f, s
  <2> QED
    BY <1>2, <1>4, <2>1, <2>2, <2>3
<1>6. CASE Better(semantic, query.semanticWeight, i, j)
  <2>1. InBest(semantic, i, query) /\ s(i) > s(j)
    BY <1>1, <1>6, BetterShare
  <2>2. i \in Fused(query)
    BY <2>1 DEF InBest, Fused
  <2>3. Score(i, query) = f(i) + s(i) /\ Score(j, query) = f(j) + s(j)
    BY DEF Score
  <2> HIDE DEF f, s
  <2> QED
    BY <1>2, <1>3, <2>1, <2>2, <2>3
<1> QED
  BY <1>5, <1>6

(* What a state holds: two arms of scores, and the answer to the query.    *)
HybridInv ==
    /\ ArmsTyped /\ query \in Query \cup {NoQuery}
    /\ query = NoQuery => result = <<>>
    /\ query # NoQuery => result = Answer(query)

LEMMA AnswerIsExact == ASSUME HybridInv PROVE HybridIsExact
<1>1. CASE query = NoQuery
  <2>1. result = <<>>
    BY <1>1 DEF HybridInv
  <2>2. \A n \in 1 .. Len(result) : FALSE
    BY <2>1
  <2> QED
    BY <1>1, <2>2 DEF HybridIsExact, FillsTheLimit, FusionRespectsArms
<1>2. CASE query # NoQuery
  <2>1. ArmsTyped /\ query \in Query /\ result = Answer(query)
    BY <1>2 DEF HybridInv
  <2>2. FillsTheLimit
    <3>1. Len(result) = Returned(query)
      BY <2>1, AnswerHolds
    <3>2. Returned(query) = IF query.limit < Cardinality(Matches)
                            THEN query.limit ELSE Cardinality(Matches)
      BY <2>1, AsManyAsAllowed
    <3> QED
      BY <3>1, <3>2 DEF FillsTheLimit
  <2>3. FusionRespectsArms
    <3> SUFFICES ASSUME NEW n \in 1 .. Len(result), NEW i \in Hit,
                        NoWorse(fulltext, query.fulltextWeight, i, result[n]),
                        NoWorse(semantic, query.semanticWeight, i, result[n]),
                        \/ Better(fulltext, query.fulltextWeight, i, result[n])
                        \/ Better(semantic, query.semanticWeight, i, result[n])
                 PROVE  \E m \in 1 .. n - 1 : result[m] = i
      BY DEF FusionRespectsArms
    <3> DEFINE j == result[n]
               m == Position(i, query)
    <3>1. Returned(query) \in Nat /\ n \in 1 .. Returned(query)
      BY <2>1, AnswerHolds
    <3>2. j \in Fused(query) /\ Position(j, query) = n
      BY <2>1, <3>1, AnswerHolds
    <3>3. j \in Hit
      BY <3>2, FusedIsFinite
    <3>4. i \in Fused(query) /\ Score(i, query) > Score(j, query)
      BY <2>1, <3>3, ScoreFollowsArms
    <3>5. Sooner(i, j, query)
      BY <3>4 DEF Sooner
    <3>6. m < n
      BY <2>1, <3>2, <3>4, <3>5, PositionsCount
    <3>7. m \in 1 .. Cardinality(Fused(query)) /\ Cardinality(Fused(query)) \in Nat
      BY <2>1, <3>4, PositionsCount, FusedIsFinite
    <3>8. m \in 1 .. n - 1 /\ m <= Returned(query)
      BY <3>1, <3>6, <3>7
    <3>9. result[m] = i
      BY <2>1, <3>4, <3>8, AnswerHolds
    <3> QED
      BY <3>8, <3>9
  <2> QED
    BY <2>2, <2>3 DEF HybridIsExact
<1> QED
  BY <1>1, <1>2

(* A hybrid search answers with as many records as the limit allows and    *)
(* either arm matches, and in an order no arm disagrees with, for any      *)
(* records, scores, weights and limits.                                    *)
THEOREM HybridOrderIsRight == HybridSpec => []HybridIsExact
<1>1. HybridInit => HybridInv
  <2> SUFFICES ASSUME HybridInit
               PROVE  HybridInv
    OBVIOUS
  <2>1. 0 .. MaxScore \in SUBSET Nat
    OBVIOUS
  <2> QED
    BY <2>1 DEF HybridInit, HybridInv, ArmsTyped, Arm
<1>2. HybridInv /\ [HybridNext]_hybridVars => HybridInv'
  <2> SUFFICES ASSUME HybridInv, [HybridNext]_hybridVars
               PROVE  HybridInv'
    OBVIOUS
  <2>1. CASE HybridNext
    <3>1. PICK q \in Query : HybridSearch(q)
      BY <2>1 DEF HybridNext
    <3>2. fulltext' = fulltext /\ semantic' = semantic /\ query' = q /\ result' = Answer(q)
      BY <3>1 DEF HybridSearch, Answer
    <3>3. \A p : Answer(p)' = Answer(p)
      BY <3>2 DEF Answer, Returned, Fused, Best, Rank, Position, Sooner, Score, Share
    <3>4. Answer(query)' = Answer(query')
      BY <3>2, <3>3 DEF Answer, Returned, Fused, Best, Rank, Position, Sooner, Score, Share
    <3>5. result' = Answer(query)'
      BY <3>2, <3>4
    <3>6. q # NoQuery
      <4>1. q.limit \in 1 .. MaxResults
        BY DEF Query
      <4> QED
        BY <4>1, HybridAssumptions DEF NoQuery
    <3>7. ArmsTyped'
      BY <3>2 DEF HybridInv, ArmsTyped
    <3>8. query' \in Query /\ query' # NoQuery
      BY <3>2, <3>6
    <3> QED
      BY <3>5, <3>7, <3>8 DEF HybridInv
  <2>2. CASE UNCHANGED hybridVars
    <3>1. fulltext' = fulltext /\ semantic' = semantic /\ query' = query /\ result' = result
      BY <2>2 DEF hybridVars
    <3>2. Answer(query)' = Answer(query)
      BY <3>1 DEF Answer, Returned, Fused, Best, Rank, Position, Sooner, Score, Share
    <3> QED
      BY <3>1, <3>2 DEF HybridInv, ArmsTyped
  <2> QED
    BY <2>1, <2>2
<1>3. HybridInv => HybridIsExact
  BY AnswerIsExact
<1> QED
  BY <1>1, <1>2, <1>3, PTL DEF HybridSpec

-----------------------------------------------------------------------------
(* Filters. *)

(* A set of numbers has a least member ...                                 *)
LEMMA Smallest ==
  ASSUME NEW S \in SUBSET Nat, S # {}
  PROVE  \E k \in S : \A j \in S : k <= j
<1> DEFINE Less == {p \in Nat \X Nat : p[1] < p[2]}
<1>1. \A p, q \in Nat : <<p, q>> \in Less <=> p < q
  OBVIOUS
<1>2. IsWellFoundedOn(Less, Nat)
  BY NatLessThanWellFounded DEF OpToRel
<1> HIDE DEF Less
<1>3. PICK k \in S : \A j \in S : ~(<<j, k>> \in Less)
  BY <1>2, WFMin, S \subseteq Nat
<1>4. ASSUME NEW j \in S
      PROVE  k <= j
  <2>1. k \in Nat /\ j \in Nat /\ ~(j < k)
    BY <1>1, <1>3
  <2> QED
    BY <2>1
<1> QED
  BY <1>4

(* ... which is where an induction over a set of numbers would fail.       *)
LEMMA SetInduction ==
  ASSUME NEW G, 0 \in G, \A n \in Nat : n \in G => n + 1 \in G
  PROVE  \A n \in Nat : n \in G
<1> DEFINE T == {n \in Nat : n \notin G}
<1> SUFFICES ASSUME T # {}
             PROVE  FALSE
  OBVIOUS
<1>1. PICK m \in T : \A k \in T : m <= k
  <2>1. T \in SUBSET Nat
    OBVIOUS
  <2> HIDE DEF T
  <2> QED
    BY <2>1, Smallest
<1>2. m # 0 /\ m - 1 \in Nat /\ m - 1 \notin T
  BY <1>1
<1> QED
  BY <1>1, <1>2

Grown(F) == Leaf \cup Not(F) \cup Pair(F)

(* g holds the filters of each height up to n.                             *)
Levels(g, n) == g[0] = {} /\ \A h \in 1 .. n : g[h] = Grown(g[h - 1])

LEMMA LevelsExist == ASSUME NEW n \in Nat PROVE \E g : Levels(g, n)
<1> DEFINE G == {k \in Nat : \E g : Levels(g, k)}
<1>1. 0 \in G
  <2> DEFINE g == [h \in {0} |-> {}]
  <2>1. Levels(g, 0)
    BY DEF Levels
  <2> QED
    BY <2>1
<1>2. ASSUME NEW k \in Nat, k \in G
      PROVE  k + 1 \in G
  <2>1. PICK g : Levels(g, k)
    BY <1>2
  <2> DEFINE w == [h \in 0 .. k + 1 |-> IF h <= k THEN g[h] ELSE Grown(g[k])]
  <2>2. w[0] = {}
    BY <2>1 DEF Levels
  <2>3. ASSUME NEW h \in 1 .. k + 1
        PROVE  w[h] = Grown(w[h - 1])
    <3>1. w[h - 1] = g[h - 1]
      OBVIOUS
    <3>2. CASE h <= k
      BY <2>1, <3>1, <3>2 DEF Levels
    <3>3. CASE h = k + 1
      BY <3>1, <3>3
    <3> QED
      BY <3>2, <3>3
  <2>4. Levels(w, k + 1)
    BY <2>2, <2>3 DEF Levels
  <2> QED
    BY <2>4
<1> HIDE DEF G
<1>3. n \in G
  BY <1>1, <1>2, SetInduction
<1> QED
  BY <1>3 DEF G

LEMMA LevelsAreOne ==
  ASSUME NEW n \in Nat, NEW f, NEW g, Levels(f, n), Levels(g, n), NEW h \in 0 .. n
  PROVE  f[h] = g[h]
<1> DEFINE G == {k \in Nat : k <= n => f[k] = g[k]}
<1>1. 0 \in G
  BY DEF Levels
<1>2. ASSUME NEW k \in Nat, k \in G
      PROVE  k + 1 \in G
  <2> SUFFICES ASSUME k + 1 <= n
               PROVE  f[k + 1] = g[k + 1]
    OBVIOUS
  <2>1. f[k] = g[k]
    BY <1>2
  <2>2. k + 1 \in 1 .. n /\ k + 1 - 1 = k
    OBVIOUS
  <2>3. f[k + 1] = Grown(f[k]) /\ g[k + 1] = Grown(g[k])
    BY <2>2 DEF Levels
  <2> QED
    BY <2>1, <2>3
<1> HIDE DEF G
<1>3. h \in G
  BY <1>1, <1>2, SetInduction
<1> QED
  BY <1>3 DEF G

(* The filters of one height are those of the height below, grown.         *)
LEMMA FilterGrows ==
  Filter[0] = {} /\ \A n \in Nat : Filter[n + 1] = Grown(Filter[n])
<1> DEFINE level(n) == CHOOSE g : Levels(g, n)
           F == [n \in Nat |-> level(n)[n]]
<1>1. \A n \in Nat : Levels(level(n), n)
  BY LevelsExist
<1> HIDE DEF level
<1>2. F[0] = {}
  BY <1>1 DEF Levels
<1>3. ASSUME NEW n \in Nat
      PROVE  F[n + 1] = Grown(F[n])
  <2>1. Levels(level(n + 1), n + 1) /\ Levels(level(n), n)
    BY <1>1
  <2>2. Levels(level(n + 1), n)
    BY <2>1 DEF Levels
  <2>3. level(n + 1)[n] = level(n)[n]
    BY <2>1, <2>2, LevelsAreOne
  <2>4. n + 1 \in 1 .. n + 1 /\ n + 1 - 1 = n
    OBVIOUS
  <2>5. level(n + 1)[n + 1] = Grown(level(n + 1)[n])
    BY <2>1, <2>4 DEF Levels
  <2> QED
    BY <2>3, <2>5
<1>4. F = [n \in Nat |-> IF n = 0 THEN {} ELSE Leaf \cup Not(F[n - 1]) \cup Pair(F[n - 1])]
  <2>1. ASSUME NEW n \in Nat
        PROVE  F[n] = IF n = 0 THEN {} ELSE Leaf \cup Not(F[n - 1]) \cup Pair(F[n - 1])
    <3>1. CASE n = 0
      BY <1>2, <3>1
    <3>2. CASE n # 0
      <4>1. n - 1 \in Nat /\ n - 1 + 1 = n
        BY <3>2
      <4>2. F[n] = Grown(F[n - 1])
        BY <1>3, <4>1
      <4> QED
        BY <3>2, <4>2 DEF Grown
    <3> QED
      BY <3>1, <3>2
  <2> QED
    BY <2>1
<1> HIDE DEF F
<1> DEFINE Solves(g) == g = [n \in Nat |-> IF n = 0 THEN {}
                               ELSE Leaf \cup Not(g[n - 1]) \cup Pair(g[n - 1])]
<1>5. Filter = CHOOSE g : Solves(g)
  BY DEF Filter
<1>6. Solves(Filter)
  <2>1. Solves(F)
    BY <1>4
  <2> HIDE DEF Solves
  <2> QED
    BY <1>5, <2>1
<1>7. ASSUME NEW n \in Nat
      PROVE  Filter[n + 1] = Grown(Filter[n])
  <2> DEFINE E == [m \in Nat |-> IF m = 0 THEN {}
                    ELSE Leaf \cup Not(Filter[m - 1]) \cup Pair(Filter[m - 1])]
  <2>1. Filter = E
    BY <1>6
  <2>2. n + 1 \in Nat /\ n + 1 # 0 /\ n + 1 - 1 = n
    OBVIOUS
  <2>3. E[n + 1] = Leaf \cup Not(Filter[n]) \cup Pair(Filter[n])
    BY <2>2
  <2> HIDE DEF E, Solves
  <2>4. Filter[n + 1] = E[n + 1]
    BY <2>1
  <2> QED
    BY <2>3, <2>4 DEF Grown
<1> QED
  BY <1>6, <1>7

(* Higher filters are made of filters one level lower.                     *)
LEMMA FiltersAreBuilt ==
  ASSUME NEW n \in Nat
  PROVE  Filter[n] \in SUBSET Filter[n + 1]
<1> DEFINE G == {k \in Nat : Filter[k] \in SUBSET Filter[k + 1]}
<1>1. 0 \in G
  BY FilterGrows
<1>2. ASSUME NEW k \in Nat, k \in G
      PROVE  k + 1 \in G
  <2>1. Filter[k] \in SUBSET Filter[k + 1]
    BY <1>2
  <2>2. Filter[k + 1] = Grown(Filter[k]) /\ Filter[k + 1 + 1] = Grown(Filter[k + 1])
    BY FilterGrows
  <2>3. \A A, B : A \in SUBSET B => Grown(A) \in SUBSET Grown(B)
    BY DEF Grown, Not, Pair
  <2> QED
    BY <2>1, <2>2, <2>3
<1> HIDE DEF G
<1>3. n \in G
  BY <1>1, <1>2, SetInduction
<1> QED
  BY <1>3 DEF G

(* A filter is a leaf, a negation, or a conjunction or disjunction.        *)
LEMMA FilterShape ==
  ASSUME NEW F, NEW f \in Grown(F)
  PROVE  \/ f \in Leaf /\ f.op = "leaf" /\ f.of \in Indexable \cup {"regexp", "metaPredicate"}
         \/ f.op = "not" /\ f.child \in F /\ f \in Not(F)
         \/ f.op \in {"and", "or"} /\ f.left \in F /\ f.right \in F /\ f \in Pair(F)
BY DEF Grown, Leaf, Not, Pair

(* What a judgement of filters is made of: what it says of leaves, and of  *)
(* the others from what it says of their parts.                            *)
Fold(v, leaf, not, pair, F) ==
    \A f \in F : v[f] =
        IF f.op = "leaf" THEN leaf[f.of]
        ELSE IF f.op = "not" THEN not[v[f.child]]
        ELSE pair[<<f.op, v[f.left], v[f.right]>>]

LEMMA FoldExists ==
  ASSUME NEW leaf, NEW not, NEW pair, NEW n \in Nat
  PROVE  \E v : Fold(v, leaf, not, pair, Filter[n])
<1> DEFINE G == {k \in Nat : \E v : Fold(v, leaf, not, pair, Filter[k])}
<1>1. 0 \in G
  BY FilterGrows DEF Fold
<1>2. ASSUME NEW k \in Nat, k \in G
      PROVE  k + 1 \in G
  <2>1. PICK v : Fold(v, leaf, not, pair, Filter[k])
    BY <1>2
  <2> DEFINE e(f) == IF f.op = "leaf" THEN leaf[f.of]
                     ELSE IF f.op = "not" THEN not[v[f.child]]
                     ELSE pair[<<f.op, v[f.left], v[f.right]>>]
             w == [f \in Filter[k + 1] |-> e(f)]
  <2>2. \A f \in Filter[k] : w[f] = v[f]
    <3>1. \A f \in Filter[k] : v[f] = e(f)
      BY <2>1 DEF Fold
    <3>2. Filter[k] \in SUBSET Filter[k + 1]
      BY FiltersAreBuilt
    <3> HIDE DEF e
    <3> QED
      BY <3>1, <3>2
  <2>3. ASSUME NEW f \in Filter[k + 1]
        PROVE  w[f] = IF f.op = "leaf" THEN leaf[f.of]
                      ELSE IF f.op = "not" THEN not[w[f.child]]
                      ELSE pair[<<f.op, w[f.left], w[f.right]>>]
    <3>1. w[f] = e(f)
      OBVIOUS
    <3>2. f \in Grown(Filter[k])
      BY FilterGrows
    <3> HIDE DEF w
    <3> QED
      BY <2>2, <3>1, <3>2, FilterShape
  <2>4. Fold(w, leaf, not, pair, Filter[k + 1])
    <3> HIDE DEF w
    <3> QED
      BY <2>3 DEF Fold
  <2> QED
    BY <2>4
<1> HIDE DEF G
<1>3. n \in G
  BY <1>1, <1>2, SetInduction
<1> QED
  BY <1>3 DEF G

LEMMA HeightsNest ==
  ASSUME NEW n \in Nat, NEW k \in 0 .. n
  PROVE  Filter[k] \in SUBSET Filter[n]
<1> DEFINE G == {m \in Nat : m >= k => Filter[k] \in SUBSET Filter[m]}
<1>1. 0 \in G
  OBVIOUS
<1>2. ASSUME NEW m \in Nat, m \in G
      PROVE  m + 1 \in G
  <2>1. Filter[m] \in SUBSET Filter[m + 1]
    BY FiltersAreBuilt
  <2>2. m >= k => Filter[k] \in SUBSET Filter[m]
    BY <1>2
  <2>3. m + 1 >= k => m >= k \/ m + 1 = k
    OBVIOUS
  <2> QED
    BY <2>1, <2>2, <2>3
<1> HIDE DEF G
<1>3. n \in G
  BY <1>1, <1>2, SetInduction
<1> QED
  BY <1>3 DEF G

LEMMA PartsAreFilters ==
  ASSUME NEW f \in Filters
  PROVE  \/ f \in Leaf /\ f.op = "leaf" /\ f.of \in Indexable \cup {"regexp", "metaPredicate"}
         \/ f.op = "not" /\ f.child \in Filters
         \/ f.op \in {"and", "or"} /\ f.left \in Filters /\ f.right \in Filters
<1>1. Height + 1 \in Nat /\ Height + 1 + 1 = Height + 2
  BY FilterAssumptions
<1>2. Filters = Grown(Filter[Height + 1])
  BY <1>1, FilterGrows DEF Filters
<1>3. Filter[Height + 1] \in SUBSET Filters
  BY <1>1, FiltersAreBuilt DEF Filters
<1> QED
  BY <1>2, <1>3, FilterShape

(* What holds of leaves, and of others if it holds of their parts, holds.  *)
LEMMA FilterInduction ==
  ASSUME NEW G, Leaf \cap Filters \in SUBSET G,
         \A f \in Filters : f.op = "not" /\ f.child \in Filters \cap G => f \in G,
         \A f \in Filters : f.op \in {"and", "or"} /\ f.left \in Filters \cap G
                           /\ f.right \in Filters \cap G => f \in G
  PROVE  Filters \in SUBSET G
<1> DEFINE H == {k \in Nat : k <= Height + 2 => Filter[k] \in SUBSET G}
<1>0. Height + 2 \in Nat
  BY FilterAssumptions
<1>1. 0 \in H
  BY FilterGrows
<1>2. ASSUME NEW k \in Nat, k \in H
      PROVE  k + 1 \in H
  <2> SUFFICES ASSUME k + 1 <= Height + 2, NEW f \in Filter[k + 1]
               PROVE  f \in G
    OBVIOUS
  <2>1. Filter[k] \in SUBSET G
    BY <1>0, <1>2
  <2>2. k \in 0 .. Height + 2 /\ k + 1 \in 0 .. Height + 2
    BY <1>0
  <2>3. Filter[k] \in SUBSET Filters /\ f \in Filters
    BY <1>0, <2>2, HeightsNest DEF Filters
  <2>4. f \in Grown(Filter[k])
    BY FilterGrows
  <2>5. \/ f \in Leaf
        \/ f.op = "not" /\ f.child \in Filter[k]
        \/ f.op \in {"and", "or"} /\ f.left \in Filter[k] /\ f.right \in Filter[k]
    BY <2>4, FilterShape
  <2> QED
    BY <2>1, <2>3, <2>5
<1> HIDE DEF H
<1>3. Height + 2 \in H
  BY <1>0, <1>1, <1>2, SetInduction
<1> QED
  BY <1>0, <1>3 DEF H, Filters

Names == Indexable \cup {"regexp", "metaPredicate"}

LEMMA FoldOfFilters ==
  ASSUME NEW V, NEW leaf \in [Names -> V], NEW not \in [V -> V],
         NEW pair \in [{"and", "or"} \X V \X V -> V]
  PROVE  \E v \in [Filters -> V] : Fold(v, leaf, not, pair, Filters)
<1>1. PICK w : Fold(w, leaf, not, pair, Filters)
  BY FoldExists, FilterAssumptions DEF Filters
<1> DEFINE G == {f \in Filters : w[f] \in V}
<1>2. Leaf \cap Filters \in SUBSET G
  BY <1>1 DEF Fold, Leaf, Names
<1>3. ASSUME NEW f \in Filters, f.op = "not", f.child \in Filters \cap G
      PROVE  f \in G
  BY <1>1, <1>3 DEF Fold
<1>4. ASSUME NEW f \in Filters, f.op \in {"and", "or"}, f.left \in Filters \cap G,
             f.right \in Filters \cap G
      PROVE  f \in G
  <2>1. <<f.op, w[f.left], w[f.right]>> \in {"and", "or"} \X V \X V
    BY <1>4
  <2>2. f.op # "leaf" /\ f.op # "not"
    BY <1>4
  <2>3. w[f] = pair[<<f.op, w[f.left], w[f.right]>>]
    BY <1>1, <2>2 DEF Fold
  <2> QED
    BY <2>1, <2>3
<1> HIDE DEF G
<1>5. Filters \in SUBSET G
  BY <1>2, <1>3, <1>4, FilterInduction
<1> DEFINE v == [f \in Filters |-> w[f]]
<1>6. v \in [Filters -> V]
  BY <1>5 DEF G
<1>7. Fold(v, leaf, not, pair, Filters)
  <2> SUFFICES ASSUME NEW f \in Filters
               PROVE  v[f] = IF f.op = "leaf" THEN leaf[f.of]
                             ELSE IF f.op = "not" THEN not[v[f.child]]
                             ELSE pair[<<f.op, v[f.left], v[f.right]>>]
    BY DEF Fold
  <2>1. w[f] = IF f.op = "leaf" THEN leaf[f.of]
               ELSE IF f.op = "not" THEN not[w[f.child]]
               ELSE pair[<<f.op, w[f.left], w[f.right]>>]
    BY <1>1 DEF Fold
  <2>2. \A g \in Filters : v[g] = w[g]
    OBVIOUS
  <2> HIDE DEF v
  <2> QED
    BY <2>1, <2>2, PartsAreFilters
<1> HIDE DEF v
<1> QED
  BY <1>6, <1>7

(* The model's judgements are such folds.                                  *)
Verdict == [guard : BOOLEAN, regex : BOOLEAN, unguarded : BOOLEAN, thrown : BOOLEAN]

AnalysisOf(v, f) ==
    IF f.op = "leaf" THEN AnalyzeLeaf(f.of)
    ELSE IF f.op = "not" THEN NotOf(v[f.child])
    ELSE IF f.op = "and" THEN AndOf(v[f.left], v[f.right])
    ELSE OrOf(v[f.left], v[f.right])

LEMMA VerdictsCombine ==
  /\ \A l : AnalyzeLeaf(l) \in Verdict
  /\ \A a \in Verdict : NotOf(a) \in Verdict
  /\ \A a, b \in Verdict : AndOf(a, b) \in Verdict /\ OrOf(a, b) \in Verdict
BY DEF AnalyzeLeaf, NotOf, AndOf, OrOf, Verdict

LEMMA AnalysisFolds ==
  Analysis \in [Filters -> Verdict] /\ \A f \in Filters : Analysis[f] = AnalysisOf(Analysis, f)
<1> DEFINE Solves(v) == v = [f \in Filters |->
                IF f.op = "leaf" THEN AnalyzeLeaf(f.of)
                ELSE IF f.op = "not" THEN NotOf(v[f.child])
                ELSE IF f.op = "and" THEN AndOf(v[f.left], v[f.right])
                ELSE OrOf(v[f.left], v[f.right])]
           leaf == [l \in Names |-> AnalyzeLeaf(l)]
           not == [a \in Verdict |-> NotOf(a)]
           pair == [p \in {"and", "or"} \X Verdict \X Verdict |->
                      IF p[1] = "and" THEN AndOf(p[2], p[3]) ELSE OrOf(p[2], p[3])]
<1>1. leaf \in [Names -> Verdict]
  BY VerdictsCombine
<1>2. not \in [Verdict -> Verdict]
  BY VerdictsCombine
<1>3. pair \in [{"and", "or"} \X Verdict \X Verdict -> Verdict]
  BY VerdictsCombine
<1> HIDE DEF leaf, not, pair
<1>4. PICK v \in [Filters -> Verdict] : Fold(v, leaf, not, pair, Filters)
  BY <1>1, <1>2, <1>3, FoldOfFilters
<1>5. \A f \in Filters : v[f] = AnalysisOf(v, f)
  <2> SUFFICES ASSUME NEW f \in Filters
               PROVE  v[f] = AnalysisOf(v, f)
    OBVIOUS
  <2>1. v[f] = IF f.op = "leaf" THEN leaf[f.of]
               ELSE IF f.op = "not" THEN not[v[f.child]]
               ELSE pair[<<f.op, v[f.left], v[f.right]>>]
    BY <1>4 DEF Fold
  <2>2. CASE f.op = "leaf"
    BY <2>1, <2>2, PartsAreFilters DEF leaf, AnalysisOf, Names
  <2>3. CASE f.op = "not"
    BY <2>1, <2>3, PartsAreFilters DEF not, AnalysisOf
  <2>4. CASE f.op \in {"and", "or"}
    <3>1. v[f.left] \in Verdict /\ v[f.right] \in Verdict
      BY <2>4, PartsAreFilters
    <3>2. <<f.op, v[f.left], v[f.right]>> \in {"and", "or"} \X Verdict \X Verdict
      BY <2>4, <3>1
    <3>3. v[f] = IF f.op = "and" THEN AndOf(v[f.left], v[f.right])
                 ELSE OrOf(v[f.left], v[f.right])
      BY <2>1, <2>4, <3>2 DEF pair
    <3> QED
      BY <2>4, <3>3 DEF AnalysisOf
  <2> QED
    BY <2>2, <2>3, <2>4, PartsAreFilters
<1>6. Solves(v)
  BY <1>5 DEF AnalysisOf
<1>7. Analysis = CHOOSE w : Solves(w)
  BY DEF Analysis
<1>8. Solves(Analysis)
  <2> HIDE DEF Solves
  <2> QED
    BY <1>6, <1>7
<1>9. \A f \in Filters : Analysis[f] = AnalysisOf(Analysis, f)
  <2> DEFINE E == [f \in Filters |-> AnalysisOf(Analysis, f)]
  <2>1. Analysis = E
    BY <1>8 DEF AnalysisOf
  <2>2. \A f \in Filters : E[f] = AnalysisOf(Analysis, f)
    OBVIOUS
  <2> HIDE DEF E, Solves
  <2> QED
    BY <2>1, <2>2
<1> DEFINE G == {f \in Filters : Analysis[f] \in Verdict}
<1> HIDE DEF Solves
<1>10. ASSUME NEW f \in Leaf \cap Filters
       PROVE  f \in G
  <2>1. f.op = "leaf"
    BY DEF Leaf
  <2>2. Analysis[f] = AnalyzeLeaf(f.of)
    BY <1>9, <2>1 DEF AnalysisOf
  <2> QED
    BY <2>2, VerdictsCombine
<1>11. ASSUME NEW f \in Filters, f.op = "not", f.child \in Filters \cap G
       PROVE  f \in G
  <2>1. Analysis[f] = AnalysisOf(Analysis, f) /\ Analysis[f.child] \in Verdict
    BY <1>9, <1>11
  <2>2. Analysis[f] = NotOf(Analysis[f.child])
    BY <1>11, <2>1 DEF AnalysisOf
  <2> QED
    BY <2>1, <2>2, VerdictsCombine
<1>12. ASSUME NEW f \in Filters, f.op \in {"and", "or"}, f.left \in Filters \cap G,
              f.right \in Filters \cap G
       PROVE  f \in G
  <2> DEFINE a == Analysis[f.left]
             b == Analysis[f.right]
  <2>1. Analysis[f] = AnalysisOf(Analysis, f) /\ a \in Verdict /\ b \in Verdict
    BY <1>9, <1>12
  <2>2. Analysis[f] = AndOf(a, b) \/ Analysis[f] = OrOf(a, b)
    BY <1>12, <2>1 DEF AnalysisOf
  <2> HIDE DEF a, b
  <2> QED
    BY <2>1, <2>2, VerdictsCombine
<1> HIDE DEF G
<1>13. Filters \in SUBSET G
  BY <1>10, <1>11, <1>12, FilterInduction
<1>14. Analysis \in [Filters -> Verdict]
  <2>1. \A f \in Filters : Analysis[f] \in Verdict
    BY <1>13 DEF G
  <2>2. Analysis = [f \in Filters |-> Analysis[f]]
    BY <1>8 DEF Solves
  <2> HIDE DEF Solves
  <2> QED
    BY <2>1, <2>2
<1> QED
  BY <1>9, <1>14

Finding == [g : BOOLEAN, r : BOOLEAN, u : BOOLEAN, raised : BOOLEAN]

FindingOf(v, f) ==
    IF f.op = "leaf" THEN GatherLeaf(f.of)
    ELSE IF f.op = "not" THEN GatherNot(v[f.child])
    ELSE Gather(f.op, v[f.left], v[f.right])

LEMMA AnalyzedFolds == \A f \in Filters : Analyzed[f] = FindingOf(Analyzed, f)
<1> DEFINE Solves(v) == v = [f \in Filters |->
                IF f.op = "leaf" THEN GatherLeaf(f.of)
                ELSE IF f.op = "not" THEN GatherNot(v[f.child])
                ELSE Gather(f.op, v[f.left], v[f.right])]
           leaf == [l \in Names |-> GatherLeaf(l)]
           not == [a \in Finding |-> GatherNot(a)]
           pair == [p \in {"and", "or"} \X Finding \X Finding |-> Gather(p[1], p[2], p[3])]
<1>1. leaf \in [Names -> Finding]
  BY DEF GatherLeaf, Finding
<1>2. not \in [Finding -> Finding]
  BY DEF GatherNot, NoGuard, Finding
<1>3. pair \in [{"and", "or"} \X Finding \X Finding -> Finding]
  <2>1. ASSUME NEW o \in {"and", "or"}, NEW a \in Finding, NEW b \in Finding
        PROVE  Gather(o, a, b) \in Finding
    <3>1. \A p, q, r, s \in BOOLEAN : [g |-> p, r |-> q, raised |-> r, u |-> s] \in Finding
      BY DEF Finding
    <3>2. PICK p \in BOOLEAN, q \in BOOLEAN, r \in BOOLEAN, s \in BOOLEAN :
             Gather(o, a, b) = [g |-> p, r |-> q, raised |-> r, u |-> s]
      BY Zenon DEF Gather
    <3> QED
      BY <3>1, <3>2, Zenon
  <2> QED
    BY <2>1
<1> HIDE DEF leaf, not, pair
<1>4. PICK v \in [Filters -> Finding] : Fold(v, leaf, not, pair, Filters)
  BY <1>1, <1>2, <1>3, FoldOfFilters
<1>5. \A f \in Filters : v[f] = FindingOf(v, f)
  <2> SUFFICES ASSUME NEW f \in Filters
               PROVE  v[f] = FindingOf(v, f)
    OBVIOUS
  <2>1. v[f] = IF f.op = "leaf" THEN leaf[f.of]
               ELSE IF f.op = "not" THEN not[v[f.child]]
               ELSE pair[<<f.op, v[f.left], v[f.right]>>]
    BY <1>4 DEF Fold
  <2>2. CASE f.op = "leaf"
    BY <2>1, <2>2, PartsAreFilters DEF leaf, FindingOf, Names
  <2>3. CASE f.op = "not"
    BY <2>1, <2>3, PartsAreFilters DEF not, FindingOf
  <2>4. CASE f.op \in {"and", "or"}
    <3>1. v[f.left] \in Finding /\ v[f.right] \in Finding
      BY <2>4, PartsAreFilters
    <3>2. <<f.op, v[f.left], v[f.right]>> \in {"and", "or"} \X Finding \X Finding
      BY <2>4, <3>1
    <3>3. v[f] = Gather(f.op, v[f.left], v[f.right])
      BY <2>1, <2>4, <3>2 DEF pair
    <3> QED
      BY <2>4, <3>3 DEF FindingOf
  <2> QED
    BY <2>2, <2>3, <2>4, PartsAreFilters
<1>6. Solves(v)
  BY <1>5 DEF FindingOf
<1>7. Analyzed = CHOOSE w : Solves(w)
  BY DEF Analyzed
<1>8. Solves(Analyzed)
  <2> HIDE DEF Solves
  <2> QED
    BY <1>6, <1>7
<1> DEFINE E == [f \in Filters |-> FindingOf(Analyzed, f)]
<1>9. Analyzed = E
  BY <1>8 DEF FindingOf
<1>10. \A f \in Filters : E[f] = FindingOf(Analyzed, f)
  OBVIOUS
<1> HIDE DEF E, Solves
<1> QED
  BY <1>9, <1>10

Truth == {"true", "false", "null"}

ValueOf(v, f) ==
    [row \in Row |->
        IF f.op = "leaf" THEN Coalesce(row[f.of])
        ELSE IF f.op = "not" THEN Negation(v[f.child][row])
        ELSE IF f.op = "and" THEN Conjunction(v[f.left][row], v[f.right][row])
        ELSE Disjunction(v[f.left][row], v[f.right][row])]

LEMMA ValueFolds == \A f \in Filters : Value[f] = ValueOf(Value, f)
<1> DEFINE Solves(v) == v = [f \in Filters |-> [row \in Row |->
                IF f.op = "leaf" THEN Coalesce(row[f.of])
                ELSE IF f.op = "not" THEN Negation(v[f.child][row])
                ELSE IF f.op = "and" THEN Conjunction(v[f.left][row], v[f.right][row])
                ELSE Disjunction(v[f.left][row], v[f.right][row])]]
           V == [Row -> Truth]
           leaf == [l \in Names |-> [row \in Row |-> Coalesce(row[l])]]
           not == [a \in V |-> [row \in Row |-> Negation(a[row])]]
           pair == [p \in {"and", "or"} \X V \X V |-> [row \in Row |->
                      IF p[1] = "and" THEN Conjunction(p[2][row], p[3][row])
                      ELSE Disjunction(p[2][row], p[3][row])]]
<1>1. leaf \in [Names -> V]
  BY DEF Coalesce, Truth, Row, Names
<1>2. not \in [V -> V]
  BY DEF Negation, Truth
<1>3. pair \in [{"and", "or"} \X V \X V -> V]
  <2>1. \A x, y \in Truth : Conjunction(x, y) \in Truth /\ Disjunction(x, y) \in Truth
    BY DEF Conjunction, Disjunction, Negation, Truth
  <2> QED
    BY <2>1
<1> HIDE DEF leaf, not, pair, V
<1>4. PICK v \in [Filters -> V] : Fold(v, leaf, not, pair, Filters)
  BY <1>1, <1>2, <1>3, FoldOfFilters
<1>5. \A f \in Filters : v[f] = ValueOf(v, f)
  <2> SUFFICES ASSUME NEW f \in Filters
               PROVE  v[f] = ValueOf(v, f)
    OBVIOUS
  <2>1. v[f] = IF f.op = "leaf" THEN leaf[f.of]
               ELSE IF f.op = "not" THEN not[v[f.child]]
               ELSE pair[<<f.op, v[f.left], v[f.right]>>]
    BY <1>4 DEF Fold
  <2>2. CASE f.op = "leaf"
    BY <2>1, <2>2, PartsAreFilters DEF leaf, ValueOf, Names
  <2>3. CASE f.op = "not"
    BY <2>1, <2>3, PartsAreFilters DEF not, ValueOf
  <2>4. CASE f.op \in {"and", "or"}
    <3>1. v[f.left] \in V /\ v[f.right] \in V
      BY <2>4, PartsAreFilters
    <3>2. <<f.op, v[f.left], v[f.right]>> \in {"and", "or"} \X V \X V
      BY <2>4, <3>1
    <3>3. v[f] = [row \in Row |-> IF f.op = "and" THEN Conjunction(v[f.left][row], v[f.right][row])
                                  ELSE Disjunction(v[f.left][row], v[f.right][row])]
      BY <2>1, <2>4, <3>2 DEF pair
    <3> QED
      BY <2>4, <3>3 DEF ValueOf
  <2> QED
    BY <2>2, <2>3, <2>4, PartsAreFilters
<1>6. Solves(v)
  BY <1>5 DEF ValueOf
<1>7. Value = CHOOSE w : Solves(w)
  BY DEF Value
<1>8. Solves(Value)
  <2> HIDE DEF Solves
  <2> QED
    BY <1>6, <1>7
<1> DEFINE E == [f \in Filters |-> ValueOf(Value, f)]
<1>9. Value = E
  BY <1>8 DEF ValueOf
<1>10. \A f \in Filters : E[f] = ValueOf(Value, f)
  OBVIOUS
<1> HIDE DEF E, Solves
<1> QED
  BY <1>9, <1>10

LEMMA RequestsAreFilters ==
  /\ Requests \in SUBSET Filters
  /\ \A f \in Requests : [op |-> "not", child |-> f] \in Filters
<1>1. Height \in Nat /\ Height + 1 \in Nat /\ Height + 1 + 1 = Height + 2
  BY FilterAssumptions
<1>2. Filter[Height + 1] = Grown(Filter[Height]) /\ Filters = Grown(Filter[Height + 1])
  BY <1>1, FilterGrows DEF Filters
<1>3. Filter[Height] \in SUBSET Filter[Height + 1] /\ Filter[Height + 1] \in SUBSET Filters
  BY <1>1, FiltersAreBuilt DEF Filters
<1>4. Requests \in SUBSET Filter[Height + 1]
  BY <1>2, <1>3 DEF Requests, Grown
<1>5. ASSUME NEW f \in Filter[Height + 1]
      PROVE  [op |-> "not", child |-> f] \in Filters
  BY <1>2 DEF Grown, Not
<1> QED
  BY <1>3, <1>4, <1>5

(* What each kind of filter is judged.                                     *)
LEMMA LeafJudged ==
  ASSUME NEW f \in Filters, f.op = "leaf"
  PROVE  /\ f.of \in Names
         /\ Analysis[f] = AnalyzeLeaf(f.of) /\ Analyzed[f] = GatherLeaf(f.of)
         /\ \A row \in Row : Value[f][row] = Coalesce(row[f.of])
<1>1. f.of \in Names
  BY PartsAreFilters DEF Names
<1>2. Analysis[f] = AnalysisOf(Analysis, f) /\ Analyzed[f] = FindingOf(Analyzed, f)
      /\ Value[f] = ValueOf(Value, f)
  BY AnalysisFolds, AnalyzedFolds, ValueFolds
<1> QED
  BY <1>1, <1>2 DEF AnalysisOf, FindingOf, ValueOf

LEMMA NotJudged ==
  ASSUME NEW f \in Filters, f.op = "not"
  PROVE  /\ f.child \in Filters
         /\ Analysis[f] = NotOf(Analysis[f.child]) /\ Analyzed[f] = GatherNot(Analyzed[f.child])
         /\ \A row \in Row : Value[f][row] = Negation(Value[f.child][row])
<1>1. f.child \in Filters
  BY PartsAreFilters
<1>2. Analysis[f] = AnalysisOf(Analysis, f) /\ Analyzed[f] = FindingOf(Analyzed, f)
      /\ Value[f] = ValueOf(Value, f)
  BY AnalysisFolds, AnalyzedFolds, ValueFolds
<1>3. Analysis[f] = NotOf(Analysis[f.child]) /\ Analyzed[f] = GatherNot(Analyzed[f.child])
  BY <1>2 DEF AnalysisOf, FindingOf
<1>4. ASSUME NEW row \in Row
      PROVE  Value[f][row] = Negation(Value[f.child][row])
  BY <1>2 DEF ValueOf
<1> QED
  BY <1>1, <1>3, <1>4

LEMMA PairJudged ==
  ASSUME NEW f \in Filters, f.op \in {"and", "or"}
  PROVE  /\ f.left \in Filters /\ f.right \in Filters
         /\ Analysis[f] = IF f.op = "and" THEN AndOf(Analysis[f.left], Analysis[f.right])
                          ELSE OrOf(Analysis[f.left], Analysis[f.right])
         /\ Analyzed[f] = Gather(f.op, Analyzed[f.left], Analyzed[f.right])
         /\ \A row \in Row : Value[f][row] =
               IF f.op = "and" THEN Conjunction(Value[f.left][row], Value[f.right][row])
               ELSE Disjunction(Value[f.left][row], Value[f.right][row])
<1>0. f.op # "leaf" /\ f.op # "not"
  OBVIOUS
<1>1. f.left \in Filters /\ f.right \in Filters
  BY PartsAreFilters
<1>2. Analysis[f] = AnalysisOf(Analysis, f) /\ Analyzed[f] = FindingOf(Analyzed, f)
      /\ Value[f] = ValueOf(Value, f)
  BY AnalysisFolds, AnalyzedFolds, ValueFolds
<1>3. /\ Analysis[f] = IF f.op = "and" THEN AndOf(Analysis[f.left], Analysis[f.right])
                       ELSE OrOf(Analysis[f.left], Analysis[f.right])
      /\ Analyzed[f] = Gather(f.op, Analyzed[f.left], Analyzed[f.right])
  BY <1>0, <1>2, Zenon DEF AnalysisOf, FindingOf
<1>4. ASSUME NEW row \in Row
      PROVE  Value[f][row] =
               IF f.op = "and" THEN Conjunction(Value[f.left][row], Value[f.right][row])
               ELSE Disjunction(Value[f.left][row], Value[f.right][row])
  BY <1>0, <1>2 DEF ValueOf
<1> QED
  BY <1>1, <1>3, <1>4

(* A compiled filter is true or false of every record.                     *)
LEMMA FiltersDecide ==
  ASSUME NEW row \in Row, NEW f \in Filters
  PROVE  Value[f][row] \in {"true", "false"}
<1> DEFINE G == {g \in Filters : Value[g][row] \in {"true", "false"}}
<1>1. ASSUME NEW g \in Leaf \cap Filters
      PROVE  g \in G
  <2>1. g.op = "leaf"
    BY DEF Leaf
  <2>2. Value[g][row] = Coalesce(row[g.of]) /\ g.of \in Names
    BY <2>1, LeafJudged
  <2>3. row[g.of] \in {"true", "false", "null"}
    BY <2>2 DEF Row, Names
  <2> QED
    BY <2>2, <2>3 DEF Coalesce
<1>2. ASSUME NEW g \in Filters, g.op = "not", g.child \in Filters \cap G
      PROVE  g \in G
  <2>1. Value[g][row] = Negation(Value[g.child][row])
    BY <1>2, NotJudged
  <2> QED
    BY <1>2, <2>1 DEF Negation
<1>3. ASSUME NEW g \in Filters, g.op \in {"and", "or"}, g.left \in Filters \cap G,
             g.right \in Filters \cap G
      PROVE  g \in G
  <2> DEFINE v == Value[g.left][row]
             w == Value[g.right][row]
  <2>1. Value[g][row] = Conjunction(v, w) \/ Value[g][row] = Disjunction(v, w)
    BY <1>3, PairJudged
  <2>2. v \in {"true", "false"} /\ w \in {"true", "false"}
    BY <1>3
  <2> HIDE DEF v, w
  <2> QED
    BY <2>1, <2>2 DEF Conjunction, Disjunction, Negation
<1> HIDE DEF G
<1>4. Filters \in SUBSET G
  BY <1>1, <1>2, <1>3, FilterInduction
<1> QED
  BY <1>4 DEF G

(* What the library finds in a filter, the database finds.                 *)
Same(a, b) ==
    /\ a.guard <=> b.g
    /\ a.regex <=> b.r
    /\ a.unguarded <=> b.u
    /\ a.thrown <=> b.raised

LEMMA FindingsAgree == \A f \in Filters : Same(Analysis[f], Analyzed[f])
<1> DEFINE G == {f \in Filters : Same(Analysis[f], Analyzed[f])}
<1>1. ASSUME NEW f \in Leaf \cap Filters
      PROVE  f \in G
  <2>1. f.op = "leaf"
    BY DEF Leaf
  <2>2. Same(AnalyzeLeaf(f.of), GatherLeaf(f.of))
    BY DEF Same, AnalyzeLeaf, GatherLeaf
  <2> QED
    BY <2>1, <2>2, LeafJudged
<1>2. ASSUME NEW f \in Filters, f.op = "not", f.child \in Filters \cap G
      PROVE  f \in G
  <2>1. Same(Analysis[f.child], Analyzed[f.child])
    BY <1>2
  <2>2. Same(NotOf(Analysis[f.child]), GatherNot(Analyzed[f.child]))
    BY <2>1 DEF Same, NotOf, GatherNot, NoGuard
  <2> QED
    BY <1>2, <2>2, NotJudged
<1>3. ASSUME NEW f \in Filters, f.op \in {"and", "or"}, f.left \in Filters \cap G,
             f.right \in Filters \cap G
      PROVE  f \in G
  <2>1. \A a, b, c, d : Same(a, c) /\ Same(b, d)
            => Same(AndOf(a, b), Gather("and", c, d)) /\ Same(OrOf(a, b), Gather("or", c, d))
    BY DEF Same, AndOf, OrOf, Gather
  <2>2. Same(Analysis[f.left], Analyzed[f.left]) /\ Same(Analysis[f.right], Analyzed[f.right])
    BY <1>3
  <2>3. CASE f.op = "and"
    BY <1>3, <2>1, <2>2, <2>3, PairJudged
  <2>4. CASE f.op = "or"
    BY <1>3, <2>1, <2>2, <2>4, PairJudged
  <2> QED
    BY <1>3, <2>3, <2>4
<1> HIDE DEF G
<1>4. Filters \in SUBSET G
  BY <1>1, <1>2, <1>3, FilterInduction
<1> QED
  BY <1>4 DEF G

(* Two records that differ in what a regexp says of them, and that no      *)
(* indexable leaf selects.                                                 *)
Bare(row) == \A l \in Indexable : row[l] # "true"

Alike(row, other) ==
    /\ row \in Row /\ other \in Row /\ Bare(row) /\ Bare(other)
    /\ \A l \in Names : l # "regexp" => row[l] = other[l]

(* What an analysis that did not throw promises of them.                   *)
Settled(f, row, other) ==
    Analysis[f].thrown
    \/ /\ ~Analysis[f].regex => Value[f][row] = Value[f][other]
       /\ ~Analysis[f].unguarded => Value[f][row] = Value[f][other]
       /\ Analysis[f].guard => Value[f][row] = "false" /\ Value[f][other] = "false"

LEMMA VerdictParts ==
  /\ \A l : /\ AnalyzeLeaf(l).guard => l \notin {"regexp", "metaPredicate"}
            /\ AnalyzeLeaf("regexp").regex /\ AnalyzeLeaf("regexp").unguarded
            /\ ~AnalyzeLeaf("regexp").guard
  /\ \A a : /\ NotOf(a).thrown <=> a.thrown \/ a.regex
            /\ ~NotOf(a).guard
  /\ \A a, b : /\ AndOf(a, b).thrown <=> a.thrown \/ b.thrown
               /\ AndOf(a, b).guard <=> a.guard \/ b.guard
               /\ AndOf(a, b).regex <=> a.regex \/ b.regex
               /\ AndOf(a, b).unguarded <=> (a.unguarded \/ b.unguarded) /\ ~(a.guard \/ b.guard)
  /\ \A a, b : /\ OrOf(a, b).thrown <=> a.thrown \/ b.thrown
               /\ OrOf(a, b).guard <=> a.guard /\ b.guard /\ ~(a.regex \/ b.regex)
               /\ OrOf(a, b).regex <=> a.regex \/ b.regex
               /\ OrOf(a, b).unguarded <=> a.unguarded \/ b.unguarded
<1>1. \A l : /\ AnalyzeLeaf(l).guard => l \notin {"regexp", "metaPredicate"}
            /\ AnalyzeLeaf("regexp").regex /\ AnalyzeLeaf("regexp").unguarded
            /\ ~AnalyzeLeaf("regexp").guard
  BY DEF AnalyzeLeaf
<1>2. \A a : /\ NotOf(a).thrown <=> a.thrown \/ a.regex
            /\ ~NotOf(a).guard
  BY DEF NotOf
<1>3. ASSUME NEW a, NEW b
      PROVE  /\ AndOf(a, b).thrown <=> a.thrown \/ b.thrown
             /\ AndOf(a, b).guard <=> a.guard \/ b.guard
             /\ AndOf(a, b).regex <=> a.regex \/ b.regex
             /\ AndOf(a, b).unguarded <=> (a.unguarded \/ b.unguarded) /\ ~(a.guard \/ b.guard)
  <2>1. AndOf(a, b).thrown = (a.thrown \/ b.thrown)
    BY DEF AndOf
  <2>2. AndOf(a, b).guard = (a.guard \/ b.guard)
    BY DEF AndOf
  <2>3. AndOf(a, b).regex = (a.regex \/ b.regex)
    BY DEF AndOf
  <2>4. AndOf(a, b).unguarded = ((a.unguarded \/ b.unguarded) /\ ~(a.guard \/ b.guard))
    BY DEF AndOf
  <2> QED
    BY <2>1, <2>2, <2>3, <2>4, Zenon
<1>4. ASSUME NEW a, NEW b
      PROVE  /\ OrOf(a, b).thrown <=> a.thrown \/ b.thrown
             /\ OrOf(a, b).guard <=> a.guard /\ b.guard /\ ~(a.regex \/ b.regex)
             /\ OrOf(a, b).regex <=> a.regex \/ b.regex
             /\ OrOf(a, b).unguarded <=> a.unguarded \/ b.unguarded
  <2>1. OrOf(a, b).thrown = (a.thrown \/ b.thrown)
    BY DEF OrOf
  <2>2. OrOf(a, b).guard = (a.guard /\ b.guard /\ ~(a.regex \/ b.regex))
    BY DEF OrOf
  <2>3. OrOf(a, b).regex = (a.regex \/ b.regex)
    BY DEF OrOf
  <2>4. OrOf(a, b).unguarded = (a.unguarded \/ b.unguarded)
    BY DEF OrOf
  <2> QED
    BY <2>1, <2>2, <2>3, <2>4, Zenon
<1> QED
  BY <1>1, <1>2, <1>3, <1>4, Zenon

LEMMA LeavesSettled ==
  ASSUME NEW row, NEW other, Alike(row, other), NEW f \in Filters, f.op = "leaf"
  PROVE  Settled(f, row, other)
<1>1. /\ f.of \in Names /\ Analysis[f] = AnalyzeLeaf(f.of)
      /\ Value[f][row] = Coalesce(row[f.of]) /\ Value[f][other] = Coalesce(other[f.of])
  BY LeafJudged DEF Alike
<1>2. CASE f.of = "regexp"
  BY <1>1, <1>2, VerdictParts DEF Settled
<1>3. CASE f.of # "regexp"
  <2>1. Value[f][row] = Value[f][other]
    BY <1>1, <1>3 DEF Alike
  <2>2. ASSUME f.of \in Indexable
        PROVE  Value[f][row] = "false" /\ Value[f][other] = "false"
    <3>1. row[f.of] \in {"false", "null"} /\ other[f.of] \in {"false", "null"}
      BY <2>2 DEF Alike, Bare, Row
    <3> QED
      BY <1>1, <3>1 DEF Coalesce
  <2>3. Analysis[f].guard => f.of \in Indexable
    BY <1>1, VerdictParts DEF Names
  <2> QED
    BY <2>1, <2>2, <2>3 DEF Settled
<1> QED
  BY <1>2, <1>3

LEMMA NotsSettled ==
  ASSUME NEW row, NEW other, Alike(row, other), NEW f \in Filters, f.op = "not",
         Settled(f.child, row, other)
  PROVE  Settled(f, row, other)
<1>1. /\ Analysis[f] = NotOf(Analysis[f.child])
      /\ Value[f][row] = Negation(Value[f.child][row])
      /\ Value[f][other] = Negation(Value[f.child][other])
  BY NotJudged DEF Alike
<1>2. Analysis[f].thrown <=> Analysis[f.child].thrown \/ Analysis[f.child].regex
  BY <1>1, VerdictParts
<1>3. ~Analysis[f].guard
  BY <1>1, VerdictParts
<1>4. ~Analysis[f].thrown => Value[f][row] = Value[f][other]
  BY <1>1, <1>2 DEF Settled
<1> QED
  BY <1>3, <1>4 DEF Settled

LEMMA PairsSettled ==
  ASSUME NEW row, NEW other, Alike(row, other), NEW f \in Filters, f.op \in {"and", "or"},
         Settled(f.left, row, other), Settled(f.right, row, other)
  PROVE  Settled(f, row, other)
<1> DEFINE a == Analysis[f.left]
           b == Analysis[f.right]
           v == Value[f.left][row]
           w == Value[f.right][row]
           x == Value[f.left][other]
           y == Value[f.right][other]
<1>1. {v, w, x, y} \in SUBSET {"true", "false"}
  BY PairJudged, FiltersDecide DEF Alike
<1>2. a.thrown \/ b.thrown
      \/ /\ (~a.regex \/ ~a.unguarded => v = x) /\ (a.guard => v = "false" /\ x = "false")
         /\ (~b.regex \/ ~b.unguarded => w = y) /\ (b.guard => w = "false" /\ y = "false")
  BY DEF Settled
<1>3. CASE f.op = "and"
  <2>1. /\ Analysis[f] = AndOf(a, b) /\ Value[f][row] = Conjunction(v, w)
        /\ Value[f][other] = Conjunction(x, y)
    BY <1>3, PairJudged DEF Alike
  <2>2. /\ Analysis[f].thrown <=> a.thrown \/ b.thrown
        /\ Analysis[f].guard <=> a.guard \/ b.guard
        /\ Analysis[f].regex <=> a.regex \/ b.regex
        /\ Analysis[f].unguarded <=> (a.unguarded \/ b.unguarded) /\ ~(a.guard \/ b.guard)
    BY <2>1, VerdictParts
  <2>3. /\ v = x /\ w = y => Value[f][row] = Value[f][other]
        /\ (v = "false" /\ x = "false") \/ (w = "false" /\ y = "false")
             => Value[f][row] = "false" /\ Value[f][other] = "false"
    BY <2>1 DEF Conjunction
  <2> HIDE DEF a, b, v, w, x, y
  <2> QED
    BY <1>2, <2>2, <2>3, Zenon DEF Settled
<1>4. CASE f.op = "or"
  <2>1. /\ Analysis[f] = OrOf(a, b) /\ Value[f][row] = Disjunction(v, w)
        /\ Value[f][other] = Disjunction(x, y)
    BY <1>4, PairJudged DEF Alike
  <2>2. /\ Analysis[f].thrown <=> a.thrown \/ b.thrown
        /\ Analysis[f].guard <=> a.guard /\ b.guard /\ ~(a.regex \/ b.regex)
        /\ Analysis[f].regex <=> a.regex \/ b.regex
        /\ Analysis[f].unguarded <=> a.unguarded \/ b.unguarded
    BY <2>1, VerdictParts
  <2>3. /\ v = x /\ w = y => Value[f][row] = Value[f][other]
        /\ v = "false" /\ x = "false" /\ w = "false" /\ y = "false"
             => Value[f][row] = "false" /\ Value[f][other] = "false"
    BY <2>1 DEF Disjunction, Conjunction, Negation
  <2> HIDE DEF a, b, v, w, x, y
  <2> QED
    BY <1>2, <2>2, <2>3, Zenon DEF Settled
<1> QED
  BY <1>3, <1>4

LEMMA AllSettled ==
  ASSUME NEW row, NEW other, Alike(row, other), NEW f \in Filters
  PROVE  Settled(f, row, other)
<1> DEFINE G == {g \in Filters : Settled(g, row, other)}
<1>1. Leaf \cap Filters \in SUBSET G
  <2> SUFFICES ASSUME NEW g \in Leaf \cap Filters
               PROVE  g \in G
    OBVIOUS
  <2>1. g.op = "leaf"
    BY DEF Leaf
  <2> QED
    BY <2>1, LeavesSettled
<1>2. \A g \in Filters : g.op = "not" /\ g.child \in Filters \cap G => g \in G
  BY NotsSettled
<1>3. \A g \in Filters : g.op \in {"and", "or"} /\ g.left \in Filters \cap G
                        /\ g.right \in Filters \cap G => g \in G
  BY PairsSettled
<1> HIDE DEF G
<1>4. Filters \in SUBSET G
  BY <1>1, <1>2, <1>3, FilterInduction
<1> QED
  BY <1>4 DEF G

(* Each side has judged the request, or not yet.                           *)
LibraryStops ==
    \/ Deep[filter] > MaxDepth \/ Nodes[filter] > MaxNodes
    \/ ~ranked /\ (Analysis[filter].unguarded \/ Analysis[filter].thrown)

DatabaseStops ==
    Deep[filter] > MaxDepth \/ (~ranked /\ (Analyzed[filter].u \/ Analyzed[filter].raised))

FilterInv ==
    /\ filter \in Requests
    /\ library = "none" \/ library = (IF LibraryStops THEN "rejected" ELSE "accepted")
    /\ database = "none" \/ database = (IF DatabaseStops THEN "rejected" ELSE "accepted")

LEMMA JudgesAgree == ASSUME FilterInv PROVE GuardsAgree
<1>1. filter \in Filters
  BY RequestsAreFilters DEF FilterInv
<1>2. Same(Analysis[filter], Analyzed[filter])
  BY <1>1, FindingsAgree
<1>3. LibraryStops <=> DatabaseStops \/ Nodes[filter] > MaxNodes
  BY <1>2, Zenon DEF LibraryStops, DatabaseStops, Same
<1>4. SameVerdict
  <2> SUFFICES ASSUME library # "none", database # "none"
               PROVE  library = database \/ (library = "rejected" /\ Nodes[filter] > MaxNodes)
    BY DEF SameVerdict
  <2>1. library = (IF LibraryStops THEN "rejected" ELSE "accepted")
        /\ database = (IF DatabaseStops THEN "rejected" ELSE "accepted")
    BY DEF FilterInv
  <2> QED
    BY <1>3, <2>1, Zenon
<1>5. RegexNeverDrives
  <2> SUFFICES ASSUME database = "accepted", ~ranked, NEW row \in Row,
                      \A l \in Indexable : row[l] # "true", NEW v \in {"true", "false", "null"}
               PROVE  Value[filter][[row EXCEPT !["regexp"] = v]] = Value[filter][row]
    BY DEF RegexNeverDrives
  <2> DEFINE other == [row EXCEPT !["regexp"] = v]
  <2>1. ~DatabaseStops
    BY DEF FilterInv
  <2>2. ~Analysis[filter].unguarded /\ ~Analysis[filter].thrown
    BY <1>2, <2>1 DEF DatabaseStops, Same
  <2>3. Alike(row, other)
    <3>1. other \in Row
      BY DEF Row
    <3>2. \A l \in Names : l # "regexp" => row[l] = other[l]
      BY DEF Row, Names
    <3>3. \A l \in Indexable : l # "regexp" /\ l \in Names
      BY FilterAssumptions DEF Names
    <3>4. Bare(row) /\ Bare(other)
      BY <3>2, <3>3 DEF Bare
    <3> QED
      BY <3>1, <3>2, <3>4 DEF Alike
  <2> HIDE DEF other
  <2>4. Value[filter][row] = Value[filter][other]
    BY <1>1, <2>2, <2>3, AllSettled DEF Settled
  <2> QED
    BY <2>4 DEF other
<1> QED
  BY <1>4, <1>5 DEF GuardsAgree

LEMMA NegationDecides == ASSUME FilterInv PROVE NotIsComplement
<1> DEFINE f == [op |-> "not", child |-> filter]
<1>1. filter \in Filters /\ f \in Filters
  BY RequestsAreFilters DEF FilterInv
<1>2. f.op = "not" /\ f.child = filter
  OBVIOUS
<1>3. ASSUME NEW row \in Row
      PROVE  Value[f][row] = "true" <=> Value[filter][row] # "true"
  <2> HIDE DEF f
  <2>1. Value[f][row] = Negation(Value[filter][row])
    BY <1>1, <1>2, NotJudged
  <2>2. Value[filter][row] \in {"true", "false"}
    BY <1>1, FiltersDecide
  <2> QED
    BY <2>1, <2>2 DEF Negation
<1> QED
  BY <1>3 DEF NotIsComplement

(* Every request keeps that.                                               *)
LEMMA JudgingKeeps == FilterInv /\ [FilterNext]_filterVars => FilterInv'
<1> SUFFICES ASSUME FilterInv, [FilterNext]_filterVars
             PROVE  FilterInv'
  OBVIOUS
<1>1. CASE Search
  <2>1. filter' = filter /\ ranked' = ranked /\ database' = database
    BY <1>1 DEF Search
  <2>2. library' = IF LibraryStops THEN "rejected" ELSE "accepted"
    BY <1>1 DEF Search, LibraryStops
  <2>3. (LibraryStops <=> LibraryStops') /\ (DatabaseStops <=> DatabaseStops')
    BY <2>1, Zenon DEF LibraryStops, DatabaseStops
  <2> QED
    BY <2>1, <2>2, <2>3 DEF FilterInv
<1>2. CASE SearchRecords
  <2>1. filter' = filter /\ ranked' = ranked /\ library' = library
    BY <1>2 DEF SearchRecords
  <2>2. database' = IF DatabaseStops THEN "rejected" ELSE "accepted"
    BY <1>2 DEF SearchRecords, DatabaseStops, TooDeep
  <2>3. (LibraryStops <=> LibraryStops') /\ (DatabaseStops <=> DatabaseStops')
    BY <2>1, Zenon DEF LibraryStops, DatabaseStops
  <2> QED
    BY <2>1, <2>2, <2>3 DEF FilterInv
<1>3. CASE UNCHANGED filterVars
  <2>1. filter' = filter /\ ranked' = ranked /\ library' = library /\ database' = database
    BY <1>3 DEF filterVars
  <2>2. (LibraryStops <=> LibraryStops') /\ (DatabaseStops <=> DatabaseStops')
    BY <2>1, Zenon DEF LibraryStops, DatabaseStops
  <2> QED
    BY <2>1, <2>2 DEF FilterInv
<1> QED
  BY <1>1, <1>2, <1>3 DEF FilterNext

(* Both sides of the wire draw one line through all filters, however high  *)
(* they are, and behind it no regexp decides a record that no indexable    *)
(* leaf selects.                                                           *)
THEOREM GuardsAlwaysAgree == FilterSpec => []GuardsAgree
<1>1. FilterInit => FilterInv
  BY DEF FilterInit, FilterInv
<1>2. FilterInv => GuardsAgree
  BY JudgesAgree
<1> QED
  BY <1>1, <1>2, JudgingKeeps, PTL DEF FilterSpec

(* Every record satisfies a filter or its negation, whatever fields the    *)
(* record lacks and however the filter nests.                              *)
THEOREM NegationIsExact == FilterSpec => []NotIsComplement
<1>1. FilterInit => FilterInv
  BY DEF FilterInit, FilterInv
<1>2. FilterInv => NotIsComplement
  BY NegationDecides
<1> QED
  BY <1>1, <1>2, JudgingKeeps, PTL DEF FilterSpec

-----------------------------------------------------------------------------
(* Truncation. *)

(* s sums up the first n of a row.                                         *)
AddsUp(s, row, n) ==
    /\ s \in [0 .. n -> Nat] /\ s[0] = 0
    /\ \A k \in 1 .. n : s[k] = s[k - 1] + row[k]

LEMMA RowsAreNumbers ==
  ASSUME NEW row \in Seq(Nat), NEW i \in 1 .. Len(row)
  PROVE  row[i] \in Nat
OBVIOUS

LEMMA SumsExist ==
  ASSUME NEW row \in Seq(Nat), NEW n \in Nat, n <= Len(row)
  PROVE  \E s : AddsUp(s, row, n)
<1> DEFINE G == {m \in Nat : m <= Len(row) => \E s : AddsUp(s, row, m)}
<1>1. 0 \in G
  <2> DEFINE s == [k \in 0 .. 0 |-> 0]
  <2>1. AddsUp(s, row, 0)
    BY DEF AddsUp
  <2> QED
    BY <2>1
<1>2. ASSUME NEW m \in Nat, m \in G
      PROVE  m + 1 \in G
  <2> SUFFICES ASSUME m + 1 <= Len(row)
               PROVE  \E s : AddsUp(s, row, m + 1)
    OBVIOUS
  <2>1. PICK s : AddsUp(s, row, m)
    BY <1>2
  <2> DEFINE w == [k \in 0 .. m + 1 |-> IF k <= m THEN s[k] ELSE s[m] + row[m + 1]]
  <2>2. row[m + 1] \in Nat /\ s[m] \in Nat
    BY <2>1 DEF AddsUp
  <2>3. w \in [0 .. m + 1 -> Nat] /\ w[0] = 0
    BY <2>1, <2>2 DEF AddsUp
  <2>4. ASSUME NEW k \in 1 .. m + 1
        PROVE  w[k] = w[k - 1] + row[k]
    <3>1. w[k - 1] = s[k - 1]
      OBVIOUS
    <3>2. CASE k <= m
      BY <2>1, <3>1, <3>2 DEF AddsUp
    <3>3. CASE k = m + 1
      BY <3>1, <3>3
    <3> QED
      BY <3>2, <3>3
  <2>5. AddsUp(w, row, m + 1)
    BY <2>3, <2>4 DEF AddsUp
  <2> QED
    BY <2>5
<1> HIDE DEF G
<1>3. n \in G
  BY <1>1, <1>2, SetInduction
<1> QED
  BY <1>3 DEF G

LEMMA SumsAddUp ==
  ASSUME NEW row \in Seq(Nat)
  PROVE  AddsUp(Sums(row), row, Len(row))
<1> DEFINE Solves(s) == s = [n \in 0 .. Len(row) |-> IF n = 0 THEN 0 ELSE s[n - 1] + row[n]]
<1>1. PICK s : AddsUp(s, row, Len(row))
  BY SumsExist
<1>2. Solves(s)
  <2>1. \A n \in 0 .. Len(row) : s[n] = IF n = 0 THEN 0 ELSE s[n - 1] + row[n]
    BY <1>1 DEF AddsUp
  <2>2. s = [n \in 0 .. Len(row) |-> s[n]]
    BY <1>1 DEF AddsUp
  <2> QED
    BY <2>1, <2>2
<1>3. Sums(row) = CHOOSE w : Solves(w)
  BY DEF Sums
<1> HIDE DEF Solves
<1>4. Solves(Sums(row))
  BY <1>2, <1>3
<1> DEFINE S == Sums(row)
           E == [n \in 0 .. Len(row) |-> IF n = 0 THEN 0 ELSE S[n - 1] + row[n]]
<1>5. S = E
  BY <1>4 DEF Solves
<1>6. \A n \in 0 .. Len(row) : E[n] = IF n = 0 THEN 0 ELSE S[n - 1] + row[n]
  OBVIOUS
<1>7. E = [n \in 0 .. Len(row) |-> E[n]]
  OBVIOUS
<1> HIDE DEF E, S
<1>8. /\ S[0] = 0
      /\ \A n \in 1 .. Len(row) : S[n] = S[n - 1] + row[n]
  BY <1>5, <1>6
<1> DEFINE G == {n \in Nat : n <= Len(row) => S[n] \in Nat}
<1>9. 0 \in G
  BY <1>8
<1>10. ASSUME NEW n \in Nat, n \in G
       PROVE  n + 1 \in G
  <2> SUFFICES ASSUME n + 1 <= Len(row)
               PROVE  S[n + 1] \in Nat
    OBVIOUS
  <2>0. n + 1 \in 1 .. Len(row) /\ n <= Len(row)
    OBVIOUS
  <2>1. S[n] \in Nat
    BY <1>10, <2>0
  <2>3. row[n + 1] \in Nat
    BY <2>0, RowsAreNumbers
  <2>2. S[n + 1] = S[n + 1 - 1] + row[n + 1] /\ n + 1 - 1 = n
    BY <1>8, <2>0
  <2> QED
    BY <2>1, <2>2, <2>3
<1> HIDE DEF G
<1>11. \A n \in Nat : n \in G
  BY <1>9, <1>10, SetInduction
<1>12. S \in [0 .. Len(row) -> Nat]
  <2>1. \A n \in 0 .. Len(row) : S[n] \in Nat
    BY <1>11 DEF G
  <2>2. S = [n \in 0 .. Len(row) |-> S[n]]
    BY <1>5, <1>7
  <2> QED
    BY <2>1, <2>2
<1> QED
  BY <1>8, <1>12 DEF AddsUp, S

(* Sums grow, and are the same of what begins the same.                    *)
LEMMA SumsGrow ==
  ASSUME NEW row \in Seq(Nat), NEW m \in 0 .. Len(row), NEW n \in 0 .. Len(row), m <= n
  PROVE  Sums(row)[m] <= Sums(row)[n]
<1> DEFINE S == Sums(row)
           G == {k \in Nat : m <= k /\ k <= Len(row) => S[m] <= S[k]}
<1>0. AddsUp(S, row, Len(row))
  BY SumsAddUp
<1> HIDE DEF S
<1>1. 0 \in G
  BY <1>0 DEF AddsUp
<1>2. ASSUME NEW k \in Nat, k \in G
      PROVE  k + 1 \in G
  <2> SUFFICES ASSUME m <= k + 1, k + 1 <= Len(row)
               PROVE  S[m] <= S[k + 1]
    OBVIOUS
  <2>0. k + 1 \in 1 .. Len(row) /\ k \in 0 .. Len(row) /\ k + 1 \in 0 .. Len(row)
    OBVIOUS
  <2>1. S[m] \in Nat /\ S[k] \in Nat /\ S[k + 1] \in Nat /\ row[k + 1] \in Nat
    <3>1. \A j \in 0 .. Len(row) : S[j] \in Nat
      BY <1>0 DEF AddsUp
    <3> QED
      BY <2>0, <3>1, RowsAreNumbers
  <2>2. S[k + 1] = S[k] + row[k + 1]
    <3>1. S[k + 1] = S[k + 1 - 1] + row[k + 1] /\ k + 1 - 1 = k
      BY <1>0, <2>0 DEF AddsUp
    <3> QED
      BY <3>1
  <2>3. m = k + 1 \/ S[m] <= S[k]
    BY <1>2
  <2>4. \A a, b, c, d \in Nat : c = b + d /\ a <= b => a <= c
    OBVIOUS
  <2>5. CASE m = k + 1
    BY <2>1, <2>5
  <2>6. CASE S[m] <= S[k]
    BY <2>1, <2>2, <2>4, <2>6, Zenon
  <2> QED
    BY <2>3, <2>5, <2>6
<1> HIDE DEF G
<1>3. n \in Nat
  OBVIOUS
<1>4. n \in G
  BY <1>1, <1>2, <1>3, SetInduction
<1> QED
  BY <1>4 DEF G, S

LEMMA SumsOfBeginning ==
  ASSUME NEW row \in Seq(Nat), NEW other \in Seq(Nat), NEW n \in Nat,
         n <= Len(row), n <= Len(other), \A i \in 1 .. n : row[i] = other[i]
  PROVE  Sums(row)[n] = Sums(other)[n]
<1> DEFINE S == Sums(row)
           T == Sums(other)
           G == {k \in Nat : k <= n => S[k] = T[k]}
<1>0. AddsUp(S, row, Len(row)) /\ AddsUp(T, other, Len(other))
  BY SumsAddUp
<1> HIDE DEF S, T
<1>1. 0 \in G
  BY <1>0 DEF AddsUp
<1>2. ASSUME NEW k \in Nat, k \in G
      PROVE  k + 1 \in G
  <2> SUFFICES ASSUME k + 1 <= n
               PROVE  S[k + 1] = T[k + 1]
    OBVIOUS
  <2>1. S[k] = T[k] /\ row[k + 1] = other[k + 1] /\ k + 1 - 1 = k
    BY <1>2
  <2>2. k + 1 \in 1 .. Len(row) /\ k + 1 \in 1 .. Len(other)
    <3>1. Len(row) \in Nat /\ Len(other) \in Nat
      OBVIOUS
    <3> QED
      BY <1>2, <3>1
  <2>3. S[k + 1] = S[k + 1 - 1] + row[k + 1] /\ T[k + 1] = T[k + 1 - 1] + other[k + 1]
    BY <1>0, <2>2 DEF AddsUp
  <2> QED
    BY <2>1, <2>3
<1> HIDE DEF G
<1>3. n \in G
  BY <1>1, <1>2, SetInduction
<1> QED
  BY <1>3 DEF G, S, T

(* Without its first, a row measures no more.                              *)
LEMMA SumsOfTail ==
  ASSUME NEW row \in Seq(Nat), row # <<>>
  PROVE  Sums(Tail(row))[Len(Tail(row))] <= Sums(row)[Len(row)]
<1> DEFINE S == Sums(row)
           T == Sums(Tail(row))
           G == {k \in Nat : k + 1 <= Len(row) => T[k] <= S[k + 1]}
<1>0. Tail(row) \in Seq(Nat) /\ Len(Tail(row)) = Len(row) - 1 /\ Len(row) \in Nat /\ Len(row) > 0
      /\ \A i \in 1 .. Len(row) - 1 : Tail(row)[i] = row[i + 1]
  OBVIOUS
<1>00. AddsUp(S, row, Len(row)) /\ AddsUp(T, Tail(row), Len(row) - 1)
  BY <1>0, SumsAddUp
<1> HIDE DEF S, T
<1>1. 0 \in G
  BY <1>0, <1>00 DEF AddsUp
<1>2. ASSUME NEW k \in Nat, k \in G
      PROVE  k + 1 \in G
  <2> SUFFICES ASSUME k + 1 + 1 <= Len(row)
               PROVE  T[k + 1] <= S[k + 1 + 1]
    OBVIOUS
  <2>1. k + 1 \in 1 .. Len(row) - 1 /\ k + 1 + 1 \in 1 .. Len(row)
    BY <1>0
  <2>2. T[k + 1] = T[k + 1 - 1] + Tail(row)[k + 1]
        /\ S[k + 1 + 1] = S[k + 1 + 1 - 1] + row[k + 1 + 1]
    BY <1>00, <2>1 DEF AddsUp
  <2>3. T[k] <= S[k + 1] /\ Tail(row)[k + 1] = row[k + 1 + 1] /\ row[k + 1 + 1] \in Nat
    <3>1. k \in Nat /\ k + 1 <= Len(row) /\ row[k + 1 + 1] \in Nat
      BY <1>0, <2>1
    <3>2. T[k] <= S[k + 1]
      BY <1>2, <3>1
    <3>3. Tail(row)[k + 1] = row[k + 1 + 1]
      BY <1>0, <2>1
    <3> QED
      BY <3>1, <3>2, <3>3
  <2>4. T[k] \in Nat /\ S[k + 1] \in Nat /\ k + 1 - 1 = k /\ k + 1 + 1 - 1 = k + 1
    <3>1. k \in 0 .. Len(row) - 1 /\ k + 1 \in 0 .. Len(row)
      BY <1>0, <2>1
    <3>2. T \in [0 .. Len(row) - 1 -> Nat] /\ S \in [0 .. Len(row) -> Nat]
      BY <1>00 DEF AddsUp
    <3>3. T[k] \in Nat /\ S[k + 1] \in Nat
      BY <3>1, <3>2, Zenon
    <3>4. k + 1 - 1 = k /\ k + 1 + 1 - 1 = k + 1
      BY <1>2
    <3> QED
      BY <3>3, <3>4, Zenon
  <2>5. T[k + 1] = T[k] + row[k + 1 + 1] /\ S[k + 1 + 1] = S[k + 1] + row[k + 1 + 1]
    BY <2>2, <2>3, <2>4, Zenon
  <2>6. \A a, b, c \in Nat : a <= b => a + c <= b + c
    OBVIOUS
  <2>7. T[k] + row[k + 1 + 1] <= S[k + 1] + row[k + 1 + 1]
    BY <2>3, <2>4, <2>6, Zenon
  <2> QED
    BY <2>5, <2>7, Zenon
<1> HIDE DEF G
<1>3. Len(row) - 1 \in G
  <2>1. Len(row) - 1 \in Nat
    BY <1>0
  <2>2. \A k \in Nat : k \in G => k + 1 \in G
    BY <1>2, Zenon
  <2> QED
    BY <1>1, <2>1, <2>2, SetInduction
<1> QED
  BY <1>0, <1>3 DEF G, S, T

(* What the code points of a text measure.                                 *)
ByteRow(t) == [i \in DOMAIN t |-> Width[t[i]]]
UnitRow(t) == [i \in DOMAIN t |-> IF t[i] = "four" THEN 2 ELSE 1]

LEMMA WidthsAreFew ==
  /\ \A p \in Point : Width[p] \in Nat
  /\ \A p \in Halves : p \in Point /\ Width[p] = 3
  /\ "replacement" \in Point /\ Width["replacement"] = 3
<1>1. \A p \in Point : Width[p] = CASE p = "one" -> 1 [] p = "two" -> 2 [] p = "four" -> 4
                            [] OTHER -> 3
  BY DEF Width
<1>2. "replacement" \in Point /\ Width["replacement"] = 3
  BY <1>1 DEF Point
<1>3. \A p \in Halves : p \in Point /\ Width[p] = 3
  BY <1>1 DEF Point, Halves
<1>4. \A p \in Point : Width[p] \in Nat
  BY <1>1 DEF Point
<1> QED
  BY <1>2, <1>3, <1>4

LEMMA RowsOfTexts ==
  ASSUME NEW t \in Seq(Point)
  PROVE  /\ ByteRow(t) \in Seq(Nat) /\ Len(ByteRow(t)) = Len(t)
         /\ UnitRow(t) \in Seq(Nat) /\ Len(UnitRow(t)) = Len(t)
         /\ \A i \in 1 .. Len(t) : /\ ByteRow(t)[i] = Width[t[i]]
                                  /\ UnitRow(t)[i] = IF t[i] = "four" THEN 2 ELSE 1
<1>1. \A i \in 1 .. Len(t) : t[i] \in Point
  OBVIOUS
<1>2. DOMAIN t = 1 .. Len(t) /\ Len(t) \in Nat
  OBVIOUS
<1>3. ByteRow(t) \in [1 .. Len(t) -> Nat] /\ UnitRow(t) \in [1 .. Len(t) -> Nat]
  BY <1>1, <1>2, WidthsAreFew DEF ByteRow, UnitRow
<1>4. /\ ByteRow(t) \in Seq(Nat) /\ Len(ByteRow(t)) = Len(t)
      /\ UnitRow(t) \in Seq(Nat) /\ Len(UnitRow(t)) = Len(t)
  <2>1. ASSUME NEW row, NEW n \in Nat, row \in [1 .. n -> Nat]
        PROVE  row \in Seq(Nat) /\ Len(row) = n
    BY <2>1
  <2> QED
    BY <1>2, <1>3, <2>1, Zenon
<1>5. \A i \in 1 .. Len(t) : /\ ByteRow(t)[i] = Width[t[i]]
                            /\ UnitRow(t)[i] = IF t[i] = "four" THEN 2 ELSE 1
  BY <1>2 DEF ByteRow, UnitRow
<1> QED
  BY <1>4, <1>5

LEMMA Beginnings ==
  ASSUME NEW t \in Seq(Point), NEW n \in 0 .. Len(t)
  PROVE  /\ SubSeq(t, 1, n) \in Seq(Point) /\ Len(SubSeq(t, 1, n)) = n
         /\ \A i \in 1 .. n : SubSeq(t, 1, n)[i] = t[i]
         /\ Bytes(SubSeq(t, 1, n)) = Sums(ByteRow(t))[n]
         /\ \A i \in 0 .. n : Ends(SubSeq(t, 1, n))[i] = Ends(t)[i]
<1> DEFINE b == SubSeq(t, 1, n)
<1>1. b \in Seq(Point) /\ Len(b) = n /\ \A i \in 1 .. n : b[i] = t[i]
  OBVIOUS
<1>2. n \in Nat /\ n <= Len(t) /\ Len(t) \in Nat
  OBVIOUS
<1> HIDE DEF b
<1>3. \A i \in 1 .. n : ByteRow(b)[i] = ByteRow(t)[i] /\ UnitRow(b)[i] = UnitRow(t)[i]
  <2> SUFFICES ASSUME NEW i \in 1 .. n
               PROVE  ByteRow(b)[i] = ByteRow(t)[i] /\ UnitRow(b)[i] = UnitRow(t)[i]
    OBVIOUS
  <2>1. i \in 1 .. Len(t) /\ i \in 1 .. Len(b) /\ b[i] = t[i]
    BY <1>1, <1>2
  <2>2. /\ ByteRow(b)[i] = Width[b[i]]
        /\ UnitRow(b)[i] = IF b[i] = "four" THEN 2 ELSE 1
    BY <1>1, <2>1, RowsOfTexts
  <2>3. /\ ByteRow(t)[i] = Width[t[i]]
        /\ UnitRow(t)[i] = IF t[i] = "four" THEN 2 ELSE 1
    BY <2>1, RowsOfTexts
  <2> QED
    BY <2>1, <2>2, <2>3
<1>4. /\ ByteRow(b) \in Seq(Nat) /\ Len(ByteRow(b)) = n
      /\ UnitRow(b) \in Seq(Nat) /\ Len(UnitRow(b)) = n
      /\ ByteRow(t) \in Seq(Nat) /\ Len(ByteRow(t)) = Len(t)
      /\ UnitRow(t) \in Seq(Nat) /\ Len(UnitRow(t)) = Len(t)
  <2>1. /\ ByteRow(b) \in Seq(Nat) /\ Len(ByteRow(b)) = Len(b)
        /\ UnitRow(b) \in Seq(Nat) /\ Len(UnitRow(b)) = Len(b)
    BY <1>1, RowsOfTexts
  <2>2. /\ ByteRow(t) \in Seq(Nat) /\ Len(ByteRow(t)) = Len(t)
        /\ UnitRow(t) \in Seq(Nat) /\ Len(UnitRow(t)) = Len(t)
    BY RowsOfTexts
  <2>3. Len(b) = n
    BY <1>1
  <2>4. ByteRow(b) \in Seq(Nat) /\ Len(ByteRow(b)) = n
    <3>1. Len(ByteRow(b)) = Len(b)
      BY <2>1, Zenon
    <3>2. Len(ByteRow(b)) = n
      BY <3>1, <2>3, Zenon
    <3> QED
      BY <3>2, <2>1, Zenon
  <2>5. UnitRow(b) \in Seq(Nat) /\ Len(UnitRow(b)) = n
    <3>1. Len(UnitRow(b)) = Len(b)
      BY <2>1, Zenon
    <3>2. Len(UnitRow(b)) = n
      BY <3>1, <2>3, Zenon
    <3> QED
      BY <3>2, <2>1, Zenon
  <2> QED
    BY <2>2, <2>4, <2>5, Zenon
<1>5. Sums(ByteRow(b))[n] = Sums(ByteRow(t))[n]
  <2> DEFINE p == ByteRow(b)
             q == ByteRow(t)
  <2>1. p \in Seq(Nat) /\ q \in Seq(Nat) /\ \A i \in 1 .. n : p[i] = q[i]
    BY <1>3, <1>4, Zenon
  <2>2. Len(p) = n /\ Len(q) = Len(t)
    BY <1>4, Zenon
  <2> HIDE DEF p, q
  <2>3. n \in Nat /\ n <= Len(p) /\ n <= Len(q)
    BY <1>2, <2>2
  <2> QED
    BY <2>1, <2>3, SumsOfBeginning DEF p, q
<1>6. Bytes(b) = Sums(ByteRow(b))[n]
  BY <1>1 DEF Bytes, ByteRow
<1>7. ASSUME NEW i \in 0 .. n
      PROVE  Ends(b)[i] = Ends(t)[i]
  <2>1. i \in Nat /\ i <= n /\ i <= Len(t)
    BY <1>2
  <2>2. \A j \in 1 .. i : UnitRow(b)[j] = UnitRow(t)[j]
    BY <1>2, <1>3, <2>1
  <2>3. Sums(UnitRow(b))[i] = Sums(UnitRow(t))[i]
    BY <1>4, <2>1, <2>2, SumsOfBeginning
  <2> QED
    BY <2>3 DEF Ends, UnitRow
<1> QED
  BY <1>1, <1>5, <1>6, <1>7 DEF b

(* The longest beginning that fits.                                        *)
LEMMA SomeFitLast ==
  ASSUME NEW m \in Nat, NEW F \in SUBSET (0 .. m), 0 \in F
  PROVE  /\ (CHOOSE n \in F : n + 1 \notin F) \in F
         /\ (CHOOSE n \in F : n + 1 \notin F) + 1 \notin F
<1> DEFINE S == {k \in Nat : k \notin F}
<1>1. m + 1 \in S /\ S \in SUBSET Nat
  OBVIOUS
<1> HIDE DEF S
<1>2. PICK k \in S : \A j \in S : k <= j
  BY <1>1, Smallest
<1>3. k \in Nat /\ k # 0 /\ k - 1 \in Nat /\ ~(k <= k - 1) /\ k - 1 + 1 = k
  BY <1>1, <1>2 DEF S
<1>4. k - 1 \in F /\ k - 1 + 1 \notin F
  BY <1>2, <1>3 DEF S
<1>5. \E n \in F : n + 1 \notin F
  BY <1>4
<1> QED
  BY <1>5

LEMMA BytesGrow ==
  ASSUME NEW t \in Seq(Point)
  PROVE  /\ \A n \in 0 .. Len(t) : Sums(ByteRow(t))[n] \in Nat
         /\ \A m, n \in 0 .. Len(t) : m <= n => Sums(ByteRow(t))[m] <= Sums(ByteRow(t))[n]
         /\ Sums(ByteRow(t))[0] = 0 /\ Bytes(t) = Sums(ByteRow(t))[Len(t)]
         /\ Bytes(t) \in Nat
<1>1. ByteRow(t) \in Seq(Nat) /\ Len(ByteRow(t)) = Len(t) /\ Len(t) \in Nat
  BY RowsOfTexts
<1>2. AddsUp(Sums(ByteRow(t)), ByteRow(t), Len(t))
  BY <1>1, SumsAddUp
<1>3. \A n \in 0 .. Len(t) : Sums(ByteRow(t))[n] \in Nat
  BY <1>2 DEF AddsUp
<1>4. \A m, n \in 0 .. Len(t) : m <= n => Sums(ByteRow(t))[m] <= Sums(ByteRow(t))[n]
  BY <1>1, SumsGrow
<1>5. Sums(ByteRow(t))[0] = 0
  BY <1>2 DEF AddsUp
<1>6. Bytes(t) = Sums(ByteRow(t))[Len(t)]
  BY DEF Bytes, ByteRow
<1> QED
  BY <1>1, <1>3, <1>4, <1>5, <1>6

LEMMA LongestFits ==
  ASSUME NEW t \in Seq(Point), NEW max \in Nat
  PROVE  \E n \in 0 .. Len(t) :
           /\ Longest(t, max) = SubSeq(t, 1, n)
           /\ Bytes(SubSeq(t, 1, n)) <= max
           /\ n = Len(t) \/ Bytes(SubSeq(t, 1, n + 1)) > max
<1> DEFINE W == Whole(t, max)
           n == CHOOSE n \in W : n + 1 \notin W
<1>1. Len(t) \in Nat /\ W \in SUBSET (0 .. Len(t))
  BY DEF Whole
<1>2. 0 \in W
  <2>1. Bytes(SubSeq(t, 1, 0)) = 0
    BY <1>1, Beginnings, BytesGrow
  <2> QED
    BY <1>1, <2>1 DEF Whole
<1>3. n \in W /\ n + 1 \notin W
  <2> HIDE DEF W
  <2> QED
    BY <1>1, <1>2, SomeFitLast
<1>4. Longest(t, max) = SubSeq(t, 1, n)
  BY DEF Longest
<1> HIDE DEF n
<1>5. n \in 0 .. Len(t) /\ Bytes(SubSeq(t, 1, n)) <= max
  BY <1>3 DEF Whole
<1>6. n = Len(t) \/ Bytes(SubSeq(t, 1, n + 1)) > max
  <2> SUFFICES ASSUME n # Len(t)
               PROVE  Bytes(SubSeq(t, 1, n + 1)) > max
    OBVIOUS
  <2>1. n + 1 \in 0 .. Len(t)
    BY <1>1, <1>5
  <2>2. Bytes(SubSeq(t, 1, n + 1)) \in Nat
    BY <2>1, Beginnings, BytesGrow
  <2>3. ~(Bytes(SubSeq(t, 1, n + 1)) <= max)
    BY <1>3, <2>1 DEF Whole
  <2> QED
    BY <2>2, <2>3
<1> QED
  BY <1>4, <1>5, <1>6

(* What is cut to bytes. *)
LEMMA BytesOfTail ==
  ASSUME NEW t \in Seq(Point), t # <<>>
  PROVE  Tail(t) \in Seq(Point) /\ Bytes(Tail(t)) <= Bytes(t)
<1>1. /\ Tail(t) \in Seq(Point) /\ Len(Tail(t)) = Len(t) - 1 /\ Len(t) \in Nat /\ Len(t) > 0
      /\ \A i \in 1 .. Len(t) - 1 : Tail(t)[i] = t[i + 1]
  OBVIOUS
<1>2. ByteRow(t) \in Seq(Nat) /\ Len(ByteRow(t)) = Len(t)
      /\ \A i \in 1 .. Len(t) : ByteRow(t)[i] = Width[t[i]]
  BY RowsOfTexts
<1>3. ByteRow(Tail(t)) \in Seq(Nat) /\ Len(ByteRow(Tail(t))) = Len(Tail(t))
      /\ \A i \in 1 .. Len(Tail(t)) : ByteRow(Tail(t))[i] = Width[Tail(t)[i]]
  BY <1>1, RowsOfTexts, Zenon
<1> DEFINE r == ByteRow(t)
           s == ByteRow(Tail(t))
<1>4. /\ Tail(r) \in Seq(Nat) /\ Len(Tail(r)) = Len(r) - 1 /\ r # <<>>
      /\ \A i \in 1 .. Len(r) - 1 : Tail(r)[i] = r[i + 1]
  <2> HIDE DEF r
  <2>1. r \in Seq(Nat) /\ Len(r) > 0
    BY <1>1, <1>2 DEF r
  <2> QED
    BY <2>1
<1>5. \A i \in 1 .. Len(t) - 1 : s[i] = Tail(r)[i]
  <2> SUFFICES ASSUME NEW i \in 1 .. Len(t) - 1
               PROVE  s[i] = Tail(r)[i]
    OBVIOUS
  <2>1. i + 1 \in 1 .. Len(t) /\ i \in 1 .. Len(r) - 1 /\ i \in 1 .. Len(Tail(t))
    BY <1>1, <1>2
  <2>2. s[i] = Width[Tail(t)[i]] /\ Tail(t)[i] = t[i + 1]
    BY <1>1, <1>3, <2>1
  <2>3. Tail(r)[i] = r[i + 1] /\ r[i + 1] = Width[t[i + 1]]
    BY <1>2, <1>4, <2>1
  <2> QED
    BY <2>2, <2>3
<1> HIDE DEF r, s
<1>6. Sums(s)[Len(t) - 1] = Sums(Tail(r))[Len(t) - 1]
  <2>1. s \in Seq(Nat) /\ Len(s) = Len(t) - 1
    <3>1. s \in Seq(Nat) /\ Len(s) = Len(Tail(t)) /\ Len(Tail(t)) = Len(t) - 1
      BY <1>1, <1>3, Zenon DEF s
    <3> QED
      BY <3>1, Zenon
  <2>2. Tail(r) \in Seq(Nat) /\ Len(Tail(r)) = Len(t) - 1
    <3>1. Tail(r) \in Seq(Nat) /\ Len(Tail(r)) = Len(r) - 1 /\ Len(r) = Len(t)
      BY <1>2, <1>4, Zenon DEF r
    <3> QED
      BY <3>1, Zenon
  <2> DEFINE k == Len(t) - 1
             q == Tail(r)
  <2>3. k \in Nat
    BY <1>1
  <2>4. s \in Seq(Nat) /\ Len(s) = k /\ q \in Seq(Nat) /\ Len(q) = k
        /\ \A i \in 1 .. k : s[i] = q[i]
    BY <1>5, <2>1, <2>2, Zenon
  <2> HIDE DEF k, q
  <2>5. k <= Len(s) /\ k <= Len(q)
    BY <2>3, <2>4
  <2>6. Sums(s)[k] = Sums(q)[k]
    BY <2>3, <2>4, <2>5, SumsOfBeginning
  <2> QED
    BY <2>6 DEF k, q
<1>7. Sums(Tail(r))[Len(t) - 1] <= Sums(r)[Len(t)]
  <2>1. Len(Tail(r)) = Len(t) - 1 /\ Len(r) = Len(t) /\ r \in Seq(Nat)
    BY <1>2, <1>4 DEF r
  <2> QED
    BY <1>4, <2>1, SumsOfTail
<1>8. Bytes(Tail(t)) = Sums(s)[Len(t) - 1] /\ Bytes(t) = Sums(r)[Len(t)]
  <2>1. Bytes(Tail(t)) = Sums(s)[Len(Tail(t))] /\ Bytes(t) = Sums(r)[Len(t)]
    BY <1>1, BytesGrow DEF r, s
  <2> QED
    BY <1>1, <2>1
<1> QED
  BY <1>1, <1>6, <1>7, <1>8

LEMMA EncodedMeasuresSame ==
  ASSUME NEW t \in Seq(Point)
  PROVE  /\ Encoded(t) \in Seq(Point) /\ Len(Encoded(t)) = Len(t)
         /\ \A i \in 1 .. Len(t) :
               Encoded(t)[i] = IF t[i] \in Halves THEN "replacement" ELSE t[i]
         /\ Bytes(Encoded(t)) = Bytes(t)
<1> DEFINE e == Encoded(t)
<1>1. DOMAIN t = 1 .. Len(t) /\ Len(t) \in Nat /\ \A i \in 1 .. Len(t) : t[i] \in Point
  OBVIOUS
<1>2. e \in [1 .. Len(t) -> Point]
      /\ \A i \in 1 .. Len(t) : e[i] = IF t[i] \in Halves THEN "replacement" ELSE t[i]
  BY <1>1, WidthsAreFew DEF Encoded
<1> HIDE DEF e
<1>3. e \in Seq(Point) /\ Len(e) = Len(t)
  BY <1>1, <1>2
<1>4. \A i \in 1 .. Len(t) : ByteRow(e)[i] = ByteRow(t)[i]
  <2> SUFFICES ASSUME NEW i \in 1 .. Len(t)
               PROVE  ByteRow(e)[i] = ByteRow(t)[i]
    OBVIOUS
  <2>1. ByteRow(t)[i] = Width[t[i]]
    BY RowsOfTexts
  <2>2. ByteRow(e)[i] = Width[e[i]]
    BY <1>3, RowsOfTexts
  <2>3. Width[e[i]] = Width[t[i]]
    BY <1>2, WidthsAreFew
  <2> QED
    BY <2>1, <2>2, <2>3
<1>5. ByteRow(t) \in Seq(Nat) /\ Len(ByteRow(t)) = Len(t)
  BY RowsOfTexts
<1>6. ByteRow(e) \in Seq(Nat) /\ Len(ByteRow(e)) = Len(t)
  BY <1>3, RowsOfTexts
<1>7. Sums(ByteRow(e))[Len(t)] = Sums(ByteRow(t))[Len(t)]
  <2> DEFINE row == ByteRow(e)
             other == ByteRow(t)
             n == Len(t)
  <2>1. row \in Seq(Nat) /\ other \in Seq(Nat) /\ n \in Nat
    BY <1>1, <1>5, <1>6
  <2>2. n <= Len(row) /\ n <= Len(other)
    <3>1. Len(row) = n /\ Len(other) = n
      BY <1>5, <1>6, Zenon
    <3> HIDE DEF row, other, n
    <3> QED
      BY <2>1, <3>1
  <2>3. \A i \in 1 .. n : row[i] = other[i]
    BY <1>4, Zenon
  <2> HIDE DEF row, other, n
  <2>4. Sums(row)[n] = Sums(other)[n]
    BY <2>1, <2>2, <2>3, SumsOfBeginning
  <2> QED
    BY <2>4, Zenon DEF row, other, n
<1>8. Bytes(t) = Sums(ByteRow(t))[Len(t)]
  BY BytesGrow
<1>9. Bytes(e) = Sums(ByteRow(e))[Len(t)]
  BY <1>3, BytesGrow
<1> QED
  BY <1>2, <1>3, <1>7, <1>8, <1>9 DEF e

(* What a beginning keeps of a text that is cut: less a mark at its start, *)
(* and less a replacement character at its end.                            *)
IsPart(c, t) ==
    /\ c \in Seq(Point)
    /\ \A i \in DOMAIN c : \E j \in DOMAIN t : c[i] = t[j]

LEMMA PartOfBeginning ==
  ASSUME NEW t \in Seq(Point), NEW n \in 0 .. Len(t), NEW max \in Nat,
         Bytes(SubSeq(t, 1, n)) <= max, NEW m \in 0 .. n
  PROVE  IsPart(SubSeq(t, 1, m), t) /\ Bytes(SubSeq(t, 1, m)) <= max
<1>1. m \in 0 .. Len(t) /\ m <= n /\ Len(t) \in Nat
  OBVIOUS
<1>2. Bytes(SubSeq(t, 1, m)) = Sums(ByteRow(t))[m]
      /\ Bytes(SubSeq(t, 1, n)) = Sums(ByteRow(t))[n]
  BY <1>1, Beginnings
<1>3. Bytes(SubSeq(t, 1, m)) <= max
  <2>1. Sums(ByteRow(t))[m] \in Nat /\ Sums(ByteRow(t))[n] \in Nat
        /\ Sums(ByteRow(t))[m] <= Sums(ByteRow(t))[n]
    BY <1>1, BytesGrow
  <2> QED
    BY <1>2, <2>1
<1>4. IsPart(SubSeq(t, 1, m), t)
  <2>1. SubSeq(t, 1, m) \in Seq(Point) /\ Len(SubSeq(t, 1, m)) = m
        /\ \A i \in 1 .. m : SubSeq(t, 1, m)[i] = t[i]
    BY <1>1, Beginnings
  <2>2. DOMAIN SubSeq(t, 1, m) = 1 .. m /\ DOMAIN t = 1 .. Len(t)
    BY <2>1
  <2>3. \A i \in 1 .. m : i \in 1 .. Len(t)
    BY <1>1
  <2> HIDE DEF IsPart
  <2> QED
    BY <2>1, <2>2, <2>3 DEF IsPart
<1> QED
  BY <1>3, <1>4


LEMMA PartsOfParts ==
  ASSUME NEW t, NEW b, NEW c, IsPart(c, b), IsPart(b, t)
  PROVE  IsPart(c, t)
<1>1. ASSUME NEW i \in DOMAIN c
      PROVE  \E j \in DOMAIN t : c[i] = t[j]
  <2>1. PICK k \in DOMAIN b : c[i] = b[k]
    BY Zenon DEF IsPart
  <2>2. PICK j \in DOMAIN t : b[k] = t[j]
    BY Zenon DEF IsPart
  <2> QED
    BY <2>1, <2>2, Zenon
<1> QED
  BY <1>1, Zenon DEF IsPart

LEMMA LastRemoved ==
  ASSUME NEW t \in Seq(Point), t # <<>>
  PROVE  IsPart(SubSeq(t, 1, Len(t) - 1), t) /\ Bytes(SubSeq(t, 1, Len(t) - 1)) <= Bytes(t)
<1>1. Len(t) \in 0 .. Len(t) /\ Len(t) - 1 \in 0 .. Len(t) /\ SubSeq(t, 1, Len(t)) = t
  OBVIOUS
<1>2. Bytes(t) \in Nat
  BY BytesGrow
<1>3. Bytes(SubSeq(t, 1, Len(t))) = Bytes(t)
  BY <1>1, Zenon
<1>4. Bytes(SubSeq(t, 1, Len(t))) <= Bytes(t)
  BY <1>2, <1>3
<1> QED
  BY <1>1, <1>2, <1>4, PartOfBeginning

LEMMA FirstRemoved ==
  ASSUME NEW t \in Seq(Point), t # <<>>
  PROVE  IsPart(Tail(t), t) /\ Bytes(Tail(t)) <= Bytes(t)
<1>1. Tail(t) \in Seq(Point) /\ Bytes(Tail(t)) <= Bytes(t)
  BY BytesOfTail
<1>2. /\ DOMAIN Tail(t) = 1 .. Len(t) - 1 /\ DOMAIN t = 1 .. Len(t)
      /\ \A i \in 1 .. Len(t) - 1 : Tail(t)[i] = t[i + 1] /\ i + 1 \in 1 .. Len(t)
  OBVIOUS
<1>3. \A i \in DOMAIN Tail(t) : \E j \in DOMAIN t : Tail(t)[i] = t[j]
  BY <1>2
<1> QED
  BY <1>1, <1>3 DEF IsPart

(* The steps of a decoder, and of what is done to its text.                *)
Completed(k, max) == IF Bytes(k) < max THEN Append(k, "replacement") ELSE k

Unmarked(s) == IF s # <<>> /\ s[1] = "mark" THEN Tail(s) ELSE s

Trimmed(d) == IF EndsInReplacement(d) THEN SubSeq(d, 1, Len(d) - 1) ELSE d

LEMMA TrimmedIsPart ==
  ASSUME NEW t \in Seq(Point)
  PROVE  IsPart(Trimmed(t), t) /\ Bytes(Trimmed(t)) <= Bytes(t) /\ Trimmed(t) \in Seq(Point)
<1>1. IsPart(t, t) /\ Bytes(t) \in Nat
  BY BytesGrow DEF IsPart
<1>2. CASE EndsInReplacement(t)
  BY <1>2, LastRemoved DEF Trimmed, EndsInReplacement, IsPart
<1>3. CASE ~EndsInReplacement(t)
  BY <1>1, <1>3 DEF Trimmed
<1> QED
  BY <1>2, <1>3

LEMMA AddedIsTrimmed ==
  ASSUME NEW t \in Seq(Point)
  PROVE  Trimmed(Append(t, "replacement")) = t
<1> DEFINE a == Append(t, "replacement")
<1>1. a # <<>> /\ Len(a) = Len(t) + 1 /\ a[Len(a)] = "replacement"
      /\ SubSeq(a, 1, Len(t)) = t /\ Len(t) \in Nat
  BY WidthsAreFew
<1> HIDE DEF a
<1>2. Len(a) - 1 = Len(t)
  BY <1>1
<1>3. Trimmed(a) = SubSeq(a, 1, Len(a) - 1)
  BY <1>1 DEF Trimmed, EndsInReplacement
<1> QED
  BY <1>1, <1>2, <1>3 DEF a

KeepsAll(c, k) ==
    \/ c = k
    \/ EndsInReplacement(k) /\ c = SubSeq(k, 1, Len(k) - 1)

LEMMA DecodedIsPart ==
  ASSUME NEW k \in Seq(Point), NEW max \in Nat,
         NEW c, c = Trimmed(Unmarked(Completed(k, max)))
  PROVE  /\ IsPart(c, k) /\ Bytes(c) <= Bytes(k)
         /\ (k = <<>> \/ k[1] # "mark") => KeepsAll(c, k)
<1> DEFINE a == Append(k, "replacement")
           marked == k # <<>> /\ k[1] = "mark"
<1>0. IsPart(k, k) /\ Bytes(k) \in Nat
  BY BytesGrow DEF IsPart
<1>1. CASE Bytes(k) < max /\ ~marked
  <2>1. a # <<>>
    OBVIOUS
  <2>2. a[1] # "mark"
    <3>1. CASE k = <<>>
      <4>1. a[1] = "replacement"
        BY <3>1
      <4> QED
        BY <4>1
    <3>2. CASE k # <<>>
      <4>1. a[1] = k[1]
        BY <3>2
      <4> QED
        BY <1>1, <3>2, <4>1
    <3> QED
      BY <3>1, <3>2
  <2> HIDE DEF a
  <2>3. Unmarked(Completed(k, max)) = a
    BY <1>1, <2>2 DEF Completed, Unmarked, a
  <2>4. c = k
    BY <2>3, AddedIsTrimmed DEF a
  <2> QED
    BY <1>0, <2>4 DEF KeepsAll
<1>2. CASE Bytes(k) < max /\ marked
  <2>0. Len(k) \in Nat /\ Len(k) > 0 /\ "replacement" \in Point
    BY <1>2, WidthsAreFew
  <2>1. a # <<>> /\ a[1] = "mark" /\ Tail(a) = Append(Tail(k), "replacement")
        /\ Tail(k) \in Seq(Point)
    <3>1. a # <<>> /\ a[1] = "mark" /\ Tail(k) \in Seq(Point)
      BY <1>2, <2>0
    <3>2. Tail(a) = Append(Tail(k), "replacement")
      BY <1>2, <2>0
    <3> QED
      BY <3>1, <3>2
  <2> HIDE DEF a
  <2>3. Unmarked(Completed(k, max)) = Tail(a)
    BY <1>2, <2>1 DEF Completed, Unmarked, a
  <2>4. c = Tail(k)
    BY <2>1, <2>3, AddedIsTrimmed
  <2> QED
    BY <1>2, <2>4, FirstRemoved
<1>3. CASE ~(Bytes(k) < max) /\ ~marked
  <2>1. c = Trimmed(k)
    BY <1>3 DEF Completed, Unmarked
  <2>2. KeepsAll(c, k)
    BY <2>1 DEF Trimmed, KeepsAll
  <2>3. IsPart(c, k) /\ Bytes(c) <= Bytes(k)
    BY <2>1, TrimmedIsPart
  <2> QED
    BY <2>2, <2>3
<1>4. CASE ~(Bytes(k) < max) /\ marked
  <2>1. c = Trimmed(Tail(k))
    BY <1>4 DEF Completed, Unmarked
  <2>2. Tail(k) \in Seq(Point) /\ IsPart(Tail(k), k) /\ Bytes(Tail(k)) <= Bytes(k)
    BY <1>4, FirstRemoved DEF IsPart
  <2>3. /\ IsPart(c, Tail(k)) /\ Bytes(c) <= Bytes(Tail(k)) /\ Bytes(c) \in Nat
        /\ Bytes(Tail(k)) \in Nat
    BY <2>1, <2>2, TrimmedIsPart, BytesGrow
  <2>4. IsPart(c, k)
    BY <2>2, <2>3, PartsOfParts
  <2>5. Bytes(c) <= Bytes(k)
    BY <1>0, <2>2, <2>3
  <2> QED
    BY <1>4, <2>4, <2>5
<1> QED
  BY <1>1, <1>2, <1>3, <1>4

LEMMA CutInBytes ==
  ASSUME NEW t \in Seq(Point), NEW max \in Nat, NEW c, c = InBytes(t, max)
  PROVE  IF Bytes(t) <= max THEN c = t
         ELSE c = Trimmed(Unmarked(Completed(Longest(Encoded(t), max), max)))
<1>1. Decoded(Encoded(t), max) = Unmarked(Completed(Longest(Encoded(t), max), max))
  BY DEF Decoded, Unmarked, Completed
<1> QED
  BY <1>1 DEF InBytes, Trimmed

LEMMA AllOfAFittingText ==
  ASSUME NEW t \in Seq(Point), NEW max \in Nat, Bytes(t) <= max
  PROVE  Longest(t, max) = t
<1>1. PICK n \in 0 .. Len(t) :
           /\ Longest(t, max) = SubSeq(t, 1, n)
           /\ Bytes(SubSeq(t, 1, n)) <= max
           /\ n = Len(t) \/ Bytes(SubSeq(t, 1, n + 1)) > max
  BY LongestFits
<1>2. n = Len(t)
  <2> SUFFICES ASSUME n # Len(t)
               PROVE  FALSE
    OBVIOUS
  <2>1. n + 1 \in 0 .. Len(t) /\ Len(t) \in 0 .. Len(t) /\ n + 1 <= Len(t)
    OBVIOUS
  <2>2. Bytes(SubSeq(t, 1, n + 1)) = Sums(ByteRow(t))[n + 1]
    BY <2>1, Beginnings
  <2>3. Sums(ByteRow(t))[n + 1] <= Sums(ByteRow(t))[Len(t)]
        /\ Bytes(t) = Sums(ByteRow(t))[Len(t)]
    BY <2>1, BytesGrow
  <2>4. Sums(ByteRow(t))[n + 1] \in Nat /\ Bytes(t) \in Nat
    BY <2>1, BytesGrow
  <2>5. Bytes(SubSeq(t, 1, n + 1)) > max
    BY <1>1
  <2> HIDE DEF ByteRow
  <2> QED
    BY <2>2, <2>3, <2>4, <2>5
<1>3. SubSeq(t, 1, Len(t)) = t
  OBVIOUS
<1> QED
  BY <1>1, <1>2, <1>3

LEMMA BytesAreFitted ==
  ASSUME NEW t \in Seq(Point), t # <<>>, NEW max \in Nat, NEW c, c = InBytes(t, max)
  PROVE  /\ Bytes(c) <= max
         /\ \A i \in DOMAIN c : c[i] = "replacement" =>
               \E j \in DOMAIN t : t[j] \in Halves \cup {"replacement"}
         /\ (\A i \in DOMAIN t : t[i] \notin Halves) /\ Head(t) # "mark" =>
               KeepsAll(c, Longest(t, max))
<1> DEFINE e == Encoded(t)
           k == Longest(e, max)
<1>1. CASE Bytes(t) <= max
  <2>1. c = t
    BY <1>1, CutInBytes
  <2>2. Longest(t, max) = t
    BY <1>1, AllOfAFittingText
  <2> QED
    BY <1>1, <2>1, <2>2 DEF KeepsAll
<1>2. CASE ~(Bytes(t) <= max)
  <2>1. e \in Seq(Point) /\ Len(e) = Len(t)
        /\ \A i \in 1 .. Len(t) : e[i] = IF t[i] \in Halves THEN "replacement" ELSE t[i]
    BY EncodedMeasuresSame
  <2>2. c = Trimmed(Unmarked(Completed(k, max)))
    BY <1>2, CutInBytes
  <2> HIDE DEF e
  <2>3. PICK n \in 0 .. Len(e) : k = SubSeq(e, 1, n) /\ Bytes(SubSeq(e, 1, n)) <= max
    BY <2>1, LongestFits
  <2>4. k \in Seq(Point) /\ Len(k) = n /\ \A i \in 1 .. n : k[i] = e[i]
    BY <2>1, <2>3, Beginnings
  <2>5. Bytes(k) <= max
    BY <2>3, Zenon
  <2>6. IsPart(k, e)
    <3>1. n \in 0 .. n /\ n \in Nat
      OBVIOUS
    <3>2. IsPart(SubSeq(e, 1, n), e)
      BY <2>1, <2>3, <3>1, PartOfBeginning
    <3> QED
      BY <2>3, <3>2, Zenon
  <2> HIDE DEF k
  <2>7. IsPart(c, k) /\ Bytes(c) <= Bytes(k)
        /\ ((k = <<>> \/ k[1] # "mark") => KeepsAll(c, k))
    BY <2>2, <2>4, DecodedIsPart
  <2>8. Bytes(c) <= max
    <3>1. c \in Seq(Point)
      BY <2>7 DEF IsPart
    <3>2. Bytes(c) \in Nat /\ Bytes(k) \in Nat
      BY <2>4, <3>1, BytesGrow
    <3> QED
      BY <2>5, <2>7, <3>2
  <2>9. ASSUME NEW i \in DOMAIN c, c[i] = "replacement"
        PROVE  \E j \in DOMAIN t : t[j] \in Halves \cup {"replacement"}
    <3>1. IsPart(c, e)
      BY <2>6, <2>7, PartsOfParts
    <3>2. PICK j \in DOMAIN e : c[i] = e[j]
      BY <2>9, <3>1 DEF IsPart
    <3>3. DOMAIN e = 1 .. Len(t) /\ DOMAIN t = 1 .. Len(t)
      BY <2>1
    <3>4. e[j] = IF t[j] \in Halves THEN "replacement" ELSE t[j]
      BY <2>1, <3>2, <3>3
    <3> QED
      BY <2>9, <3>2, <3>3, <3>4
  <2>10. ASSUME \A i \in DOMAIN t : t[i] \notin Halves, Head(t) # "mark"
         PROVE  KeepsAll(c, Longest(t, max))
    <3>1. e = t
      <4>1. DOMAIN t = 1 .. Len(t) /\ DOMAIN e = 1 .. Len(t)
        BY <2>1
      <4>2. \A i \in 1 .. Len(t) : e[i] = t[i]
        BY <2>1, <2>10, <4>1
      <4> QED
        BY <2>1, <4>2
    <3>2. k = <<>> \/ k[1] # "mark"
      <4>1. CASE n = 0
        BY <2>4, <4>1
      <4>2. CASE n # 0
        <5>1. 1 \in 1 .. n
          BY <4>2
        <5>2. k[1] = e[1] /\ e[1] = t[1] /\ Head(t) = t[1]
          BY <2>4, <3>1, <5>1
        <5> QED
          BY <2>10, <5>2
      <4> QED
        BY <4>1, <4>2
    <3>3. k = Longest(t, max)
      BY <3>1, Zenon DEF k
    <3> QED
      BY <2>7, <3>2, <3>3
  <2> QED
    BY <2>8, <2>9, <2>10
<1> QED
  BY <1>1, <1>2


(* What is cut to characters: where the code points of a text end.         *)
EndsWell(t) ==
    /\ Len(t) \in Nat /\ DOMAIN t = 1 .. Len(t)
    /\ \A n \in 0 .. Len(t) : Ends(t)[n] \in Nat
    /\ Ends(t)[0] = 0
    /\ \A i \in 1 .. Len(t) : Ends(t)[i] = Ends(t)[i - 1] + (IF t[i] = "four" THEN 2 ELSE 1)
    /\ \A m, n \in 0 .. Len(t) : m <= n => Ends(t)[m] <= Ends(t)[n]

LEMMA EndsAddUp ==
  ASSUME NEW t \in Seq(Point)
  PROVE  EndsWell(t)
<1>1. UnitRow(t) \in Seq(Nat) /\ Len(UnitRow(t)) = Len(t) /\ Len(t) \in Nat
      /\ \A i \in 1 .. Len(t) : UnitRow(t)[i] = IF t[i] = "four" THEN 2 ELSE 1
  BY RowsOfTexts
<1>2. AddsUp(Sums(UnitRow(t)), UnitRow(t), Len(t))
  BY <1>1, SumsAddUp
<1>3. Ends(t) = Sums(UnitRow(t))
  BY DEF Ends, UnitRow
<1> DEFINE E == Ends(t)
<1>4. AddsUp(E, UnitRow(t), Len(t))
  BY <1>2, <1>3
<1>5. \A m, n \in 0 .. Len(t) : m <= n => E[m] <= E[n]
  <2>1. \A m, n \in 0 .. Len(t) : m <= n => Sums(UnitRow(t))[m] <= Sums(UnitRow(t))[n]
    BY <1>1, SumsGrow
  <2> QED
    BY <1>3, <2>1
<1> HIDE DEF E
<1>6. /\ \A n \in 0 .. Len(t) : E[n] \in Nat
      /\ E[0] = 0
      /\ \A i \in 1 .. Len(t) : E[i] = E[i - 1] + (IF t[i] = "four" THEN 2 ELSE 1)
  BY <1>1, <1>4 DEF AddsUp
<1>7. DOMAIN t = 1 .. Len(t)
  OBVIOUS
<1> QED
  BY <1>1, <1>5, <1>6, <1>7 DEF EndsWell, E

InPoint(t, i, u) == Ends(t)[i - 1] < u /\ u <= Ends(t)[i]

UnitOf(t, i, u) ==
    IF t[i] # "four" THEN t[i] ELSE IF u = Ends(t)[i] THEN "low" ELSE "high"

(* A unit belongs to one code point.                                       *)
LEMMA UnitIsOfOne ==
  ASSUME NEW t \in Seq(Point), NEW i \in 1 .. Len(t), NEW u \in Nat, InPoint(t, i, u)
  PROVE  UnitAt(t, u) = UnitOf(t, i, u)
<1>1. EndsWell(t)
  BY EndsAddUp
<1> DEFINE j == CHOOSE i_1 \in DOMAIN t : InPoint(t, i_1, u)
<1>2. j \in DOMAIN t /\ InPoint(t, j, u)
  BY <1>1 DEF EndsWell
<1>3. UnitAt(t, u) = UnitOf(t, j, u)
  BY DEF UnitAt, UnitOf, InPoint
<1> HIDE DEF j
<1>4. j = i
  <2>0. j \in 1 .. Len(t) /\ Len(t) \in Nat
    BY <1>1, <1>2 DEF EndsWell
  <2>1. \A m, n \in 1 .. Len(t) : m < n /\ InPoint(t, m, u) => ~InPoint(t, n, u)
    <3> SUFFICES ASSUME NEW m \in 1 .. Len(t), NEW n \in 1 .. Len(t), m < n,
                        InPoint(t, m, u), InPoint(t, n, u)
                 PROVE  FALSE
      OBVIOUS
    <3>1. m \in 0 .. Len(t) /\ n - 1 \in 0 .. Len(t) /\ m <= n - 1
      BY <2>0
    <3>2. Ends(t)[m] <= Ends(t)[n - 1] /\ Ends(t)[m] \in Nat /\ Ends(t)[n - 1] \in Nat
      BY <1>1, <3>1 DEF EndsWell
    <3>3. Ends(t)[n - 1] < u /\ u <= Ends(t)[m]
      BY DEF InPoint
    <3> QED
      BY <3>2, <3>3
  <2>2. ~(j < i) /\ ~(i < j)
    BY <1>2, <2>0, <2>1
  <2> QED
    BY <2>0, <2>2
<1> QED
  BY <1>3, <1>4

LEMMA UnitIsFound ==
  ASSUME NEW t \in Seq(Point), NEW n \in 0 .. Len(t), NEW u \in 1 .. Ends(t)[n]
  PROVE  \E i \in 1 .. n : InPoint(t, i, u)
<1>1. EndsWell(t)
  BY EndsAddUp
<1>2. Ends(t)[n] \in Nat /\ n \in Nat /\ Len(t) \in Nat /\ n <= Len(t)
  BY <1>1 DEF EndsWell
<1> DEFINE S == {k \in Nat : k <= n /\ u <= Ends(t)[k]}
<1>3. n \in S /\ S \in SUBSET Nat
  BY <1>2
<1> HIDE DEF S
<1>4. PICK i \in S : \A j \in S : i <= j
  BY <1>3, Smallest
<1>5. i \in Nat /\ i <= n /\ u <= Ends(t)[i] /\ u \in Nat /\ 1 <= u
  BY <1>2, <1>4 DEF S
<1>6. i # 0
  <2>1. Ends(t)[0] = 0
    BY <1>1 DEF EndsWell
  <2> QED
    BY <1>5, <2>1
<1>7. i - 1 \in Nat /\ i - 1 <= n /\ ~(i <= i - 1) /\ i - 1 \in 0 .. Len(t)
  BY <1>2, <1>5, <1>6
<1>8. ~(u <= Ends(t)[i - 1])
  BY <1>4, <1>7 DEF S
<1>9. Ends(t)[i - 1] \in Nat
  BY <1>1, <1>7 DEF EndsWell
<1>10. InPoint(t, i, u) /\ i \in 1 .. n
  BY <1>2, <1>5, <1>6, <1>8, <1>9 DEF InPoint
<1> QED
  BY <1>10

LEMMA UnitsAreASequence ==
  ASSUME NEW t \in Seq(Point)
  PROVE  /\ Units(t) \in Seq(Point) /\ Len(Units(t)) = Ends(t)[Len(t)]
         /\ \A u \in 1 .. Ends(t)[Len(t)] : Units(t)[u] = UnitAt(t, u)
<1> DEFINE N == Ends(t)[Len(t)]
<1>1. N \in Nat /\ Len(t) \in 0 .. Len(t)
  BY EndsAddUp DEF EndsWell
<1>2. \A u \in 1 .. N : UnitAt(t, u) \in Point
  <2> SUFFICES ASSUME NEW u \in 1 .. N
               PROVE  UnitAt(t, u) \in Point
    OBVIOUS
  <2>1. PICK i \in 1 .. Len(t) : InPoint(t, i, u)
    BY <1>1, UnitIsFound
  <2>2. u \in Nat /\ t[i] \in Point
    BY <1>1
  <2>3. UnitAt(t, u) = UnitOf(t, i, u)
    BY <2>1, <2>2, UnitIsOfOne
  <2> QED
    BY <2>2, <2>3 DEF UnitOf, Point
<1>3. Units(t) = [u \in 1 .. N |-> UnitAt(t, u)]
  BY DEF Units
<1> HIDE DEF N
<1>4. Units(t) \in [1 .. N -> Point] /\ \A u \in 1 .. N : Units(t)[u] = UnitAt(t, u)
  BY <1>2, <1>3
<1>5. Units(t) \in Seq(Point) /\ Len(Units(t)) = N
  BY <1>1, <1>4
<1> QED
  BY <1>4, <1>5 DEF N

LEMMA UnitsOfBeginning ==
  ASSUME NEW t \in Seq(Point), NEW n \in 0 .. Len(t)
  PROVE  /\ Units(SubSeq(t, 1, n)) = SubSeq(Units(t), 1, Ends(t)[n])
         /\ Len(Units(SubSeq(t, 1, n))) = Ends(t)[n]
<1> DEFINE b == SubSeq(t, 1, n)
           N == Ends(t)[n]
<1>1. b \in Seq(Point) /\ Len(b) = n /\ (\A i \in 1 .. n : b[i] = t[i])
      /\ \A i \in 0 .. n : Ends(b)[i] = Ends(t)[i]
  BY Beginnings
<1> HIDE DEF b
<1>2. EndsWell(t)
  BY EndsAddUp
<1>3. N \in Nat /\ Ends(t)[Len(t)] \in Nat /\ N <= Ends(t)[Len(t)] /\ n \in Nat /\ n <= Len(t)
      /\ n \in 0 .. n /\ Len(t) \in Nat
  <2>1. Len(t) \in 0 .. Len(t) /\ n <= Len(t) /\ n \in Nat /\ n \in 0 .. n
    BY <1>2 DEF EndsWell
  <2> QED
    BY <1>2, <2>1 DEF EndsWell
<1>4. Ends(b)[Len(b)] = N
  BY <1>1, <1>3
<1> HIDE DEF N
<1>5. Units(b) \in Seq(Point) /\ Len(Units(b)) = N /\ \A u \in 1 .. N : Units(b)[u] = UnitAt(b, u)
  <2>1. Units(b) \in Seq(Point) /\ Len(Units(b)) = Ends(b)[Len(b)]
        /\ \A u \in 1 .. Ends(b)[Len(b)] : Units(b)[u] = UnitAt(b, u)
    BY <1>1, UnitsAreASequence
  <2> QED
    BY <1>4, <2>1
<1>6. Units(t) \in Seq(Point) /\ Len(Units(t)) = Ends(t)[Len(t)]
      /\ \A u \in 1 .. Ends(t)[Len(t)] : Units(t)[u] = UnitAt(t, u)
  BY UnitsAreASequence
<1>7. \A u \in 1 .. N : UnitAt(b, u) = UnitAt(t, u)
  <2> SUFFICES ASSUME NEW u \in 1 .. N
               PROVE  UnitAt(b, u) = UnitAt(t, u)
    OBVIOUS
  <2>1. PICK i \in 1 .. n : InPoint(t, i, u)
    BY UnitIsFound DEF N
  <2>2. i \in 1 .. Len(t) /\ i \in 1 .. Len(b) /\ u \in Nat /\ i \in 0 .. n /\ i - 1 \in 0 .. n
    BY <1>1, <1>3
  <2>3. Ends(b)[i] = Ends(t)[i] /\ Ends(b)[i - 1] = Ends(t)[i - 1] /\ b[i] = t[i]
    BY <1>1, <2>2
  <2>4. InPoint(b, i, u) /\ UnitOf(b, i, u) = UnitOf(t, i, u)
    BY <2>1, <2>3 DEF InPoint, UnitOf
  <2>5. UnitAt(b, u) = UnitOf(b, i, u)
    BY <1>1, <2>2, <2>4, UnitIsOfOne
  <2>6. UnitAt(t, u) = UnitOf(t, i, u)
    BY <2>1, <2>2, UnitIsOfOne
  <2> QED
    BY <2>4, <2>5, <2>6
<1>8. \A u \in 1 .. N : Units(b)[u] = Units(t)[u]
  <2>1. \A u \in 1 .. N : u \in 1 .. Ends(t)[Len(t)]
    BY <1>3
  <2> QED
    BY <1>5, <1>6, <1>7, <2>1
<1>9. Units(b) = SubSeq(Units(t), 1, N)
  <2> DEFINE p == Units(b)
             q == Units(t)
  <2>1. p \in Seq(Point) /\ Len(p) = N /\ \A u \in 1 .. N : p[u] = q[u]
    BY <1>5, <1>8
  <2>2. q \in Seq(Point) /\ N \in Nat /\ N <= Len(q)
    BY <1>3, <1>6
  <2> HIDE DEF p, q
  <2>3. SubSeq(q, 1, N) \in Seq(Point) /\ Len(SubSeq(q, 1, N)) = N
        /\ \A u \in 1 .. N : SubSeq(q, 1, N)[u] = q[u]
    BY <2>2
  <2>4. p = SubSeq(q, 1, N)
    BY <2>1, <2>2, <2>3
  <2> QED
    BY <2>4 DEF p, q
<1> QED
  BY <1>5, <1>9 DEF N, b


FitsInUnits(t, max) == {n \in 0 .. Len(t) : Len(Units(SubSeq(t, 1, n))) <= max}

LastToFit(t, max) == CHOOSE n \in FitsInUnits(t, max) : n + 1 \notin FitsInUnits(t, max)

LEMMA LastFits ==
  ASSUME NEW t \in Seq(Point), NEW max \in Nat, NEW n, n = LastToFit(t, max)
  PROVE  /\ n \in 0 .. Len(t) /\ Ends(t)[n] <= max
         /\ n = Len(t) \/ Ends(t)[n + 1] > max
<1> DEFINE F == FitsInUnits(t, max)
<1>1. EndsWell(t) /\ Len(t) \in Nat
  BY EndsAddUp DEF EndsWell
<1>2. F \in SUBSET (0 .. Len(t)) /\ \A m \in 0 .. Len(t) : m \in F <=> Ends(t)[m] <= max
  <2>1. F \in SUBSET (0 .. Len(t))
        /\ \A m \in 0 .. Len(t) : m \in F <=> Len(Units(SubSeq(t, 1, m))) <= max
    BY DEF FitsInUnits
  <2>2. \A m \in 0 .. Len(t) : Len(Units(SubSeq(t, 1, m))) = Ends(t)[m]
    BY UnitsOfBeginning
  <2> HIDE DEF F
  <2> QED
    BY <2>1, <2>2
<1>3. n = CHOOSE m \in F : m + 1 \notin F
  BY DEF LastToFit
<1> HIDE DEF F
<1>4. 0 \in F
  BY <1>1, <1>2 DEF EndsWell
<1>5. n \in F /\ n + 1 \notin F
  BY <1>1, <1>2, <1>3, <1>4, SomeFitLast
<1>6. n \in 0 .. Len(t) /\ Ends(t)[n] <= max
  BY <1>2, <1>5
<1>7. n = Len(t) \/ Ends(t)[n + 1] > max
  <2> SUFFICES ASSUME n # Len(t)
               PROVE  Ends(t)[n + 1] > max
    OBVIOUS
  <2>1. n + 1 \in 0 .. Len(t)
    BY <1>1, <1>6
  <2>2. ~(Ends(t)[n + 1] <= max) /\ Ends(t)[n + 1] \in Nat
    BY <1>1, <1>2, <1>5, <2>1 DEF EndsWell
  <2> QED
    BY <2>2
<1> QED
  BY <1>6, <1>7

NoSplitPair(t) == \A i \in 1 .. Len(t) - 1 : ~(t[i] = "high" /\ t[i + 1] = "low")

(* Where a text is cut is where its last code point that fits ends.        *)
LEMMA CutIsAnEnd ==
  ASSUME NEW t \in Seq(Point), NoSplitPair(t), NEW max \in Nat \ {0},
         NEW n \in 0 .. Len(t), n # Len(t), Ends(t)[n] <= max, Ends(t)[n + 1] > max
  PROVE  Ends(t)[n] = IF UnitAt(t, max + 1) = "low" /\ UnitAt(t, max) = "high"
                      THEN max - 1 ELSE max
<1> DEFINE E == Ends(t)
           i == n + 1
<1>1. EndsWell(t)
  BY EndsAddUp
<1>2. i \in 1 .. Len(t) /\ i - 1 = n /\ Len(t) \in Nat
  <2>1. Len(t) \in Nat
    OBVIOUS
  <2> QED
    BY <2>1
<1>3. E[n] \in Nat /\ E[i] \in Nat /\ E[i] = E[n] + (IF t[i] = "four" THEN 2 ELSE 1)
  <2>1. i \in 0 .. Len(t) /\ n \in 0 .. Len(t)
    BY <1>2
  <2>2. E[i] = E[i - 1] + (IF t[i] = "four" THEN 2 ELSE 1)
    BY <1>1, <1>2, Zenon DEF EndsWell
  <2> QED
    BY <1>1, <1>2, <2>1, <2>2, Zenon DEF EndsWell
<1>4. max \in Nat /\ max + 1 \in Nat /\ max > 0 /\ E[n] <= max /\ E[i] > max
  OBVIOUS
<1>5. \A u \in Nat : E[n] < u /\ u <= E[i] =>
          UnitAt(t, u) = IF t[i] # "four" THEN t[i] ELSE IF u = E[i] THEN "low" ELSE "high"
  <2> SUFFICES ASSUME NEW u \in Nat, E[n] < u, u <= E[i]
               PROVE  UnitAt(t, u) = UnitOf(t, i, u)
    BY DEF UnitOf
  <2>1. InPoint(t, i, u)
    BY <1>2 DEF InPoint
  <2> QED
    BY <1>2, <2>1, UnitIsOfOne
<1>6. CASE E[n] = max
  <2>1. n # 0
    BY <1>1, <1>4, <1>6, Zenon DEF EndsWell
  <2>2. n \in 1 .. Len(t) /\ n - 1 \in 0 .. Len(t) /\ n \in 1 .. Len(t) - 1
    BY <1>2, <2>1
  <2>3. E[n - 1] \in Nat /\ E[n] = E[n - 1] + (IF t[n] = "four" THEN 2 ELSE 1)
    BY <1>1, <2>2, Zenon DEF EndsWell
  <2>4. InPoint(t, n, max)
    BY <1>3, <1>4, <1>6, <2>3 DEF InPoint
  <2>5. UnitAt(t, max) = IF t[n] # "four" THEN t[n] ELSE "low"
    <3>1. UnitAt(t, max) = UnitOf(t, n, max)
      BY <1>4, <2>2, <2>4, UnitIsOfOne
    <3> QED
      BY <1>6, <3>1 DEF UnitOf
  <2>6. UnitAt(t, max + 1) = IF t[i] # "four" THEN t[i] ELSE "high"
    <3>1. E[n] < max + 1 /\ max + 1 <= E[i]
      BY <1>3, <1>4, <1>6
    <3>2. t[i] = "four" => max + 1 # E[i]
      BY <1>3, <1>4, <1>6
    <3> HIDE DEF E, i
    <3> QED
      BY <1>4, <1>5, <3>1, <3>2
  <2>7. ~(t[n] = "high" /\ t[i] = "low")
    BY <2>2 DEF NoSplitPair
  <2>8. ~(UnitAt(t, max + 1) = "low" /\ UnitAt(t, max) = "high")
    BY <2>5, <2>6, <2>7
  <2> QED
    BY <1>6, <2>8
<1>7. CASE E[n] # max
  <2>1. t[i] = "four" /\ E[n] = max - 1 /\ E[i] = max + 1
    BY <1>3, <1>4, <1>7
  <2>2. E[n] < max /\ max <= E[i] /\ max # E[i] /\ E[n] < max + 1 /\ max + 1 <= E[i]
    BY <1>4, <2>1
  <2>3. UnitAt(t, max) = "high"
    BY <1>4, <1>5, <2>1, <2>2
  <2>4. UnitAt(t, max + 1) = "low"
    BY <1>4, <1>5, <2>1, <2>2
  <2> QED
    BY <2>1, <2>3, <2>4
<1> QED
  BY <1>6, <1>7

LEMMA CharactersAreFitted ==
  ASSUME NEW t \in Seq(Point), NoSplitPair(t), NEW max \in Nat \ {0}
  PROVE  Characters(t, max) = Units(SubSeq(t, 1, LastToFit(t, max)))
<1> DEFINE n == LastToFit(t, max)
           u == Units(t)
           N == Ends(t)[Len(t)]
<1>1. /\ n \in 0 .. Len(t) /\ Ends(t)[n] <= max
      /\ n = Len(t) \/ Ends(t)[n + 1] > max
  BY LastFits
<1> HIDE DEF n
<1> SUFFICES Characters(t, max) = Units(SubSeq(t, 1, n))
  BY DEF n
<1>2. EndsWell(t)
  BY EndsAddUp
<1>3. Units(SubSeq(t, 1, n)) = SubSeq(u, 1, Ends(t)[n])
  BY <1>1, UnitsOfBeginning
<1>4. u \in Seq(Point) /\ Len(u) = N /\ \A i \in 1 .. N : u[i] = UnitAt(t, i)
  BY UnitsAreASequence
<1>5. Len(t) \in 0 .. Len(t) /\ N \in Nat /\ Len(t) \in Nat
  BY <1>2 DEF EndsWell
<1> DEFINE end == IF u[max + 1] = "low" /\ u[max] = "high" THEN max - 1 ELSE max
<1>6. Characters(t, max) = IF Len(u) <= max THEN u ELSE SubSeq(u, 1, end)
  BY DEF Characters
<1>7. CASE N <= max
  <2>1. n = Len(t)
    <3> SUFFICES ASSUME n # Len(t)
                 PROVE  FALSE
      OBVIOUS
    <3>1. n + 1 \in 0 .. Len(t) /\ n + 1 <= Len(t)
      BY <1>1, <1>5
    <3>2. Ends(t)[n + 1] <= N /\ Ends(t)[n + 1] \in Nat
      BY <1>2, <1>5, <3>1 DEF EndsWell
    <3> QED
      BY <1>1, <1>5, <1>7, <3>2
  <2>2. SubSeq(u, 1, N) = u
    <3> HIDE DEF u, N
    <3> QED
      BY <1>4
  <2>3. Characters(t, max) = u
    <3> HIDE DEF u, N, end
    <3> QED
      BY <1>4, <1>6, <1>7
  <2> QED
    BY <1>3, <2>1, <2>2, <2>3, Zenon
<1>8. CASE ~(N <= max)
  <2>1. n # Len(t)
    BY <1>1, <1>5, <1>8
  <2>2. Ends(t)[n + 1] > max
    BY <1>1, <2>1
  <2>3. Ends(t)[n] = IF UnitAt(t, max + 1) = "low" /\ UnitAt(t, max) = "high"
                     THEN max - 1 ELSE max
    BY <1>1, <2>1, <2>2, CutIsAnEnd
  <2>4. max \in 1 .. N /\ max + 1 \in 1 .. N
    <3> HIDE DEF N
    <3> QED
      BY <1>5, <1>8
  <2>5. u[max] = UnitAt(t, max) /\ u[max + 1] = UnitAt(t, max + 1)
    BY <1>4, <2>4
  <2>6. end = Ends(t)[n]
    BY <2>3, <2>5
  <2>7. Characters(t, max) = SubSeq(u, 1, end)
    <3> HIDE DEF u, N, end
    <3> QED
      BY <1>4, <1>6, <1>8
  <2> QED
    BY <1>3, <2>6, <2>7, Zenon
<1> QED
  BY <1>7, <1>8

-----------------------------------------------------------------------------
CutInv ==
    /\ text \in Seq(Point) /\ NoSplitPair(text)
    /\ limit.of \in {"characters", "bytes"} /\ limit.max \in Nat \ {0}
    /\ cut.done =>
          cut.text = IF limit.of = "bytes" THEN InBytes(text, limit.max)
                     ELSE Characters(text, limit.max)

LEMMA CutInvStarts == CutInit => CutInv
<1> SUFFICES ASSUME CutInit
             PROVE  CutInv
  OBVIOUS
<1>1. text \in Texts /\ limit \in [of : {"characters", "bytes"}, max : 1 .. MaxCut]
      /\ cut = [done |-> FALSE, text |-> <<>>]
  BY DEF CutInit
<1>2. PICK n \in 0 .. MaxText : text \in [1 .. n -> Point]
  BY <1>1 DEF Texts
<1>3. n \in Nat /\ MaxCut \in Nat
  BY TruncateAssumptions
<1>4. text \in Seq(Point)
  BY <1>2, <1>3
<1>5. NoSplitPair(text)
  BY <1>1 DEF Texts, NoSplitPair
<1>6. limit.of \in {"characters", "bytes"} /\ limit.max \in Nat \ {0}
  BY <1>1, <1>3
<1>7. ~cut.done
  BY <1>1
<1> QED
  BY <1>4, <1>5, <1>6, <1>7 DEF CutInv

LEMMA CutInvStays == CutInv /\ [CutNext]_cutVars => CutInv'
<1> SUFFICES ASSUME CutInv, [CutNext]_cutVars
             PROVE  CutInv'
  OBVIOUS
<1>1. CASE Truncates
  <2>1. cut' = [done |-> TRUE,
               text |-> IF limit.of = "bytes" THEN InBytes(text, limit.max)
                        ELSE Characters(text, limit.max)]
        /\ text' = text /\ limit' = limit
    BY <1>1 DEF Truncates
  <2>2. cut'.text = IF limit.of = "bytes" THEN InBytes(text, limit.max)
                    ELSE Characters(text, limit.max)
    BY <2>1
  <2> QED
    BY <2>1, <2>2, Zenon DEF CutInv
<1>2. CASE UNCHANGED cutVars
  BY <1>2 DEF CutInv, cutVars
<1> QED
  BY <1>1, <1>2 DEF CutNext

LEMMA CutInvIsEnough == CutInv => TruncationIsTight
<1> SUFFICES ASSUME CutInv, cut.done, text # <<>>
             PROVE  IF limit.of = "bytes" THEN BytesFit ELSE CharactersFit
  BY DEF TruncationIsTight
<1>0. text \in Seq(Point) /\ NoSplitPair(text) /\ limit.max \in Nat \ {0} /\ limit.max \in Nat
  BY DEF CutInv
<1>1. CASE limit.of = "bytes"
  <2>1. cut.text = InBytes(text, limit.max)
    BY <1>1 DEF CutInv
  <2> DEFINE c == cut.text
  <2> HIDE DEF c
  <2>2. c = InBytes(text, limit.max)
    BY <2>1 DEF c
  <2>3. /\ Bytes(c) <= limit.max
        /\ \A i \in DOMAIN c : c[i] = "replacement" =>
              \E j \in DOMAIN text : text[j] \in Halves \cup {"replacement"}
        /\ (\A i \in DOMAIN text : text[i] \notin Halves) /\ Head(text) # "mark" =>
              KeepsAll(c, Longest(text, limit.max))
    BY <1>0, <2>2, BytesAreFitted
  <2>4. Front(Longest(text, limit.max)) =
           SubSeq(Longest(text, limit.max), 1, Len(Longest(text, limit.max)) - 1)
    BY DEF Front
  <2>5. BytesFit
    BY <2>3, <2>4, Zenon DEF BytesFit, KeepsAll, c
  <2> QED
    BY <1>1, <2>5
<1>2. CASE limit.of # "bytes"
  <2>1. cut.text = Characters(text, limit.max)
    BY <1>2 DEF CutInv
  <2>2. cut.text = Units(SubSeq(text, 1, LastToFit(text, limit.max)))
    BY <1>0, <2>1, CharactersAreFitted
  <2>3. CharactersFit
    BY <2>2 DEF CharactersFit, LastToFit, FitsInUnits
  <2> QED
    BY <1>2, <2>3
<1> QED
  BY <1>1, <1>2

(* For texts and limits of any size: a text cut to characters is its       *)
(* longest beginning of whole code points that fits; one cut to bytes fits *)
(* and holds no part of a code point, and without unpaired surrogates, or a*)
(* mark in front, it is that longest beginning, less a replacement         *)
(* character at its end (truncateCharacters, truncateBytes,                *)
(* truncate.ts:15-46).                                                     *)
THEOREM CutsAreTight == CutSpec => []TruncationIsTight
<1>1. CutInit => CutInv
  BY CutInvStarts
<1>2. CutInv /\ [CutNext]_cutVars => CutInv'
  BY CutInvStays
<1>3. CutInv => TruncationIsTight
  BY CutInvIsEnough
<1> QED
  BY <1>1, <1>2, <1>3, PTL DEF CutSpec

=============================================================================
