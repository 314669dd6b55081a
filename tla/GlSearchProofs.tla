---------------------------- MODULE GlSearchProofs ----------------------------
(***************************************************************************)
(* The GL shim's search of the host, for any directories, any tree of      *)
(* configuration files and any limits of the walk: the walk gives the      *)
(* directories that the files name, in their order, less those it warns of *)
(* or passes over in silence, and the shim forwards to the object that its *)
(* rules call best.                                                        *)
(***************************************************************************)
EXTENDS GlSearch, FiniteSetTheorems, SequenceTheorems, WellFoundedInduction, TLAPS

------------------------------------------------------------------------------
(* Sequences of sequences, one after the other.                            *)

LEMMA Least ==
  ASSUME NEW T \in SUBSET Nat, T # {}
  PROVE  \E x \in T : \A y \in T : x <= y
<1>1. PICK x \in T : \A y \in T : <<y, x>> \notin OpToRel(<, Nat)
  BY NatLessThanWellFounded, WFMin
<1>2. \A y \in T : ~(y < x)
  BY <1>1 DEF OpToRel
<1> QED BY <1>2

\* g is the recursion inside FlattenSeq, up to n.
Flattens(g, seqs, n) ==
  g = [i \in 1 .. n |-> IF i = 1 THEN seqs[i] ELSE g[i-1] \o seqs[i]]

\* The recursion that defines FlattenSeq has a solution, so FlattenSeq is one.
LEMMA FlattenUnfolds ==
  ASSUME NEW seqs, NEW n \in Nat \ {0}, Len(seqs) = n
  PROVE  \E g : Flattens(g, seqs, n) /\ FlattenSeq(seqs) = g[n]
<1> DEFINE Bad == {k \in Nat \ {0} : ~\E g : Flattens(g, seqs, k)}
<1>1. ASSUME Bad # {} PROVE FALSE
  <2>1. PICK k \in Bad : \A j \in Bad : k <= j
    BY <1>1, Least
  <2>2. k \in Nat /\ k # 0 /\ ~\E g : Flattens(g, seqs, k)
    OBVIOUS
  <2>3. CASE k = 1
    <3> DEFINE f == [i \in 1 .. 1 |-> seqs[i]]
    <3>1. f = [i \in 1 .. 1 |-> IF i = 1 THEN seqs[i] ELSE f[i-1] \o seqs[i]]
      OBVIOUS
    <3> HIDE DEF f
    <3> QED BY <2>2, <2>3, <3>1 DEF Flattens
  <2>4. CASE k # 1
    <3>1. k - 1 \in Nat \ {0} /\ k - 1 \notin Bad
      BY <2>1, <2>2, <2>4
    <3>2. PICK g : Flattens(g, seqs, k - 1)
      BY <3>1
    <3> HIDE DEF Bad
    <3> DEFINE f == [i \in 1 .. k |-> IF i = k THEN g[k-1] \o seqs[k] ELSE g[i]]
    <3>3. \A i \in 1 .. k : f[i] = IF i = 1 THEN seqs[i] ELSE f[i-1] \o seqs[i]
      <4> TAKE i \in 1 .. k
      <4>1. CASE i = k
        <5>1. k \in 1 .. k /\ k - 1 \in 1 .. k /\ k - 1 # k
          BY <2>2, <3>1
        <5>2. f[k] = g[k-1] \o seqs[k] /\ f[k-1] = g[k-1]
          BY <5>1
        <5> HIDE DEF f
        <5> QED BY <4>1, <5>2, <2>4
      <4>2. CASE i # k
        <5>1. i \in 1 .. k - 1
          BY <4>2, <2>2
        <5>2. g[i] = IF i = 1 THEN seqs[i] ELSE g[i-1] \o seqs[i]
          BY <3>2, <5>1 DEF Flattens
        <5>3. i # 1 => i - 1 \in 1 .. k /\ i - 1 # k
          BY <5>1, <2>2
        <5> QED BY <5>2, <5>3, <4>2
      <4> QED BY <4>1, <4>2
    <3>4. f = [i \in 1 .. k |-> f[i]]
      OBVIOUS
    <3> HIDE DEF f
    <3>5. f = [i \in 1 .. k |-> IF i = 1 THEN seqs[i] ELSE f[i-1] \o seqs[i]]
      BY <3>3, <3>4
    <3> QED BY <2>2, <3>5 DEF Flattens
  <2> QED BY <2>3, <2>4
<1>2. \E g : Flattens(g, seqs, n)
  BY <1>1
<1> DEFINE flat == CHOOSE g : g = [i \in 1 .. Len(seqs) |->
                                     IF i = 1 THEN seqs[i] ELSE g[i-1] \o seqs[i]]
<1>3. Flattens(flat, seqs, n)
  BY <1>2 DEF Flattens
<1>4. FlattenSeq(seqs) = flat[n]
  BY DEF FlattenSeq
<1> QED BY <1>3, <1>4

LEMMA FlattenEmpty == FlattenSeq(<<>>) = <<>>
BY DEF FlattenSeq

\* Every part of it is a sequence.
LEMMA FlattensType ==
  ASSUME NEW S, NEW seqs \in Seq(Seq(S)), seqs # <<>>, NEW g, Flattens(g, seqs, Len(seqs))
  PROVE  \A i \in 1 .. Len(seqs) : g[i] \in Seq(S)
<1> DEFINE Bad == {i \in Nat : i \in 1 .. Len(seqs) /\ g[i] \notin Seq(S)}
<1>1. ASSUME Bad # {} PROVE FALSE
  <2>1. PICK k \in Bad : \A j \in Bad : k <= j
    BY <1>1, Least
  <2>2. k \in 1 .. Len(seqs) /\ g[k] \notin Seq(S)
    OBVIOUS
  <2>3. g[k] = IF k = 1 THEN seqs[k] ELSE g[k-1] \o seqs[k]
    BY <2>2 DEF Flattens
  <2>4. seqs[k] \in Seq(S)
    BY <2>2
  <2>5. k # 1
    BY <2>2, <2>3, <2>4
  <2>6. k - 1 \in Nat /\ k - 1 \in 1 .. Len(seqs) /\ k - 1 \notin Bad
    BY <2>1, <2>2, <2>5
  <2>7. g[k-1] \in Seq(S)
    BY <2>6
  <2> HIDE DEF Bad
  <2> QED BY <2>2, <2>3, <2>4, <2>5, <2>7
<1>2. \A i \in 1 .. Len(seqs) : i \in Nat
  BY EmptySeq
<1> QED BY <1>1, <1>2

LEMMA FlattenType ==
  ASSUME NEW S, NEW seqs \in Seq(Seq(S))
  PROVE  FlattenSeq(seqs) \in Seq(S)
<1>1. CASE seqs = <<>>
  BY <1>1, FlattenEmpty, EmptySeq
<1>2. CASE seqs # <<>>
  <2>1. Len(seqs) \in Nat \ {0}
    BY <1>2, EmptySeq
  <2>2. PICK g : Flattens(g, seqs, Len(seqs)) /\ FlattenSeq(seqs) = g[Len(seqs)]
    BY <2>1, FlattenUnfolds
  <2>3. Len(seqs) \in 1 .. Len(seqs)
    BY <2>1
  <2> QED BY <1>2, <2>2, <2>3, FlattensType
<1> QED BY <1>1, <1>2

\* Concatenation, for steps that need nothing else of it, does not mind how it
\* is grouped.
Then(a, b) == a \o b

LEMMA Regroup ==
  ASSUME NEW S, NEW a, NEW b, NEW c, a \in Seq(S), b \in Seq(S), c \in Seq(S)
  PROVE  Then(Then(a, b), c) = Then(a, Then(b, c))
BY ConcatAssociative DEF Then

\* FlattenSeq, from the front.

LEMMA FlattenCons ==
  ASSUME NEW S, NEW s \in Seq(Seq(S)), s # <<>>
  PROVE  FlattenSeq(s) = Head(s) \o FlattenSeq(Tail(s))
<1> DEFINE n == Len(s)
           t == Tail(s)
<1>1. /\ n \in Nat \ {0} /\ Head(s) = s[1] /\ s[1] \in Seq(S)
      /\ t \in Seq(Seq(S)) /\ Len(t) = n - 1
      /\ \A i \in 1 .. n - 1 : t[i] = s[i+1] /\ t[i] \in Seq(S)
  BY EmptySeq, HeadTailProperties
<1> HIDE DEF t
<1>0. t = <<>> <=> n = 1
  <2> HIDE DEF n
  <2> QED BY <1>1, EmptySeq
<1>2. PICK g : Flattens(g, s, n) /\ FlattenSeq(s) = g[n]
  BY <1>1, FlattenUnfolds
<1>3. \A i \in 1 .. n : g[i] = IF i = 1 THEN s[i] ELSE g[i-1] \o s[i]
  BY <1>2 DEF Flattens
<1> HIDE DEF n
<1>4. CASE n = 1
  <2>1. FlattenSeq(s) = s[1]
    BY <1>2, <1>3, <1>4
  <2>2. FlattenSeq(t) = <<>>
    BY <1>0, <1>4, FlattenEmpty
  <2> QED BY <1>1, <2>1, <2>2, ConcatEmptySeq DEF t
<1>5. CASE n # 1
  <2>1. n - 1 \in Nat \ {0} /\ t # <<>>
    BY <1>0, <1>1, <1>5
  <2>2. PICK h : Flattens(h, t, n - 1) /\ FlattenSeq(t) = h[n-1]
    BY <1>1, <2>1, FlattenUnfolds
  <2>3. \A i \in 1 .. n - 1 : h[i] = IF i = 1 THEN t[i] ELSE h[i-1] \o t[i]
    BY <2>2 DEF Flattens
  <2>4. \A i \in 1 .. n - 1 : h[i] \in Seq(S)
    BY <1>1, <2>1, <2>2, FlattensType
  <2> DEFINE Bad == {i \in Nat : i \in 1 .. n - 1 /\ g[i+1] # s[1] \o h[i]}
  <2>5. ASSUME Bad # {} PROVE FALSE
    <3>1. PICK k \in Bad : \A j \in Bad : k <= j
      BY <2>5, Least
    <3>2. k \in 1 .. n - 1 /\ k \in Nat /\ g[k+1] # s[1] \o h[k]
      OBVIOUS
    <3>3. k + 1 \in 1 .. n /\ k + 1 # 1 /\ k + 1 - 1 = k /\ s[k+1] = t[k]
      BY <1>1, <3>2
    <3>4. g[k+1] = g[k] \o t[k]
      <4>1. PICK m \in 1 .. n : m = k + 1
        BY <3>3
      <4>2. g[m] = IF m = 1 THEN s[m] ELSE g[m-1] \o s[m]
        BY <1>3
      <4>3. m - 1 = k /\ m # 1 /\ s[m] = t[k]
        BY <3>2, <3>3, <4>1
      <4> QED BY <4>1, <4>2, <4>3
    <3>5. CASE k = 1
      <4>1. g[1] = s[1] /\ h[1] = t[1]
        BY <1>1, <1>3, <2>3, <3>2, <3>5
      <4> QED BY <3>2, <3>4, <3>5, <4>1
    <3>6. CASE k # 1
      <4>1. k - 1 \in 1 .. n - 1 /\ k - 1 \in Nat /\ k - 1 + 1 = k
        BY <1>1, <3>2, <3>6
      <4>2. k - 1 \notin Bad
        <5> HIDE DEF Bad
        <5> QED BY <3>1, <3>2, <4>1
      <4>3. g[k] = s[1] \o h[k-1]
        BY <4>1, <4>2
      <4>4. h[k] = h[k-1] \o t[k] /\ h[k-1] \in Seq(S) /\ t[k] \in Seq(S)
        BY <1>1, <2>3, <2>4, <3>2, <3>6, <4>1
      <4>5. (s[1] \o h[k-1]) \o t[k] = s[1] \o (h[k-1] \o t[k])
        <5> DEFINE a == s[1]  b == h[k-1]  c == t[k]
        <5>1. a \in Seq(S) /\ b \in Seq(S) /\ c \in Seq(S)
          BY <1>1, <4>4
        <5> HIDE DEF a, b, c
        <5>2. (a \o b) \o c = a \o (b \o c)
          <6>1. Then(Then(a, b), c) = Then(a, Then(b, c))
            BY <5>1, Regroup
          <6> QED BY <6>1 DEF Then
        <5> QED BY <5>2 DEF a, b, c
      <4> HIDE DEF Bad
      <4> QED BY <3>2, <3>4, <4>3, <4>4, <4>5
    <3> QED BY <3>5, <3>6
  <2>6. n - 1 \in 1 .. n - 1 /\ n - 1 \in Nat /\ n - 1 + 1 = n
    BY <1>1, <2>1
  <2>7. g[n] = s[1] \o h[n-1]
    BY <2>5, <2>6
  <2> QED BY <1>1, <1>2, <2>2, <2>7 DEF t
<1> QED BY <1>4, <1>5

\* One element of a mapped sequence, and the rest.
Follows(e, d, n, S) ==
  /\ n \in Nat \ {0} /\ e \in [1 .. n -> Seq(S)] /\ d \in [1 .. n - 1 -> Seq(S)]
  /\ \A i \in 1 .. n - 1 : d[i] = e[i+1]

LEMMA FlattenFirst ==
  ASSUME NEW S, NEW n, NEW e, NEW d, Follows(e, d, n, S)
  PROVE  FlattenSeq(e) = e[1] \o FlattenSeq(d) /\ FlattenSeq(d) \in Seq(S)
<1>0. /\ n \in Nat \ {0} /\ e \in [1 .. n -> Seq(S)] /\ d \in [1 .. n - 1 -> Seq(S)]
      /\ \A i \in 1 .. n - 1 : d[i] = e[i+1]
  BY DEF Follows
<1>1. e \in Seq(Seq(S)) /\ Len(e) = n /\ e # <<>>
  BY <1>0, EmptySeq
<1>2. d \in Seq(Seq(S)) /\ Len(d) = n - 1
  BY <1>0
<1>3. /\ Tail(e) \in Seq(Seq(S)) /\ Len(Tail(e)) = n - 1
      /\ \A i \in 1 .. n - 1 : Tail(e)[i] = e[i+1]
      /\ Head(e) = e[1]
  BY <1>0, <1>1, HeadTailProperties
<1>4. Tail(e) = d
  BY <1>0, <1>2, <1>3, SeqEqual
<1> QED BY <1>0, <1>1, <1>2, <1>3, <1>4, FlattenCons, FlattenType

------------------------------------------------------------------------------
(* The numbers of a finite set can be put in order.                        *)

Ascends(s) == \A i, j \in DOMAIN s : i < j => s[i] < s[j]
Orders(s, S) == s \in [1 .. Cardinality(S) -> S] /\ Ascends(s)

LEMMA OrderExists ==
  ASSUME NEW S \in SUBSET Nat, IsFiniteSet(S)
  PROVE  \E s : Orders(s, S)
<1> DEFINE Bad == {n \in Nat : \E T \in SUBSET Nat : /\ IsFiniteSet(T) /\ Cardinality(T) = n
                                                     /\ ~\E s : Orders(s, T)}
<1>1. ASSUME Bad # {} PROVE FALSE
  <2>1. PICK n \in Bad : \A j \in Bad : n <= j
    BY <1>1, Least
  <2>2. PICK T \in SUBSET Nat : /\ IsFiniteSet(T) /\ Cardinality(T) = n
                                /\ ~\E s : Orders(s, T)
    BY <2>1
  <2>3. n \in Nat
    OBVIOUS
  <2>4. CASE T = {}
    <3>1. n = 0
      BY <2>2, <2>4, FS_EmptySet
    <3>2. <<>> \in [1 .. 0 -> T] /\ DOMAIN <<>> = 1 .. 0
      OBVIOUS
    <3>3. Orders(<<>>, T)
      BY <2>2, <3>1, <3>2 DEF Orders, Ascends
    <3> QED BY <2>2, <3>3
  <2>5. CASE T # {}
    <3>1. PICK x \in T : \A y \in T : x <= y
      BY <2>5, Least
    <3> DEFINE U == T \ {x}
    <3>2. /\ U \in SUBSET Nat /\ IsFiniteSet(U) /\ Cardinality(U) = n - 1
          /\ \A y \in U : x < y
      <4>1. IsFiniteSet(U) /\ Cardinality(U) = n - 1
        BY <2>2, FS_RemoveElement
      <4>2. \A y \in U : x < y
        BY <2>2, <3>1
      <4> QED BY <2>2, <4>1, <4>2
    <3>3. n - 1 \in Nat
      BY <3>2, FS_CardinalityType
    <3>4. n - 1 \notin Bad
      <4> HIDE DEF Bad
      <4> QED BY <2>1, <2>3, <3>3
    <3> HIDE DEF U
    <3>5. PICK s : Orders(s, U)
      BY <3>2, <3>3, <3>4
    <3>6. s \in [1 .. n - 1 -> U] /\ \A i, j \in 1 .. n - 1 : i < j => s[i] < s[j]
      BY <3>2, <3>5 DEF Orders, Ascends
    <3> DEFINE q == [i \in 1 .. n |-> IF i = 1 THEN x ELSE s[i-1]]
    <3>7. \A i \in 1 .. n : /\ q[i] = IF i = 1 THEN x ELSE s[i-1]
                            /\ i # 1 => i - 1 \in 1 .. n - 1 /\ q[i] \in U
      BY <2>3, <3>3, <3>6
    <3>8. q \in [1 .. n -> T]
      BY <3>7 DEF U
    <3>9. ASSUME NEW i \in 1 .. n, NEW j \in 1 .. n, i < j PROVE q[i] < q[j]
      <4>1. j # 1 /\ j - 1 \in 1 .. n - 1 /\ q[j] \in U /\ q[j] = s[j-1]
        BY <2>3, <3>7, <3>9
      <4>2. CASE i = 1
        BY <3>2, <3>7, <4>1, <4>2
      <4>3. CASE i # 1
        <5>1. i - 1 \in 1 .. n - 1 /\ q[i] = s[i-1] /\ i - 1 < j - 1
          BY <2>3, <3>7, <3>9, <4>3
        <5> HIDE DEF q
        <5> QED BY <3>6, <4>1, <5>1
      <4> QED BY <4>2, <4>3
    <3>10. DOMAIN q = 1 .. n
      OBVIOUS
    <3> HIDE DEF q
    <3>11. Orders(q, T)
      BY <2>2, <3>8, <3>9, <3>10 DEF Orders, Ascends
    <3> QED BY <2>2, <3>11
  <2> QED BY <2>4, <2>5
<1>2. Cardinality(S) \in Nat
  BY FS_CardinalityType
<1> QED BY <1>1, <1>2

LEMMA InOrderIs ==
  ASSUME NEW S \in SUBSET Nat, IsFiniteSet(S)
  PROVE  InOrder(S) \in [1 .. Cardinality(S) -> S] /\ Cardinality(S) \in Nat
<1>1. \E s \in [1 .. Cardinality(S) -> S] : \A i, j \in DOMAIN s : i < j => s[i] < s[j]
  BY OrderExists DEF Orders, Ascends
<1> QED BY <1>1, FS_CardinalityType DEF InOrder

------------------------------------------------------------------------------
(* What a tree of files says.                                              *)

Top0 == LDCONF_MAX_DEPTH + 1
Spoken(t) == [Files(t) -> Seq(Dirs)]

\* ToSet of a sequence is finite.
LEMMA ListedIsFinite ==
  ASSUME NEW t, IsTree(t)
  PROVE  IsFiniteSet(ToSet(t.listing)) /\ ToSet(t.listing) \subseteq Nat
<1>1. t.listing \in Seq(Nat)
  BY DEF IsTree
<1> DEFINE s == t.listing
<1>2. Len(s) \in Nat /\ s \in [1 .. Len(s) -> Nat] /\ DOMAIN s = 1 .. Len(s)
  BY <1>1, LenProperties
<1>3. ToSet(s) = {s[i] : i \in 1 .. Len(s)}
  BY <1>2 DEF ToSet
<1> HIDE DEF s
<1>4. s \in Surjection(1 .. Len(s), ToSet(s))
  BY <1>2, <1>3 DEF Surjection
<1>5. IsFiniteSet(1 .. Len(s))
  BY <1>2, FS_Interval
<1>6. IsFiniteSet(ToSet(s))
  BY <1>4, <1>5, FS_Surjection
<1> QED BY <1>2, <1>3, <1>6 DEF s

\* An include's names, in order, are files.
LEMMA IncludedNames ==
  ASSUME NEW t, IsTree(t), NEW m \in SUBSET Nat
  PROVE  InOrder(m \cap ToSet(t.listing)) \in Seq(Files(t))
<1> DEFINE S == m \cap ToSet(t.listing)
<1>1. S \in SUBSET Nat /\ IsFiniteSet(S) /\ S \subseteq Files(t)
  BY ListedIsFinite, FS_Subset DEF Files
<1> HIDE DEF S
<1>2. InOrder(S) \in [1 .. Cardinality(S) -> S] /\ Cardinality(S) \in Nat
  BY <1>1, InOrderIs
<1>3. InOrder(S) \in [1 .. Cardinality(S) -> Files(t)]
  BY <1>1, <1>2
<1>4. InOrder(S) \in Seq(Files(t))
  BY <1>2, <1>3
<1> QED BY <1>4 DEF S

LEMMA NamesSayType ==
  ASSUME NEW t, NEW said \in Spoken(t), NEW names \in Seq(Files(t))
  PROVE  NamesSay(names, said) \in Seq(Dirs)
<1>1. [i \in DOMAIN names |-> said[names[i]]] \in Seq(Seq(Dirs))
  BY DEF Spoken
<1> QED BY <1>1, FlattenType DEF NamesSay

\* What an include is taken to mean, in order, are files.
LEMMA MeantNames ==
  ASSUME NEW t, IsTree(t), NEW line \in Line, line.kind = "include"
  PROVE  InOrder(Meant(t, line, FALSE)) \in Seq(Files(t))
<1>1. line.match \in SUBSET Nat
  BY DEF Line
<1> DEFINE m == IF line.fault \in Silent THEN {} ELSE line.match \ line.cut
<1>2. m \in SUBSET Nat
  BY <1>1
<1>3. Meant(t, line, FALSE) = m \cap ToSet(t.listing)
  BY DEF Meant
<1> HIDE DEF m
<1> QED BY <1>2, <1>3, IncludedNames

LEMMA LineSaysType ==
  ASSUME NEW t, IsTree(t), NEW said \in Spoken(t), NEW line \in Line
  PROVE  LineSays(t, line, said, FALSE) \in Seq(Dirs)
<1>1. CASE line.kind = "directory"
  <2>1. line.dir \in Dirs /\ line.kind # "include"
    BY <1>1 DEF Line
  <2>2. <<line.dir>> \in Seq(Dirs) /\ <<>> \in Seq(Dirs)
    BY <2>1, EmptySeq
  <2> QED BY <2>1, <2>2 DEF LineSays
<1>2. CASE line.kind # "directory"
  <2>1. line.kind = "include"
    BY <1>2 DEF Line
  <2>2. NamesSay(InOrder(Meant(t, line, FALSE)), said) \in Seq(Dirs)
    BY <2>1, MeantNames, NamesSayType
  <2> QED BY <2>1, <2>2 DEF LineSays
<1> QED BY <1>1, <1>2

\* The lines of a file from one of them on.
Rest(t, f, l, said) ==
  [i \in 1 .. Len(t.files[f]) + 1 - l |-> LineSays(t, t.files[f][i + l - 1], said, FALSE)]
LinesSay(t, f, l, said) == FlattenSeq(Rest(t, f, l, said))

\* Past the last line nothing is said, and before it the line and then the rest.
LEMMA LinesSayIs ==
  ASSUME NEW t, IsTree(t), NEW said \in Spoken(t), NEW f \in DOMAIN t.files,
         NEW l \in 1 .. Len(t.files[f]) + 1
  PROVE  /\ LinesSay(t, f, l, said) \in Seq(Dirs)
         /\ l = Len(t.files[f]) + 1 => LinesSay(t, f, l, said) = <<>>
         /\ l <= Len(t.files[f]) =>
              LinesSay(t, f, l, said) =
                LineSays(t, t.files[f][l], said, FALSE) \o LinesSay(t, f, l + 1, said)
<1> DEFINE n == Len(t.files[f])
           e == Rest(t, f, l, said)
           d == Rest(t, f, l + 1, said)
<1>1. t.files[f] \in Seq(Line) /\ n \in Nat /\ l \in Nat /\ l >= 1 /\ l <= n + 1
  BY DEF IsTree
<1>2. \A i \in 1 .. n + 1 - l : /\ i + l - 1 \in 1 .. n /\ t.files[f][i + l - 1] \in Line
                                /\ LineSays(t, t.files[f][i + l - 1], said, FALSE) \in Seq(Dirs)
  <2> TAKE i \in 1 .. n + 1 - l
  <2>1. i + l - 1 \in 1 .. n
    BY <1>1
  <2>2. t.files[f][i + l - 1] \in Line
    BY <1>1, <2>1, ElementOfSeq
  <2> QED BY <2>1, <2>2, LineSaysType
<1> HIDE DEF n, e, d
<1>3. n + 1 - l \in Nat /\ \A i \in 1 .. n + 1 - l : i \in Nat
  BY <1>1
<1>4. e = [i \in 1 .. n + 1 - l |-> LineSays(t, t.files[f][i + l - 1], said, FALSE)]
  BY DEF e, Rest, n
<1>5. e \in [1 .. n + 1 - l -> Seq(Dirs)]
  BY <1>2, <1>4 DEF n
<1>6. CASE l = n + 1
  <2>1. e = <<>>
    BY <1>1, <1>5, <1>6
  <2>2. LinesSay(t, f, l, said) = <<>>
    BY <2>1, FlattenEmpty DEF LinesSay, e
  <2>3. ~(l <= n) /\ <<>> \in Seq(Dirs)
    BY <1>1, <1>6
  <2> QED BY <2>2, <2>3 DEF n
<1>7. CASE l # n + 1
  <2> DEFINE m == n + 1 - l
  <2>1. l <= n /\ m \in Nat \ {0} /\ n + 1 - (l + 1) = m - 1
    BY <1>1, <1>7
  <2>2. d = [i \in 1 .. m - 1 |-> LineSays(t, t.files[f][i + (l + 1) - 1], said, FALSE)]
    BY <2>1 DEF d, Rest, n
  <2>3. \A i \in 1 .. m - 1 :
          i + 1 \in 1 .. m /\ i + (l + 1) - 1 = (i + 1) + l - 1
    BY <1>1, <2>1
  <2>4. \A i \in 1 .. m - 1 : d[i] = e[i+1]
    BY <1>4, <2>2, <2>3
  <2>5. d \in [1 .. m - 1 -> Seq(Dirs)]
    BY <1>5, <2>2, <2>3, <2>4
  <2>6. 1 \in 1 .. m /\ 1 + l - 1 = l
    BY <1>1, <2>1
  <2>7. e[1] = LineSays(t, t.files[f][l], said, FALSE)
    BY <1>4, <2>6
  <2>8. e \in [1 .. m -> Seq(Dirs)]
    BY <1>5
  <2> HIDE DEF m
  <2>14. Follows(e, d, m, Dirs)
    BY <2>1, <2>4, <2>5, <2>8 DEF Follows
  <2>9. FlattenSeq(e) = e[1] \o FlattenSeq(d) /\ FlattenSeq(d) \in Seq(Dirs)
    BY <2>14, FlattenFirst
  <2>10. e[1] \in Seq(Dirs)
    BY <2>6, <2>8
  <2>11. FlattenSeq(e) \in Seq(Dirs)
    BY <2>9, <2>10, ConcatProperties
  <2>12. /\ LinesSay(t, f, l, said) = FlattenSeq(e)
         /\ LinesSay(t, f, l + 1, said) = FlattenSeq(d)
    BY DEF LinesSay, e, d
  <2>13. l # Len(t.files[f]) + 1
    BY <1>7 DEF n
  <2> QED BY <2>7, <2>9, <2>11, <2>12, <2>13
<1> QED BY <1>6, <1>7

\* A file that can be opened says what its lines say.
LEMMA FileSaysLines ==
  ASSUME NEW t, IsTree(t), NEW said \in Spoken(t), NEW f \in DOMAIN t.files \ t.closed
  PROVE  FileSays(t, f, said, FALSE) = LinesSay(t, f, 1, said)
<1>1. t.files[f] \in Seq(Line)
  BY DEF IsTree
<1>2. [l \in DOMAIN t.files[f] |-> LineSays(t, t.files[f][l], said, FALSE)] = Rest(t, f, 1, said)
  BY <1>1 DEF Rest
<1> QED BY <1>2 DEF FileSays, LinesSay

LEMMA FileSaysType ==
  ASSUME NEW t, IsTree(t), NEW said \in Spoken(t), NEW f \in Files(t)
  PROVE  FileSays(t, f, said, FALSE) \in Seq(Dirs)
<1>1. CASE f \in DOMAIN t.files \ t.closed
  <2>1. f \in DOMAIN t.files /\ 1 \in 1 .. Len(t.files[f]) + 1
    BY <1>1 DEF IsTree
  <2>2. LinesSay(t, f, 1, said) \in Seq(Dirs)
    BY <2>1, LinesSayIs
  <2> QED BY <1>1, <2>2, FileSaysLines
<1>2. CASE f \notin DOMAIN t.files \/ f \in t.closed
  BY <1>2, EmptySeq DEF FileSays
<1> QED BY <1>1, <1>2

LEMMA NamesSayFirst ==
  ASSUME NEW t, NEW said \in Spoken(t), NEW names \in Seq(Files(t)), names # <<>>
  PROVE  NamesSay(names, said) = said[Head(names)] \o NamesSay(Tail(names), said)
<1> DEFINE n == Len(names)
           e == [i \in DOMAIN names |-> said[names[i]]]
           d == [i \in DOMAIN Tail(names) |-> said[Tail(names)[i]]]
<1>1. /\ n \in Nat \ {0} /\ DOMAIN names = 1 .. n
      /\ Tail(names) \in Seq(Files(t)) /\ Len(Tail(names)) = n - 1
      /\ DOMAIN Tail(names) = 1 .. n - 1
      /\ \A i \in 1 .. n - 1 : Tail(names)[i] = names[i+1] /\ i + 1 \in 1 .. n
      /\ Head(names) = names[1] /\ 1 \in 1 .. n
  BY EmptySeq, HeadTailProperties
<1>2. e \in [1 .. n -> Seq(Dirs)]
  BY <1>1 DEF Spoken
<1>3. d \in [1 .. n - 1 -> Seq(Dirs)] /\ \A i \in 1 .. n - 1 : d[i] = e[i+1]
  BY <1>1 DEF Spoken
<1>4. e[1] = said[Head(names)]
  BY <1>1
<1> HIDE DEF n, e, d
<1>6. Follows(e, d, n, Dirs)
  BY <1>1, <1>2, <1>3 DEF Follows
<1>5. FlattenSeq(e) = e[1] \o FlattenSeq(d)
  BY <1>6, FlattenFirst
<1> QED BY <1>4, <1>5 DEF NamesSay, e, d

LEMMA NamesSayNone == ASSUME NEW said PROVE NamesSay(<<>>, said) = <<>>
<1>1. [i \in DOMAIN <<>> |-> said[<<>>[i]]] = <<>>
  OBVIOUS
<1> QED BY <1>1, FlattenEmpty DEF NamesSay

\* What is said with k levels left, when said is what is with one less.
Said(t, k, said, all) ==
  [f \in Files(t) |-> IF k = 0 THEN <<>> ELSE FileSays(t, f, said, all)]
Says(g, t, n, all) == g = [k \in 0 .. n |-> Said(t, k, g[k-1], all)]

\* The recursion that defines Levels has a solution, so Levels is one.
LEMMA LevelsUnfold ==
  ASSUME NEW t, NEW all
  PROVE  Says(Levels(t, all), t, Top0, all)
<1> DEFINE Bad == {n \in Nat : ~\E g : Says(g, t, n, all)}
<1>1. ASSUME Bad # {} PROVE FALSE
  <2>1. PICK n \in Bad : \A j \in Bad : n <= j
    BY <1>1, Least
  <2>2. n \in Nat /\ ~\E g : Says(g, t, n, all)
    OBVIOUS
  <2>3. CASE n = 0
    <3> DEFINE g == [k \in 0 .. 0 |-> Said(t, 0, <<>>, all)]
    <3>1. Said(t, 0, <<>>, all) = Said(t, 0, g[0-1], all)
      BY DEF Said
    <3>2. \A k \in 0 .. 0 : g[k] = Said(t, k, g[k-1], all)
      <4> TAKE k \in 0 .. 0
      <4>1. k = 0 /\ g[k] = Said(t, 0, <<>>, all)
        OBVIOUS
      <4> HIDE DEF g
      <4> QED BY <3>1, <4>1
    <3>3. g = [k \in 0 .. 0 |-> g[k]]
      OBVIOUS
    <3> HIDE DEF g
    <3>4. Says(g, t, 0, all)
      BY <3>2, <3>3 DEF Says
    <3> QED BY <2>2, <2>3, <3>4
  <2>4. CASE n # 0
    <3>1. n - 1 \in Nat /\ n - 1 \notin Bad
      BY <2>1, <2>2, <2>4
    <3>2. PICK h : Says(h, t, n - 1, all)
      BY <3>1
    <3> HIDE DEF Bad
    <3> DEFINE g == [k \in 0 .. n |-> IF k = n THEN Said(t, n, h[n-1], all) ELSE h[k]]
    <3>3. \A k \in 0 .. n : g[k] = Said(t, k, g[k-1], all)
      <4> TAKE k \in 0 .. n
      <4>1. CASE k = n
        <5>1. g[n] = Said(t, n, h[n-1], all) /\ g[n-1] = h[n-1]
          BY <2>2, <3>1
        <5> HIDE DEF g
        <5> QED BY <4>1, <5>1
      <4>2. CASE k # n
        <5>1. k \in 0 .. n - 1
          BY <4>2, <2>2
        <5>2. h[k] = Said(t, k, h[k-1], all)
          BY <3>2, <5>1 DEF Says
        <5>3. g[k] = h[k]
          BY <4>2
        <5>4. CASE k = 0
          <6>1. Said(t, k, h[k-1], all) = Said(t, k, g[k-1], all)
            BY <5>4 DEF Said
          <6> HIDE DEF g
          <6> QED BY <5>2, <5>3, <6>1
        <5>5. CASE k # 0
          <6>1. k - 1 \in 0 .. n /\ k - 1 # n
            BY <5>1, <5>5, <2>2
          <6>2. g[k-1] = h[k-1]
            BY <6>1
          <6> HIDE DEF g
          <6> QED BY <5>2, <5>3, <6>2
        <5> QED BY <5>4, <5>5
      <4> QED BY <4>1, <4>2
    <3>4. g = [k \in 0 .. n |-> g[k]]
      OBVIOUS
    <3> HIDE DEF g
    <3>5. Says(g, t, n, all)
      BY <3>3, <3>4 DEF Says
    <3> QED BY <2>2, <3>5
  <2> QED BY <2>3, <2>4
<1>2. Top0 \in Nat
  BY LimitsAssumption DEF Top0
<1>3. \E g : Says(g, t, Top0, all)
  BY <1>1, <1>2
<1>4. Levels(t, all) = CHOOSE g : Says(g, t, Top0, all)
  BY DEF Levels, Says, Said, Top0
<1> QED BY <1>3, <1>4

LEMMA LevelsAre ==
  ASSUME NEW t, NEW all
  PROVE  \A k \in 0 .. Top0 : Levels(t, all)[k] = Said(t, k, Levels(t, all)[k-1], all)
<1>1. Says(Levels(t, all), t, Top0, all)
  BY LevelsUnfold
<1> QED BY <1>1 DEF Says

\* At every level, each file says directories.
LEMMA LevelsType ==
  ASSUME NEW t, IsTree(t)
  PROVE  \A k \in 0 .. Top0 : Levels(t, FALSE)[k] \in Spoken(t)
<1> DEFINE Bad == {k \in Nat : k \in 0 .. Top0 /\ Levels(t, FALSE)[k] \notin Spoken(t)}
<1>1. ASSUME Bad # {} PROVE FALSE
  <2>1. PICK k \in Bad : \A j \in Bad : k <= j
    BY <1>1, Least
  <2>2. k \in Nat /\ k \in 0 .. Top0 /\ Levels(t, FALSE)[k] \notin Spoken(t)
    OBVIOUS
  <2>3. Levels(t, FALSE)[k] = Said(t, k, Levels(t, FALSE)[k-1], FALSE)
    BY <2>2, LevelsAre
  <2>4. CASE k = 0
    BY <2>2, <2>3, <2>4, EmptySeq DEF Said, Spoken
  <2>5. CASE k # 0
    <3>1. k - 1 \in Nat /\ k - 1 \in 0 .. Top0 /\ k - 1 \notin Bad
      <4>1. Top0 \in Nat /\ k - 1 < k
        BY <2>2, LimitsAssumption DEF Top0
      <4>2. k - 1 \in Nat /\ k - 1 \in 0 .. Top0
        BY <2>2, <2>5, <4>1
      <4>3. \A j \in Bad : k <= j
        BY <2>1
      <4>4. ~(k <= k - 1)
        BY <2>2
      <4> QED BY <4>2, <4>3, <4>4
    <3>2. Levels(t, FALSE)[k-1] \in Spoken(t)
      BY <3>1
    <3>3. \A f \in Files(t) : FileSays(t, f, Levels(t, FALSE)[k-1], FALSE) \in Seq(Dirs)
      BY <3>2, FileSaysType
    <3>4. Said(t, k, Levels(t, FALSE)[k-1], FALSE) \in Spoken(t)
      BY <2>5, <3>3 DEF Said, Spoken
    <3> QED BY <2>2, <2>3, <3>4
  <2> QED BY <2>4, <2>5
<1>2. \A k \in 0 .. Top0 : k \in Nat
  BY LimitsAssumption DEF Top0
<1> QED BY <1>1, <1>2

LEMMA InOrderNone == InOrder({}) = <<>>
<1>1. IsFiniteSet({}) /\ Cardinality({}) = 0 /\ {} \in SUBSET Nat
  BY FS_EmptySet
<1>2. InOrder({}) \in [1 .. 0 -> {}]
  BY <1>1, InOrderIs
<1> QED BY <1>2

\* The names an include enters are files, and what it means, where it is not
\* said that some are dropped.
LEMMA IncludedIs ==
  ASSUME IsTree(tree), NEW line \in Line, line.kind = "include"
  PROVE  /\ Included(line) \in Seq(Files(tree))
         /\ ~Spilt(line) => Included(line) = InOrder(Meant(tree, line, FALSE))
<1> DEFINE F == Short(line)
           L == Len(tree.listing)
<1>1. /\ tree.listing \in Seq(Nat) /\ L \in Nat /\ DOMAIN tree.listing = 1 .. L
      /\ line.match \in SUBSET Nat
  BY DEF IsTree, Line
<1>2. F \subseteq 1 .. L /\ IsFiniteSet(F)
  <2>1. F \subseteq 1 .. L
    BY <1>1 DEF Short, Fitting
  <2> HIDE DEF F, L
  <2>2. IsFiniteSet(1 .. L)
    BY <1>1, FS_Interval
  <2> QED BY <2>1, <2>2, FS_Subset
<1>3. \A S \in SUBSET F : /\ IsFiniteSet(S) /\ Cardinality(S) \in Nat
                          /\ Cardinality(S) <= Cardinality(F)
  BY <1>2, FS_Subset, FS_CardinalityType
<1>4. Kept(line) \subseteq F
  BY DEF Kept
<1> DEFINE A == ToSet(tree.listing) \cap line.match
           N == {tree.listing[i] : i \in Kept(line)} \ line.cut
<1>5. N \subseteq A
  BY <1>4 DEF Short, Fitting, ToSet
<1>6. A \in SUBSET Nat /\ IsFiniteSet(A) /\ A \subseteq Files(tree)
  BY ListedIsFinite, FS_Subset DEF Files
<1>7. N \in SUBSET Nat /\ IsFiniteSet(N) /\ N \subseteq Files(tree)
  <2> HIDE DEF N, A
  <2> QED BY <1>5, <1>6, FS_Subset
<1>8. line.fault = "none" => Included(line) = InOrder(N)
  BY DEF Included
<1>9. line.fault # "none" => Included(line) = <<>>
  BY DEF Included
<1> HIDE DEF N, A
<1>10. Included(line) \in Seq(Files(tree))
  <2>1. InOrder(N) \in [1 .. Cardinality(N) -> N] /\ Cardinality(N) \in Nat
    BY <1>7, InOrderIs
  <2>2. InOrder(N) \in [1 .. Cardinality(N) -> Files(tree)]
    BY <1>7, <2>1
  <2>3. InOrder(N) \in Seq(Files(tree))
    BY <2>1, <2>2
  <2> QED BY <1>8, <1>9, <2>3, EmptySeq
<1>11. ASSUME ~Spilt(line), line.fault = "none" PROVE N = Meant(tree, line, FALSE)
  <2>1. Cardinality(F) <= MaxNames /\ F = Fitting(line)
    BY <1>2, <1>11, FS_CardinalityType, LimitsAssumption DEF Spilt
  <2>2. Kept(line) = F
    <3> SUFFICES ASSUME NEW i \in F PROVE i \in Kept(line)
      BY <1>4
    <3> DEFINE S == {j \in F : j <= i}
    <3>1. S \in SUBSET F
      OBVIOUS
    <3> HIDE DEF S
    <3>2. Cardinality(S) <= MaxNames
      <4>1. /\ Cardinality(S) \in Nat /\ Cardinality(F) \in Nat /\ MaxNames \in Nat
            /\ Cardinality(S) <= Cardinality(F)
        BY <1>2, <1>3, <3>1, FS_CardinalityType, LimitsAssumption
      <4> QED BY <2>1, <4>1
    <3> QED BY <3>2 DEF Kept, S
  <2>3. {tree.listing[i] : i \in Kept(line)} = A
    BY <2>1, <2>2 DEF A, Fitting, ToSet
  <2>4. Meant(tree, line, FALSE) = (line.match \ line.cut) \cap ToSet(tree.listing)
    BY <1>11 DEF Meant, Silent
  <2> QED BY <2>3, <2>4 DEF N, A
<1>12. ASSUME ~Spilt(line), line.fault # "none" PROVE Meant(tree, line, FALSE) = {}
  <2>1. line.fault \in Silent
    BY <1>12 DEF Spilt, Line, Silent, Faults
  <2> QED BY <2>1 DEF Meant
<1> QED BY <1>8, <1>9, <1>10, <1>11, <1>12, InOrderNone

------------------------------------------------------------------------------
(* What a walk has still to give.                                          *)

FrameType(t) ==
  [file : Files(t), depth : 0 .. Top0, open : BOOLEAN, line : Nat \ {0},
   names : Seq(Files(t))]
IsFrame(t, fr) ==
  /\ fr \in FrameType(t)
  /\ IF fr.open
       THEN /\ fr.file \in DOMAIN t.files /\ fr.depth \in 0 .. LDCONF_MAX_DEPTH
            /\ fr.line \in 1 .. Len(t.files[fr.file]) + 1
       ELSE fr.line = 1 /\ fr.names = <<>>

\* What one call of ldconf_walk_file has still to give.
Todo(t, fr) ==
  IF fr.open
    THEN NamesSay(fr.names, Levels(t, FALSE)[LDCONF_MAX_DEPTH - fr.depth])
           \o LinesSay(t, fr.file, fr.line, Levels(t, FALSE)[LDCONF_MAX_DEPTH - fr.depth])
    ELSE Levels(t, FALSE)[Top0 - fr.depth][fr.file]

\* r[i] is what the outermost i calls have still to give.
Left(t, fs, r) ==
  /\ r \in [0 .. Len(fs) -> Seq(Dirs)] /\ r[0] = <<>>
  /\ \A i \in 1 .. Len(fs) : r[i] = Todo(t, fs[i]) \o r[i-1]

LEMMA TodoType ==
  ASSUME NEW t, IsTree(t), NEW fr, IsFrame(t, fr)
  PROVE  Todo(t, fr) \in Seq(Dirs)
<1>0. LDCONF_MAX_DEPTH \in Nat /\ Top0 = LDCONF_MAX_DEPTH + 1
  BY LimitsAssumption DEF Top0
<1>1. CASE fr.open
  <2> DEFINE said == Levels(t, FALSE)[LDCONF_MAX_DEPTH - fr.depth]
  <2>1. LDCONF_MAX_DEPTH - fr.depth \in 0 .. Top0
    BY <1>0, <1>1 DEF IsFrame
  <2>2. said \in Spoken(t)
    BY <2>1, LevelsType
  <2> HIDE DEF said
  <2>3. NamesSay(fr.names, said) \in Seq(Dirs)
    BY <2>2, NamesSayType DEF IsFrame, FrameType
  <2>4. LinesSay(t, fr.file, fr.line, said) \in Seq(Dirs)
    BY <1>1, <2>2, LinesSayIs DEF IsFrame
  <2>5. NamesSay(fr.names, said) \o LinesSay(t, fr.file, fr.line, said) \in Seq(Dirs)
    BY <2>3, <2>4, ConcatProperties
  <2> QED BY <1>1, <2>5 DEF Todo, said
<1>2. CASE ~fr.open
  <2>1. Top0 - fr.depth \in 0 .. Top0 /\ fr.file \in Files(t)
    BY <1>0 DEF IsFrame, FrameType
  <2>2. Levels(t, FALSE)[Top0 - fr.depth] \in Spoken(t)
    BY <2>1, LevelsType
  <2> QED BY <1>2, <2>1, <2>2 DEF Todo, Spoken
<1> QED BY <1>1, <1>2

\* A call that had nothing left returns.
LEMMA AfterPop ==
  ASSUME NEW t, NEW fs, NEW n \in Nat \ {0}, Len(fs) = n, NEW r, Left(t, fs, r),
         Todo(t, fs[n]) = <<>>,
         NEW es, Len(es) = n - 1, \A i \in 1 .. n - 1 : es[i] = fs[i]
  PROVE  \E q : Left(t, es, q) /\ q[n-1] = r[n]
<1>1. /\ r \in [0 .. n -> Seq(Dirs)] /\ r[0] = <<>>
      /\ \A i \in 1 .. n : r[i] = Todo(t, fs[i]) \o r[i-1]
  BY DEF Left
<1>2. n \in 1 .. n /\ n - 1 \in 0 .. n /\ n - 1 \in 0 .. n - 1 /\ 0 \in 0 .. n - 1
  OBVIOUS
<1>3. r[n] = <<>> \o r[n-1] /\ r[n-1] \in Seq(Dirs)
  BY <1>1, <1>2
<1>4. r[n] = r[n-1]
  BY <1>3, ConcatEmptySeq
<1> DEFINE q == [i \in 0 .. n - 1 |-> r[i]]
<1>5. /\ q \in [0 .. n - 1 -> Seq(Dirs)] /\ q[0] = <<>> /\ q[n-1] = r[n]
      /\ \A i \in 0 .. n - 1 : q[i] = r[i]
  BY <1>1, <1>2, <1>4
<1> HIDE DEF q
<1>6. ASSUME NEW i \in 1 .. n - 1 PROVE q[i] = Todo(t, es[i]) \o q[i-1]
  <2>1. i \in 1 .. n /\ i \in 0 .. n - 1 /\ i - 1 \in 0 .. n - 1
    OBVIOUS
  <2> QED BY <1>1, <1>5, <2>1
<1> QED BY <1>5, <1>6 DEF Left

\* The innermost call has given d and goes on.
Gives(t, fs, es, n, d) ==
  /\ n \in Nat \ {0} /\ Len(fs) = n /\ Len(es) = n
  /\ \A i \in 1 .. n - 1 : es[i] = fs[i]
  /\ d \in Seq(Dirs) /\ Todo(t, es[n]) \in Seq(Dirs)
  /\ Todo(t, fs[n]) = d \o Todo(t, es[n])

LEMMA AfterSet ==
  ASSUME NEW t, NEW fs, NEW es, NEW n, NEW d, Gives(t, fs, es, n, d), NEW r, Left(t, fs, r)
  PROVE  \E q : Left(t, es, q) /\ r[n] = Then(d, q[n])
<1>0. /\ n \in Nat \ {0} /\ Len(fs) = n /\ Len(es) = n
      /\ \A i \in 1 .. n - 1 : es[i] = fs[i]
      /\ d \in Seq(Dirs) /\ Todo(t, es[n]) \in Seq(Dirs)
      /\ Todo(t, fs[n]) = d \o Todo(t, es[n])
  BY DEF Gives
<1>1. /\ r \in [0 .. n -> Seq(Dirs)] /\ r[0] = <<>>
      /\ \A i \in 1 .. n : r[i] = Todo(t, fs[i]) \o r[i-1]
  BY <1>0 DEF Left
<1>2. n \in 1 .. n /\ n - 1 \in 0 .. n /\ n - 1 # n /\ n \in 0 .. n /\ 0 \in 0 .. n /\ n # 0
  BY <1>0
<1> DEFINE a == Todo(t, es[n])
           q == [i \in 0 .. n |-> IF i = n THEN a \o r[n-1] ELSE r[i]]
<1>3. r[n-1] \in Seq(Dirs) /\ a \o r[n-1] \in Seq(Dirs)
  BY <1>0, <1>1, <1>2, ConcatProperties
<1>4. /\ q \in [0 .. n -> Seq(Dirs)] /\ q[0] = <<>> /\ q[n] = a \o r[n-1] /\ q[n-1] = r[n-1]
      /\ \A i \in 0 .. n : i # n => q[i] = r[i]
  BY <1>1, <1>2, <1>3
<1> HIDE DEF q
<1>5. ASSUME NEW i \in 1 .. n PROVE q[i] = Todo(t, es[i]) \o q[i-1]
  <2>1. CASE i = n
    BY <2>1, <1>4
  <2>2. CASE i # n
    <3>1. i \in 1 .. n - 1 /\ i \in 0 .. n /\ i - 1 \in 0 .. n /\ i - 1 # n
      BY <1>0, <2>2
    <3> QED BY <1>0, <1>1, <1>4, <2>2, <3>1
  <2> QED BY <2>1, <2>2
<1>6. r[n] = (d \o a) \o r[n-1]
  BY <1>0, <1>1, <1>2
<1> HIDE DEF a
<1>7. (d \o a) \o r[n-1] = d \o (a \o r[n-1])
  <2> DEFINE c == r[n-1]
  <2>1. a \in Seq(Dirs) /\ c \in Seq(Dirs)
    BY <1>3 DEF a
  <2> HIDE DEF c
  <2>2. (d \o a) \o c = d \o (a \o c)
    <3>1. Then(Then(d, a), c) = Then(d, Then(a, c))
      BY <1>0, <2>1, Regroup
    <3> QED BY <3>1 DEF Then
  <2> QED BY <2>2 DEF c
<1>8. r[n] = Then(d, q[n])
  BY <1>4, <1>6, <1>7 DEF Then
<1> QED BY <1>0, <1>4, <1>5, <1>8 DEF Left

\* The innermost call makes another, and shares with it what it has to give.
Pushed(t, fs, es, n) ==
  /\ n \in Nat \ {0} /\ Len(fs) = n /\ Len(es) = n + 1
  /\ \A i \in 1 .. n - 1 : es[i] = fs[i]
  /\ Todo(t, es[n]) \in Seq(Dirs) /\ Todo(t, es[n+1]) \in Seq(Dirs)
  /\ Todo(t, fs[n]) = Todo(t, es[n+1]) \o Todo(t, es[n])

LEMMA AfterPush ==
  ASSUME NEW t, NEW fs, NEW es, NEW n, Pushed(t, fs, es, n), NEW r, Left(t, fs, r)
  PROVE  \E q : Left(t, es, q) /\ q[Len(es)] = r[n]
<1>0. /\ n \in Nat \ {0} /\ Len(fs) = n /\ Len(es) = n + 1
      /\ \A i \in 1 .. n - 1 : es[i] = fs[i]
      /\ Todo(t, es[n]) \in Seq(Dirs) /\ Todo(t, es[n+1]) \in Seq(Dirs)
      /\ Todo(t, fs[n]) = Todo(t, es[n+1]) \o Todo(t, es[n])
  BY DEF Pushed
<1>1. /\ r \in [0 .. n -> Seq(Dirs)] /\ r[0] = <<>>
      /\ \A i \in 1 .. n : r[i] = Todo(t, fs[i]) \o r[i-1]
  BY <1>0 DEF Left
<1>2. /\ n \in 1 .. n /\ n - 1 \in 0 .. n /\ n \in 0 .. n + 1 /\ 0 \in 0 .. n + 1
      /\ n + 1 \in 0 .. n + 1 /\ n - 1 \in 0 .. n + 1 /\ n + 1 - 1 = n
      /\ n # 0 /\ n # n + 1 /\ n - 1 # n /\ n - 1 # n + 1 /\ 0 # n + 1
  BY <1>0
<1> DEFINE a == Todo(t, es[n])
           b == Todo(t, es[n+1])
           c == r[n-1]
           q == [i \in 0 .. n + 1 |-> IF i = n + 1 THEN b \o (a \o c)
                                      ELSE IF i = n THEN a \o c ELSE r[i]]
<1>3. c \in Seq(Dirs) /\ a \in Seq(Dirs) /\ b \in Seq(Dirs)
  BY <1>0, <1>1, <1>2
<1>4. r[n] = (b \o a) \o c
  BY <1>0, <1>1, <1>2
<1>5. \A i \in 0 .. n + 1 : i # n + 1 /\ i # n => i \in 0 .. n
  BY <1>0
<1>6. c = r[n-1]
  OBVIOUS
<1>7. a = Todo(t, es[n]) /\ b = Todo(t, es[n+1])
  OBVIOUS
<1> HIDE DEF a, b, c
<1>8. (b \o a) \o c = b \o (a \o c)
  <2>1. Then(Then(b, a), c) = Then(b, Then(a, c))
    BY <1>3, Regroup
  <2> QED BY <2>1 DEF Then
<1>9. a \o c \in Seq(Dirs) /\ b \o (a \o c) \in Seq(Dirs)
  BY <1>3, ConcatProperties
<1>10. /\ q \in [0 .. n + 1 -> Seq(Dirs)] /\ q[0] = <<>>
       /\ q[n+1] = b \o (a \o c) /\ q[n] = a \o c /\ q[n-1] = r[n-1]
       /\ \A i \in 0 .. n + 1 : i # n + 1 /\ i # n => q[i] = r[i]
  BY <1>1, <1>2, <1>5, <1>9
<1> HIDE DEF q
<1>11. ASSUME NEW i \in 1 .. n + 1 PROVE q[i] = Todo(t, es[i]) \o q[i-1]
  <2>1. CASE i = n + 1
    <3>1. i - 1 = n /\ Todo(t, es[i]) = b
      BY <1>0, <1>7, <2>1
    <3>2. q[i] = b \o (a \o c) /\ q[i-1] = a \o c
      BY <1>10, <2>1, <3>1
    <3> QED BY <3>1, <3>2
  <2>2. CASE i = n
    BY <2>2, <1>6, <1>7, <1>10
  <2>3. CASE i # n + 1 /\ i # n
    <3>1. /\ i \in 1 .. n - 1 /\ i \in 1 .. n /\ i \in 0 .. n + 1
          /\ i - 1 \in 0 .. n + 1 /\ i - 1 # n + 1 /\ i - 1 # n
      BY <1>0, <2>3
    <3> QED BY <1>0, <1>1, <1>10, <2>3, <3>1
  <2> QED BY <2>1, <2>2, <2>3
<1> QED BY <1>0, <1>4, <1>8, <1>10, <1>11 DEF Left

------------------------------------------------------------------------------
(* The walk.                                                               *)

WalkTypes ==
  /\ IsTree(tree)
  /\ frames \in Seq(FrameType(tree))
  /\ \A i \in 1 .. Len(frames) : IsFrame(tree, frames[i])
  /\ seen \in Seq(Dirs)

\* Between two walks.
Idle == frames = <<>> /\ budget = LDCONF_DEFAULT_BUDGET /\ stopped = FALSE /\ seen = <<>>

\* What has been given, and what is left, are what the files say.
Progress ==
  \/ /\ stopped
     /\ \E rest \in Seq(Dirs) : seen \o rest = Given
  \/ /\ ~stopped
     /\ \E r : Left(tree, frames, r) /\ seen \o r[Len(frames)] = Given

LEMMA GivenType == ASSUME IsTree(tree) PROVE Given \in Seq(Dirs)
<1>1. Top0 \in 0 .. Top0 /\ 0 \in Files(tree)
  BY LimitsAssumption DEF Top0, Files
<1>2. Levels(tree, FALSE)[Top0] \in Spoken(tree)
  BY <1>1, LevelsType
<1> QED BY <1>1, <1>2 DEF Given, Spoken, Top0

\* A walk starts with everything to give.
LEMMA StartsProgress ==
  ASSUME IsTree(tree), StartWalk, tree' = tree
  PROVE  WalkTypes' /\ Progress'
<1>0. Top0 \in Nat /\ Top0 - 0 = Top0
  BY LimitsAssumption DEF Top0
<1>1. frames' = <<Frame(0, 0)>> /\ stopped' = FALSE /\ seen' = <<>>
  BY DEF StartWalk
<1>2. Len(frames') = 1 /\ frames'[1] = Frame(0, 0)
  BY <1>1
<1>3. IsFrame(tree, Frame(0, 0))
  <2>1. 0 \in Files(tree) /\ 0 \in 0 .. Top0 /\ <<>> \in Seq(Files(tree))
    BY <1>0 DEF Files
  <2> QED BY <2>1 DEF IsFrame, FrameType, Frame
<1>12. frames' \in Seq(FrameType(tree'))
  BY <1>1, <1>3 DEF IsFrame
<1>13. \A i \in 1 .. Len(frames') : IsFrame(tree', frames'[i])
  BY <1>2, <1>3
<1>4. WalkTypes'
  BY <1>1, <1>12, <1>13, EmptySeq DEF WalkTypes
<1>5. Todo(tree, Frame(0, 0)) = Given
  BY <1>0 DEF Todo, Frame, Given, Top0
<1>6. Given \in Seq(Dirs)
  BY GivenType
<1> DEFINE r == [i \in 0 .. 1 |-> IF i = 0 THEN <<>> ELSE Given]
<1>7. /\ r \in [0 .. 1 -> Seq(Dirs)] /\ r[0] = <<>> /\ r[1] = Given
      /\ \A i \in 1 .. 1 : i = 1 /\ i - 1 = 0
  BY <1>6
<1> HIDE DEF r
<1>8. Given \o <<>> = Given /\ <<>> \o Given = Given
  BY <1>6, ConcatEmptySeq
<1>9. Left(tree, frames', r)
  BY <1>2, <1>5, <1>7, <1>8 DEF Left
<1>10. Given' = Given
  BY DEF Given
<1>11. ~stopped' /\ \E q : Left(tree', frames', q) /\ seen' \o q[Len(frames')] = Given'
  BY <1>1, <1>2, <1>7, <1>8, <1>9, <1>10
<1> QED BY <1>4, <1>11 DEF Progress


LEMMA SubSeqLeaves ==
  ASSUME NEW S, NEW s \in Seq(S), s # <<>>
  PROVE  /\ Len(s) \in Nat \ {0} /\ s[Len(s)] \in S
         /\ SubSeq(s, 1, Len(s) - 1) \in Seq(S)
         /\ Len(SubSeq(s, 1, Len(s) - 1)) = Len(s) - 1
         /\ \A i \in 1 .. Len(s) - 1 : SubSeq(s, 1, Len(s) - 1)[i] = s[i]
<1> DEFINE n == Len(s)
<1>1. n \in Nat \ {0}
  BY EmptySeq
<1>2. /\ 1 \in Int /\ n - 1 \in Int /\ n \in 1 .. n
      /\ \A i \in 1 .. n : s[i] \in S
  BY <1>1
<1>3. \A i \in 1 .. n - 1 : i \in 1 .. n
  BY <1>1
<1>4. \A i \in 1 .. n - 1 : s[i] \in S
  BY <1>2, <1>3
<1> HIDE DEF n
<1> DEFINE m == n - 1
<1>5. m \in Nat
  BY <1>1
<1>6. \A i \in 1 .. m : s[i] \in S
  BY <1>4
<1> HIDE DEF m
<1>7. /\ SubSeq(s, 1, m) \in Seq(S)
      /\ Len(SubSeq(s, 1, m)) = IF 1 <= m THEN m - 1 + 1 ELSE 0
      /\ \A i \in 1 .. m - 1 + 1 : SubSeq(s, 1, m)[i] = s[1 + i - 1]
  BY <1>5, <1>6, SubSeqProperties
<1>8. /\ m - 1 + 1 = m /\ (IF 1 <= m THEN m - 1 + 1 ELSE 0) = m
      /\ \A i \in 1 .. m : 1 + i - 1 = i
  BY <1>5
<1>9. Len(SubSeq(s, 1, m)) = m /\ \A i \in 1 .. m : SubSeq(s, 1, m)[i] = s[i]
  <2>1. Len(SubSeq(s, 1, m)) = m
    BY <1>7, <1>8
  <2>2. \A i \in 1 .. m - 1 + 1 : 1 + i - 1 = i
    BY <1>8
  <2>3. \A i \in 1 .. m - 1 + 1 : SubSeq(s, 1, m)[i] = s[i]
    BY <1>7, <2>2
  <2>4. \A i \in 1 .. m : SubSeq(s, 1, m)[i] = s[i]
    BY <2>3, <1>8
  <2> QED BY <2>1, <2>4
<1> QED BY <1>1, <1>2, <1>7, <1>9 DEF m, n

\* A call that returns with nothing left, or because the walk is stopped.
LEMMA PopWorks ==
  ASSUME WalkTypes, frames # <<>>, Pop, UNCHANGED <<tree, stopped, seen>>,
         stopped \/ Todo(tree, Top) = <<>>
  PROVE  WalkTypes' /\ (Progress => Progress')
<1> DEFINE n == Len(frames)
<1>1. /\ n \in Nat \ {0} /\ frames' \in Seq(FrameType(tree)) /\ Len(frames') = n - 1
      /\ \A i \in 1 .. n - 1 : frames'[i] = frames[i]
  BY SubSeqLeaves DEF WalkTypes, Pop
<1>2. \A i \in 1 .. Len(frames') : IsFrame(tree', frames'[i])
  <2> TAKE i \in 1 .. Len(frames')
  <2>1. i \in 1 .. n - 1 /\ i \in 1 .. n
    BY <1>1
  <2>2. frames'[i] = frames[i] /\ IsFrame(tree, frames[i])
    BY <1>1, <2>1 DEF WalkTypes
  <2> QED BY <2>2
<1>3. WalkTypes'
  BY <1>1, <1>2 DEF WalkTypes
<1>4. Given' = Given
  BY DEF Given
<1>5. CASE stopped
  BY <1>3, <1>4, <1>5 DEF Progress
<1>6. ASSUME ~stopped, Progress PROVE Progress'
  <2>1. PICK r : Left(tree, frames, r) /\ seen \o r[n] = Given
    BY <1>6 DEF Progress
  <2>2. Todo(tree, frames[n]) = <<>>
    BY <1>6 DEF Top
  <2>3. Len(frames) = n
    OBVIOUS
  <2> HIDE DEF n
  <2>4. PICK q : Left(tree, frames', q) /\ q[n-1] = r[n]
    BY <1>1, <2>1, <2>2, <2>3, AfterPop
  <2>5. Left(tree', frames', q) /\ seen' \o q[Len(frames')] = Given'
    BY <1>1, <1>4, <2>1, <2>4
  <2> QED BY <1>6, <2>5 DEF Progress
<1> QED BY <1>3, <1>5, <1>6

\* The innermost call gives the directories of d and goes on as f.
LEMMA SetWorks ==
  ASSUME WalkTypes, frames # <<>>, NEW f, SetTop(f), IsFrame(tree, f), tree' = tree,
         NEW d \in Seq(Dirs), seen' = seen \o d, Todo(tree, Top) = d \o Todo(tree, f),
         stopped => stopped' /\ d = <<>>
  PROVE  WalkTypes' /\ (Progress => Progress')
<1> DEFINE n == Len(frames)
<1>1. n \in Nat \ {0} /\ n \in 1 .. n /\ f \in FrameType(tree)
  BY EmptySeq DEF WalkTypes, IsFrame
<1>2. /\ frames' \in Seq(FrameType(tree)) /\ Len(frames') = n
      /\ \A i \in 1 .. n : frames'[i] = IF i = n THEN f ELSE frames[i]
  BY <1>1, ExceptSeq DEF WalkTypes, SetTop
<1>3. \A i \in 1 .. Len(frames') : IsFrame(tree', frames'[i])
  BY <1>2 DEF WalkTypes
<1>4. seen' \in Seq(Dirs)
  BY ConcatProperties DEF WalkTypes
<1>5. WalkTypes'
  BY <1>2, <1>3, <1>4 DEF WalkTypes
<1>6. Given' = Given
  BY DEF Given
<1>7. ASSUME stopped, Progress PROVE Progress'
  <2>1. seen' = seen
    BY <1>7, ConcatEmptySeq DEF WalkTypes
  <2> QED BY <1>6, <1>7, <2>1 DEF Progress
<1>8. ASSUME ~stopped, Progress PROVE Progress'
  <2>1. PICK r : Left(tree, frames, r) /\ seen \o r[n] = Given
    BY <1>8 DEF Progress
  <2>2. /\ Todo(tree, frames[n]) = d \o Todo(tree, frames'[n])
        /\ Todo(tree, frames'[n]) \in Seq(Dirs)
    BY <1>1, <1>2, TodoType DEF Top, WalkTypes
  <2>3. Len(frames) = n /\ \A i \in 1 .. n - 1 : frames'[i] = frames[i]
    <3>1. \A i \in 1 .. n - 1 : i \in 1 .. n /\ i # n
      BY <1>1
    <3> QED BY <1>2, <3>1
  <2> HIDE DEF n
  <2>4. PICK q : Left(tree, frames', q) /\ r[n] = d \o q[n]
    <3> DEFINE t == tree  fs == frames  es == frames'
    <3>1. Gives(t, fs, es, n, d) /\ Left(t, fs, r)
      BY <1>1, <1>2, <2>1, <2>2, <2>3 DEF Gives
    <3> HIDE DEF t, fs, es
    <3>2. \E q : Left(t, es, q) /\ r[n] = Then(d, q[n])
      BY <3>1, AfterSet
    <3> QED BY <3>2 DEF t, fs, es, Then
  <2>5. n \in 0 .. Len(frames') /\ q[n] \in Seq(Dirs)
    BY <1>1, <1>2, <2>4 DEF Left
  <2>6. (seen \o d) \o q[n] = seen \o (d \o q[n])
    <3> DEFINE c == q[n]
    <3>1. c \in Seq(Dirs) /\ seen \in Seq(Dirs)
      BY <2>5 DEF WalkTypes
    <3> HIDE DEF c
    <3>2. (seen \o d) \o c = seen \o (d \o c)
      BY <3>1, Regroup
    <3> QED BY <3>2 DEF c
  <2>7. seen' \o q[n] = Given'
    BY <1>6, <2>1, <2>4, <2>6
  <2>8. CASE stopped'
    BY <2>5, <2>7, <2>8 DEF Progress
  <2>9. CASE ~stopped'
    <3>1. Left(tree', frames', q) /\ seen' \o q[Len(frames')] = Given'
      BY <1>2, <2>4, <2>7
    <3> QED BY <2>9, <3>1 DEF Progress
  <2> QED BY <2>8, <2>9
<1> QED BY <1>5, <1>7, <1>8

\* The innermost call makes another.
LEMMA PushWorks ==
  ASSUME WalkTypes, frames # <<>>, NEW f, IsFrame(tree, f), NEW g, IsFrame(tree, g),
         frames' = SubSeq(frames, 1, Len(frames) - 1) \o <<f, g>>,
         ~stopped, UNCHANGED <<tree, stopped, seen>>,
         Todo(tree, Top) = Then(Todo(tree, g), Todo(tree, f))
  PROVE  WalkTypes' /\ (Progress => Progress')
<1> DEFINE n == Len(frames)
           outer == SubSeq(frames, 1, n - 1)
<1>1. /\ n \in Nat \ {0} /\ outer \in Seq(FrameType(tree)) /\ Len(outer) = n - 1
      /\ \A i \in 1 .. n - 1 : outer[i] = frames[i]
  BY SubSeqLeaves DEF WalkTypes
<1>2. f \in FrameType(tree) /\ g \in FrameType(tree)
  BY DEF IsFrame
<1>3. frames' = outer \o <<f, g>>
  OBVIOUS
<1>4. <<f, g>> \in Seq(FrameType(tree)) /\ Len(<<f, g>>) = 2
  BY <1>2
<1>14. <<f, g>>[1] = f /\ <<f, g>>[2] = g
  OBVIOUS
<1> DEFINE two == <<f, g>>
<1> HIDE DEF outer, two
<1>5. /\ outer \o two \in Seq(FrameType(tree)) /\ Len(outer \o two) = Len(outer) + Len(two)
      /\ \A i \in 1 .. Len(outer) + Len(two) :
           (outer \o two)[i] = IF i <= Len(outer) THEN outer[i] ELSE two[i - Len(outer)]
  BY <1>1, <1>4, ConcatProperties DEF two
<1> HIDE DEF n
<1>6. frames' \in Seq(FrameType(tree)) /\ Len(frames') = n + 1
  BY <1>1, <1>3, <1>4, <1>5 DEF two
<1>7. \A i \in 1 .. n + 1 : frames'[i] = IF i <= n - 1 THEN outer[i] ELSE two[i - (n - 1)]
  <2>1. Len(outer) + Len(two) = n + 1 /\ Len(outer) = n - 1
    BY <1>1, <1>4 DEF two
  <2> QED BY <1>3, <1>5, <2>1 DEF two
<1>8. \A i \in 1 .. n - 1 : frames'[i] = frames[i]
  <2> TAKE i \in 1 .. n - 1
  <2>1. i \in 1 .. n + 1 /\ i <= n - 1
    BY <1>1
  <2> QED BY <1>1, <1>7, <2>1
<1>9. frames'[n] = f /\ frames'[n+1] = g
  <2>1. n \in 1 .. n + 1 /\ ~(n <= n - 1) /\ n - (n - 1) = 1
    BY <1>1
  <2>2. n + 1 \in 1 .. n + 1 /\ ~(n + 1 <= n - 1) /\ n + 1 - (n - 1) = 2
    BY <1>1
  <2>3. frames'[n] = two[1]
    BY <1>7, <2>1
  <2>4. frames'[n+1] = two[2]
    <3>1. PICK m \in 1 .. n + 1 : m = n + 1
      BY <2>2
    <3>2. frames'[m] = two[m - (n - 1)]
      BY <1>7, <2>2, <3>1
    <3>3. m - (n - 1) = 2
      BY <1>1, <3>1
    <3> QED BY <3>1, <3>2, <3>3
  <2> QED BY <1>14, <2>3, <2>4 DEF two
<1>10. \A i \in 1 .. Len(frames') : IsFrame(tree', frames'[i])
  <2> TAKE i \in 1 .. Len(frames')
  <2>1. i \in 1 .. n + 1
    BY <1>6
  <2>2. CASE i = n
    BY <2>2, <1>9
  <2>3. CASE i = n + 1
    BY <2>3, <1>9
  <2>4. CASE i # n /\ i # n + 1
    <3>1. i \in 1 .. n - 1 /\ i \in 1 .. n
      BY <1>1, <2>1, <2>4
    <3> QED BY <1>8, <3>1 DEF WalkTypes, n
  <2> QED BY <2>2, <2>3, <2>4
<1>11. WalkTypes'
  BY <1>6, <1>10 DEF WalkTypes
<1>12. Given' = Given
  BY DEF Given
<1>13. ASSUME Progress PROVE Progress'
  <2>1. PICK r : Left(tree, frames, r) /\ seen \o r[n] = Given
    BY <1>13 DEF Progress, n
  <2> DEFINE t == tree  fs == frames  es == frames'
  <2>2. Pushed(t, fs, es, n) /\ Left(t, fs, r)
    <3>1. Todo(tree, f) \in Seq(Dirs) /\ Todo(tree, g) \in Seq(Dirs)
      BY TodoType DEF WalkTypes
    <3>2. Todo(tree, Top) = Todo(tree, g) \o Todo(tree, f)
      BY DEF Then
    <3> QED BY <1>1, <1>6, <1>8, <1>9, <2>1, <3>1, <3>2 DEF n, Top, Pushed
  <2> HIDE DEF t, fs, es
  <2>3. PICK q : Left(t, es, q) /\ q[Len(es)] = r[n]
    BY <2>2, AfterPush
  <2>4. Left(tree', frames', q) /\ seen' \o q[Len(frames')] = Given'
    BY <1>6, <1>12, <2>1, <2>3 DEF t, es
  <2> QED BY <2>4 DEF Progress
<1> QED BY <1>11, <1>13

\* A call enters its file, or returns at once.
LEMMA EnterFileWorks ==
  ASSUME WalkTypes, EnterFile
  PROVE  WalkTypes' /\ (~warned' => ~warned /\ (Progress => Progress'))
<1>0. LDCONF_MAX_DEPTH \in Nat /\ Top0 = LDCONF_MAX_DEPTH + 1
  BY LimitsAssumption DEF Top0
<1>1. /\ frames # <<>> /\ ~Top.open /\ UNCHANGED <<tree, stopped, seen>>
      /\ Len(frames) \in 1 .. Len(frames) /\ Top = frames[Len(frames)]
  BY EmptySeq DEF EnterFile, WalkTypes, Top
<1>2. /\ IsFrame(tree, Top) /\ Top \in FrameType(tree) /\ Top.depth \in 0 .. Top0
      /\ Top.file \in Files(tree) /\ Top.line = 1 /\ Top.names = <<>>
  BY <1>1 DEF WalkTypes, IsFrame, FrameType
<1>3. Todo(tree, Top) = Said(tree, Top0 - Top.depth, Levels(tree, FALSE)[Top0 - Top.depth - 1],
                              FALSE)[Top.file]
  <2>1. Top0 - Top.depth \in 0 .. Top0
    BY <1>0, <1>2
  <2> QED BY <1>1, <2>1, LevelsAre DEF Todo
<1>4. CASE Top.depth > LDCONF_MAX_DEPTH
  <2>1. Pop /\ warned' = warned
    BY <1>4 DEF EnterFile
  <2>2. Top0 - Top.depth = 0
    BY <1>0, <1>2, <1>4
  <2>3. Todo(tree, Top) = <<>>
    BY <1>2, <1>3, <2>2 DEF Said
  <2> QED BY <1>1, <2>1, <2>3, PopWorks
<1>5. CASE ~(Top.depth > LDCONF_MAX_DEPTH) /\ budget <= 0
  <2>1. Pop /\ warned' = TRUE
    BY <1>5 DEF EnterFile
  <2>2. WalkTypes'
    <3>1. /\ frames' \in Seq(FrameType(tree)) /\ Len(frames') = Len(frames) - 1
          /\ \A i \in 1 .. Len(frames) - 1 : frames'[i] = frames[i]
          /\ Len(frames) \in Nat
      BY <1>1, <2>1, SubSeqLeaves DEF WalkTypes, Pop
    <3>2. \A i \in 1 .. Len(frames) - 1 : i \in 1 .. Len(frames)
      BY <3>1
    <3> QED BY <1>1, <3>1, <3>2 DEF WalkTypes
  <2> QED BY <2>1, <2>2
<1>6. CASE ~(Top.depth > LDCONF_MAX_DEPTH) /\ ~(budget <= 0)
  <2>1. warned' = warned /\ Top.depth \in 0 .. LDCONF_MAX_DEPTH
    BY <1>0, <1>2, <1>6 DEF EnterFile
  <2> DEFINE below == LDCONF_MAX_DEPTH - Top.depth
             said == Levels(tree, FALSE)[below]
  <2>2. Top0 - Top.depth # 0 /\ Top0 - Top.depth - 1 = below /\ below \in 0 .. Top0
    BY <1>0, <2>1
  <2>3. Todo(tree, Top) = FileSays(tree, Top.file, said, FALSE)
    BY <1>2, <1>3, <2>2 DEF Said
  <2>4. said \in Spoken(tree)
    BY <2>2, LevelsType DEF WalkTypes
  <2>5. CASE Top.file \notin DOMAIN tree.files \ tree.closed
    <3>1. Pop
      BY <1>6, <2>5 DEF EnterFile
    <3>2. Todo(tree, Top) = <<>>
      BY <2>3, <2>5 DEF FileSays
    <3> QED BY <1>1, <2>1, <3>1, <3>2, PopWorks
  <2>6. CASE Top.file \in DOMAIN tree.files \ tree.closed
    <3> DEFINE f == [Top EXCEPT !.open = TRUE]
    <3>1. SetTop(f)
      BY <1>6, <2>6 DEF EnterFile
    <3>2. /\ f \in FrameType(tree) /\ f.open = TRUE /\ f.file = Top.file /\ f.depth = Top.depth
          /\ f.line = 1 /\ f.names = <<>>
      BY <1>2 DEF FrameType
    <3> HIDE DEF f
    <3>3. 1 \in 1 .. Len(tree.files[Top.file]) + 1
      BY <2>6 DEF WalkTypes, IsTree
    <3>4. IsFrame(tree, f)
      BY <2>1, <2>6, <3>2, <3>3 DEF IsFrame
    <3>5. Todo(tree, f) = NamesSay(<<>>, said) \o LinesSay(tree, Top.file, 1, said)
      BY <3>2 DEF Todo
    <3> HIDE DEF below, said
    <3>6. LinesSay(tree, Top.file, 1, said) \in Seq(Dirs)
      BY <2>4, <2>6, <3>3, LinesSayIs DEF WalkTypes
    <3>7. Todo(tree, f) = LinesSay(tree, Top.file, 1, said)
      BY <3>5, <3>6, NamesSayNone, ConcatEmptySeq
    <3>8. Todo(tree, Top) = Todo(tree, f)
      BY <2>3, <2>4, <2>6, <3>7, FileSaysLines DEF WalkTypes
    <3>9. Todo(tree, Top) = <<>> \o Todo(tree, f) /\ seen' = seen \o <<>> /\ <<>> \in Seq(Dirs)
      BY <1>1, <3>6, <3>7, <3>8, ConcatEmptySeq DEF WalkTypes
    <3> QED BY <1>1, <2>1, <3>1, <3>4, <3>9, SetWorks
  <2> QED BY <2>5, <2>6
<1> QED BY <1>4, <1>5, <1>6

\* An open call, and what is said one level below it.
LEMMA OpenTop ==
  ASSUME WalkTypes, frames # <<>>, Top.open
  PROVE  /\ IsFrame(tree, Top) /\ Top \in FrameType(tree) /\ IsTree(tree)
         /\ Top.file \in DOMAIN tree.files /\ Top.depth \in 0 .. LDCONF_MAX_DEPTH
         /\ Top.line \in 1 .. Len(tree.files[Top.file]) + 1
         /\ Top.names \in Seq(Files(tree))
         /\ LDCONF_MAX_DEPTH - Top.depth \in 0 .. Top0
         /\ Levels(tree, FALSE)[LDCONF_MAX_DEPTH - Top.depth] \in Spoken(tree)
<1>1. Top = frames[Len(frames)] /\ Len(frames) \in 1 .. Len(frames)
  BY EmptySeq DEF Top, WalkTypes
<1>2. IsFrame(tree, Top) /\ IsTree(tree)
  BY <1>1 DEF WalkTypes
<1>3. Top.depth \in 0 .. LDCONF_MAX_DEPTH
  BY <1>2 DEF IsFrame
<1>4. LDCONF_MAX_DEPTH - Top.depth \in 0 .. Top0
  BY <1>3, LimitsAssumption DEF Top0
<1>5. Levels(tree, FALSE)[LDCONF_MAX_DEPTH - Top.depth] \in Spoken(tree)
  BY <1>2, <1>4, LevelsType
<1> QED BY <1>2, <1>3, <1>4, <1>5 DEF IsFrame, FrameType

LEMMA EnterNameWorks ==
  ASSUME WalkTypes, EnterName
  PROVE  WalkTypes' /\ (~warned' => ~warned /\ (Progress => Progress'))
<1>0. LDCONF_MAX_DEPTH \in Nat /\ Top0 = LDCONF_MAX_DEPTH + 1
  BY LimitsAssumption DEF Top0
<1>1. /\ frames # <<>> /\ Top.open /\ ~stopped /\ Top.names # <<>>
      /\ UNCHANGED <<tree, budget, stopped, warned, seen>>
  BY DEF EnterName
<1> DEFINE f == [Top EXCEPT !.names = Tail(@)]
           g == Frame(Head(Top.names), Top.depth + 1)
           below == LDCONF_MAX_DEPTH - Top.depth
           said == Levels(tree, FALSE)[below]
           lines == LinesSay(tree, Top.file, Top.line, said)
<1>2. frames' = SubSeq(frames, 1, Len(frames) - 1) \o <<f, g>>
  BY DEF EnterName
<1>3. /\ IsFrame(tree, Top) /\ Top \in FrameType(tree) /\ IsTree(tree)
      /\ Top.file \in DOMAIN tree.files /\ Top.depth \in 0 .. LDCONF_MAX_DEPTH
      /\ Top.line \in 1 .. Len(tree.files[Top.file]) + 1
      /\ Top.names \in Seq(Files(tree)) /\ said \in Spoken(tree)
  BY <1>1, OpenTop
<1>4. Head(Top.names) \in Files(tree) /\ Tail(Top.names) \in Seq(Files(tree))
  BY <1>1, <1>3, HeadTailProperties
<1>5. /\ f \in FrameType(tree) /\ f.open /\ f.file = Top.file /\ f.depth = Top.depth
      /\ f.line = Top.line /\ f.names = Tail(Top.names)
  BY <1>1, <1>3, <1>4 DEF FrameType
<1>6. /\ g \in FrameType(tree) /\ g.open = FALSE /\ g.file = Head(Top.names)
      /\ g.depth = Top.depth + 1 /\ g.line = 1 /\ g.names = <<>>
  <2>1. Top.depth + 1 \in 0 .. Top0
    BY <1>0, <1>3
  <2>2. <<>> \in Seq(Files(tree))
    OBVIOUS
  <2> QED BY <1>4, <2>1, <2>2 DEF Frame, FrameType
<1> HIDE DEF f, g
<1>7. IsFrame(tree, f) /\ IsFrame(tree, g)
  BY <1>3, <1>5, <1>6 DEF IsFrame
<1>8. Todo(tree, g) = said[Head(Top.names)]
  <2>1. Top0 - (Top.depth + 1) = below
    BY <1>0, <1>3
  <2> QED BY <1>6, <2>1 DEF Todo
<1>9. Todo(tree, f) = NamesSay(Tail(Top.names), said) \o lines
  BY <1>5 DEF Todo
<1>10. Todo(tree, Top) = NamesSay(Top.names, said) \o lines
  BY <1>1 DEF Todo
<1> HIDE DEF said, below
<1>11. /\ NamesSay(Top.names, said) = said[Head(Top.names)] \o NamesSay(Tail(Top.names), said)
       /\ NamesSay(Tail(Top.names), said) \in Seq(Dirs)
       /\ said[Head(Top.names)] \in Seq(Dirs)
       /\ lines \in Seq(Dirs)
  BY <1>1, <1>3, <1>4, NamesSayFirst, NamesSayType, LinesSayIs DEF Spoken
<1>12. Todo(tree, Top) = Then(Todo(tree, g), Todo(tree, f))
  <2> DEFINE a == said[Head(Top.names)]
             b == NamesSay(Tail(Top.names), said)
  <2>1. Todo(tree, Top) = (a \o b) \o lines
    BY <1>10, <1>11
  <2>2. Then(Todo(tree, g), Todo(tree, f)) = a \o (b \o lines)
    BY <1>8, <1>9 DEF Then
  <2>3. a \in Seq(Dirs) /\ b \in Seq(Dirs) /\ lines \in Seq(Dirs)
    BY <1>11
  <2> HIDE DEF a, b, lines
  <2>4. Then(Then(a, b), lines) = Then(a, Then(b, lines))
    BY <2>3, Regroup
  <2> QED BY <2>1, <2>2, <2>4 DEF Then
<1> QED BY <1>1, <1>2, <1>7, <1>12, PushWorks

LEMMA LeaveFileWorks ==
  ASSUME WalkTypes, LeaveFile
  PROVE  WalkTypes' /\ (~warned' => ~warned /\ (Progress => Progress'))
<1>1. /\ frames # <<>> /\ Top.open /\ Pop /\ UNCHANGED <<tree, budget, stopped, warned, seen>>
      /\ stopped \/ (Top.names = <<>> /\ Top.line > Len(tree.files[Top.file]))
  BY DEF LeaveFile
<1> DEFINE said == Levels(tree, FALSE)[LDCONF_MAX_DEPTH - Top.depth]
           L == Len(tree.files[Top.file])
<1>2. /\ IsTree(tree) /\ Top.file \in DOMAIN tree.files
      /\ Top.line \in 1 .. L + 1 /\ said \in Spoken(tree)
  BY <1>1, OpenTop
<1>3. L \in Nat
  BY <1>2 DEF IsTree
<1>4. ASSUME ~stopped PROVE Todo(tree, Top) = <<>>
  <2>1. Top.names = <<>> /\ Top.line = L + 1
    BY <1>1, <1>2, <1>3, <1>4
  <2>2. Todo(tree, Top) = NamesSay(<<>>, said) \o LinesSay(tree, Top.file, Top.line, said)
    BY <1>1, <2>1 DEF Todo
  <2> HIDE DEF said
  <2>3. LinesSay(tree, Top.file, Top.line, said) = <<>>
    BY <1>2, <2>1, LinesSayIs
  <2> QED BY <2>2, <2>3, NamesSayNone
<1> QED BY <1>1, <1>4, PopWorks

\* A line is read: its directory is given, or its names are to be entered.
LEMMA ReadLineWorks ==
  ASSUME WalkTypes, NEW hits, ReadLine(hits)
  PROVE  WalkTypes' /\ (~warned' => ~warned /\ (Progress => Progress'))
<1> DEFINE said == Levels(tree, FALSE)[LDCONF_MAX_DEPTH - Top.depth]
           L == Len(tree.files[Top.file])
           line == tree.files[Top.file][Top.line]
           rest == LinesSay(tree, Top.file, Top.line + 1, said)
<1>1. /\ frames # <<>> /\ Top.open /\ ~stopped /\ Top.names = <<>> /\ Top.line <= L
      /\ UNCHANGED <<tree, budget>>
  BY DEF ReadLine
<1>2. /\ IsTree(tree) /\ IsFrame(tree, Top) /\ Top \in FrameType(tree)
      /\ Top.file \in DOMAIN tree.files
      /\ Top.depth \in 0 .. LDCONF_MAX_DEPTH
      /\ Top.line \in 1 .. L + 1 /\ said \in Spoken(tree)
  BY <1>1, OpenTop
<1>3. /\ tree.files[Top.file] \in Seq(Line) /\ L \in Nat /\ Top.line \in 1 .. L
      /\ Top.line + 1 \in 1 .. L + 1 /\ Top.line + 1 \in Nat \ {0}
  BY <1>1, <1>2 DEF IsTree
<1>4. line \in Line
  BY <1>3, ElementOfSeq
<1>5. Todo(tree, Top) = LineSays(tree, line, said, FALSE) \o rest
  <2>1. Todo(tree, Top) = NamesSay(<<>>, said) \o LinesSay(tree, Top.file, Top.line, said)
    BY <1>1 DEF Todo
  <2> HIDE DEF said
  <2>2. /\ LinesSay(tree, Top.file, Top.line, said) \in Seq(Dirs)
        /\ LinesSay(tree, Top.file, Top.line, said) = LineSays(tree, line, said, FALSE) \o rest
    BY <1>1, <1>2, LinesSayIs
  <2> HIDE DEF rest, line
  <2> QED BY <2>1, <2>2, NamesSayNone, ConcatEmptySeq
<1>6. rest \in Seq(Dirs)
  <2> HIDE DEF said
  <2> QED BY <1>2, <1>3, LinesSayIs
<1>7. ASSUME NEW names \in Seq(Files(tree)), NEW f,
             f = [Top EXCEPT !.line = @ + 1, !.names = names]
      PROVE  IsFrame(tree, f) /\ Todo(tree, f) = NamesSay(names, said) \o rest
  <2>1. /\ f \in FrameType(tree) /\ f.open /\ f.file = Top.file /\ f.depth = Top.depth
        /\ f.line = Top.line + 1 /\ f.names = names
    BY <1>1, <1>2, <1>3, <1>7 DEF FrameType
  <2>2. IsFrame(tree, f)
    BY <1>2, <1>3, <2>1 DEF IsFrame
  <2> QED BY <2>1, <2>2 DEF Todo
<1>8. CASE /\ line.kind = "directory"
           /\ IF line.absolute THEN seen' = Append(seen, line.dir) /\ stopped' = (line.dir \in hits)
                               ELSE UNCHANGED <<seen, stopped>>
           /\ SetTop([Top EXCEPT !.line = @ + 1])
           /\ UNCHANGED warned
  <2> DEFINE given == IF line.absolute THEN <<line.dir>> ELSE <<>>
  <2>1. line.dir \in Dirs /\ LineSays(tree, line, said, FALSE) = given
    BY <1>4, <1>8 DEF Line, LineSays
  <2> DEFINE f == [Top EXCEPT !.line = @ + 1, !.names = <<>>]
  <2>2. [Top EXCEPT !.line = @ + 1] = f
    BY <1>1, <1>2 DEF FrameType
  <2>3. IsFrame(tree, f) /\ Todo(tree, f) = NamesSay(<<>>, said) \o rest
    <3> DEFINE none == <<>>
    <3>1. none \in Seq(Files(tree)) /\ f = [Top EXCEPT !.line = @ + 1, !.names = none]
      OBVIOUS
    <3> HIDE DEF none, f, rest, said
    <3>2. IsFrame(tree, f) /\ Todo(tree, f) = NamesSay(none, said) \o rest
      BY <1>7, <3>1
    <3> QED BY <3>2 DEF none
  <2>4. SetTop(f)
    BY <1>8, <2>2
  <2> HIDE DEF f, rest, said, line
  <2>5. Todo(tree, f) = rest
    BY <1>6, <2>3, NamesSayNone, ConcatEmptySeq
  <2>6. seen' = seen \o given /\ given \in Seq(Dirs)
    <3>1. CASE line.absolute
      <4>1. seen' = Append(seen, line.dir) /\ given = <<line.dir>> /\ seen \in Seq(Dirs)
        BY <1>8, <3>1 DEF WalkTypes
      <4>2. Append(seen, line.dir) = seen \o <<line.dir>> /\ <<line.dir>> \in Seq(Dirs)
        BY <2>1, <4>1, AppendIsConcat
      <4> QED BY <4>1, <4>2
    <3>2. CASE ~line.absolute
      BY <1>8, <3>2, EmptySeq, ConcatEmptySeq DEF WalkTypes
    <3> QED BY <3>1, <3>2
  <2> HIDE DEF given
  <2>7. Todo(tree, Top) = given \o Todo(tree, f)
    BY <1>5, <2>1, <2>5
  <2> QED BY <1>1, <1>8, <2>3, <2>4, <2>6, <2>7, SetWorks
<1>9. CASE /\ line.kind = "include"
           /\ SetTop([Top EXCEPT !.line = @ + 1, !.names = Included(line)])
           /\ warned' = (warned \/ Spilt(line))
           /\ UNCHANGED <<seen, stopped>>
  <2>1. Included(line) \in Seq(Files(tree))
    BY <1>2, <1>4, <1>9, IncludedIs
  <2> DEFINE f == [Top EXCEPT !.line = @ + 1, !.names = Included(line)]
  <2>2. IsFrame(tree, f) /\ Todo(tree, f) = NamesSay(Included(line), said) \o rest
    BY <1>7, <2>1
  <2>3. SetTop(f)
    BY <1>9
  <2> HIDE DEF f, rest, said, line
  <2>4. Todo(tree, f) \in Seq(Dirs)
    BY <2>2, <1>2, TodoType
  <2>5. seen' = seen \o <<>> /\ <<>> \in Seq(Dirs) /\ Todo(tree, f) = <<>> \o Todo(tree, f)
    BY <1>9, <2>4, ConcatEmptySeq DEF WalkTypes
  <2>6. CASE ~Spilt(line)
    <3>1. LineSays(tree, line, said, FALSE) = NamesSay(Included(line), said)
      BY <1>2, <1>4, <1>9, <2>6, IncludedIs DEF LineSays
    <3>2. Todo(tree, Top) = <<>> \o Todo(tree, f)
      BY <1>5, <2>2, <2>5, <3>1
    <3> QED BY <1>1, <1>9, <2>2, <2>3, <2>5, <2>6, <3>2, SetWorks
  <2>7. CASE Spilt(line)
    <3>1. warned'
      BY <1>9, <2>7
    <3>2. WalkTypes'
      <4>1. Len(frames) \in 1 .. Len(frames) /\ f \in FrameType(tree)
        BY <1>1, <2>2, EmptySeq DEF WalkTypes, IsFrame
      <4>2. /\ frames' \in Seq(FrameType(tree)) /\ Len(frames') = Len(frames)
            /\ \A i \in 1 .. Len(frames) : frames'[i] = IF i = Len(frames) THEN f ELSE frames[i]
        BY <2>3, <4>1, ExceptSeq DEF WalkTypes, SetTop
      <4> QED BY <1>1, <1>9, <2>2, <4>2 DEF WalkTypes
    <3> QED BY <3>1, <3>2
  <2> QED BY <2>6, <2>7
<1> QED BY <1>8, <1>9 DEF ReadLine

LEMMA WalkStepWorks ==
  ASSUME WalkTypes, NEW hits, WalkStep(hits)
  PROVE  WalkTypes' /\ tree' = tree /\ (~warned' => ~warned /\ (Progress => Progress'))
<1>1. tree' = tree
  BY DEF WalkStep, EnterFile, EnterName, ReadLine, LeaveFile
<1> QED BY <1>1, EnterFileWorks, EnterNameWorks, ReadLineWorks, LeaveFileWorks DEF WalkStep

------------------------------------------------------------------------------
(* Hits in a sequence.                                                     *)

NoneIn(s, H) == \A i \in DOMAIN s : s[i] \notin H
FirstIn(s, H, d) ==
  \E i \in DOMAIN s : s[i] = d /\ d \in H /\ \A j \in DOMAIN s : j < i => s[j] \notin H

\* What is where in c, which is s and then u.
Joined(s, u, c) ==
  /\ Len(s) \in Nat /\ Len(u) \in Nat /\ DOMAIN s = 1 .. Len(s) /\ DOMAIN u = 1 .. Len(u)
  /\ DOMAIN c = 1 .. Len(s) + Len(u)
  /\ \A i \in DOMAIN s : i \in DOMAIN c /\ c[i] = s[i]
  /\ \A i \in DOMAIN u : Len(s) + i \in DOMAIN c /\ c[Len(s) + i] = u[i]
  /\ \A i \in DOMAIN c : i \in DOMAIN s \/ (i - Len(s) \in DOMAIN u /\ i = Len(s) + (i - Len(s)))

LEMMA ConcatParts ==
  ASSUME NEW S, NEW s \in Seq(S), NEW u \in Seq(S)
  PROVE  Joined(s, u, Then(s, u))
<1> DEFINE c == s \o u
           m == Len(s)
           n == Len(u)
<1>1. /\ m \in Nat /\ n \in Nat /\ DOMAIN s = 1 .. m /\ DOMAIN u = 1 .. n
      /\ c \in Seq(S) /\ Len(c) = m + n
      /\ \A i \in 1 .. m + n : c[i] = IF i <= m THEN s[i] ELSE u[i - m]
  BY ConcatProperties
<1>2. DOMAIN c = 1 .. m + n
  BY <1>1
<1> HIDE DEF c, m, n, Joined, Then
<1>3. \A i \in 1 .. m : i \in 1 .. m + n /\ c[i] = s[i]
  <2> TAKE i \in 1 .. m
  <2>1. i \in 1 .. m + n /\ i <= m
    BY <1>1
  <2> QED BY <1>1, <2>1
<1>4. \A i \in 1 .. n : m + i \in 1 .. m + n /\ c[m + i] = u[i]
  <2> TAKE i \in 1 .. n
  <2>1. m + i \in 1 .. m + n /\ ~(m + i <= m) /\ m + i - m = i
    BY <1>1
  <2>2. PICK k \in 1 .. m + n : k = m + i
    BY <2>1
  <2>3. c[k] = u[k - m] /\ k - m = i
    BY <1>1, <2>1, <2>2
  <2> QED BY <2>1, <2>2, <2>3
<1>5. \A i \in 1 .. m + n : i \in 1 .. m \/ (i - m \in 1 .. n /\ i = m + (i - m))
  BY <1>1
<1> QED BY <1>1, <1>2, <1>3, <1>4, <1>5 DEF c, m, n, Joined, Then

LEMMA NoneOfBoth ==
  ASSUME NEW S, NEW s \in Seq(S), NEW u \in Seq(S), NEW H, NoneIn(s, H), NoneIn(u, H)
  PROVE  NoneIn(s \o u, H)
<1> DEFINE c == Then(s, u)
<1>1. /\ \A i \in DOMAIN s : c[i] = s[i]
      /\ \A i \in DOMAIN u : c[Len(s) + i] = u[i]
      /\ \A i \in DOMAIN c :
           i \in DOMAIN s \/ (i - Len(s) \in DOMAIN u /\ i = Len(s) + (i - Len(s)))
  <2>1. Joined(s, u, c)
    BY ConcatParts
  <2> HIDE DEF c
  <2> QED BY <2>1 DEF Joined
<1> HIDE DEF c
<1>2. ASSUME NEW i \in DOMAIN c PROVE c[i] \notin H
  <2>1. CASE i \in DOMAIN s
    BY <1>1, <2>1 DEF NoneIn
  <2>2. CASE i \notin DOMAIN s
    <3>1. PICK k \in DOMAIN u : k = i - Len(s) /\ i = Len(s) + k
      BY <1>1, <2>2
    <3>2. c[i] = u[k]
      BY <1>1, <3>1
    <3> QED BY <3>2 DEF NoneIn
  <2> QED BY <2>1, <2>2
<1> QED BY <1>2 DEF NoneIn, c, Then

LEMMA FirstOfLeft ==
  ASSUME NEW S, NEW s \in Seq(S), NEW u \in Seq(S), NEW H, NEW d, FirstIn(s, H, d)
  PROVE  FirstIn(s \o u, H, d)
<1> DEFINE c == Then(s, u)
<1>1. /\ Len(s) \in Nat /\ Len(u) \in Nat /\ DOMAIN s = 1 .. Len(s)
      /\ DOMAIN c = 1 .. Len(s) + Len(u)
      /\ \A i \in DOMAIN s : i \in DOMAIN c /\ c[i] = s[i]
  <2>1. Joined(s, u, c)
    BY ConcatParts
  <2> HIDE DEF c
  <2> QED BY <2>1 DEF Joined
<1> HIDE DEF c
<1>2. PICK i \in DOMAIN s : s[i] = d /\ d \in H /\ \A j \in DOMAIN s : j < i => s[j] \notin H
  BY DEF FirstIn
<1>3. \A j \in DOMAIN c : j < i => j \in DOMAIN s
  BY <1>1
<1> QED BY <1>1, <1>2, <1>3 DEF FirstIn, c, Then

LEMMA FirstOfRight ==
  ASSUME NEW S, NEW s \in Seq(S), NEW u \in Seq(S), NEW H, NEW d,
         NoneIn(s, H), FirstIn(u, H, d)
  PROVE  FirstIn(s \o u, H, d)
<1> DEFINE c == Then(s, u)
           m == Len(s)
<1>1. /\ m \in Nat /\ Len(u) \in Nat /\ DOMAIN u = 1 .. Len(u) /\ DOMAIN s = 1 .. m
      /\ DOMAIN c = 1 .. m + Len(u)
      /\ \A i \in DOMAIN s : c[i] = s[i]
      /\ \A i \in DOMAIN u : m + i \in DOMAIN c /\ c[m + i] = u[i]
      /\ \A i \in DOMAIN c : i \in DOMAIN s \/ (i - m \in DOMAIN u /\ i = m + (i - m))
  <2>1. Joined(s, u, c)
    BY ConcatParts
  <2> HIDE DEF c
  <2> QED BY <2>1 DEF Joined
<1> HIDE DEF c, m
<1>2. PICK k \in DOMAIN u : u[k] = d /\ d \in H /\ \A j \in DOMAIN u : j < k => u[j] \notin H
  BY DEF FirstIn
<1>3. m + k \in DOMAIN c /\ c[m + k] = d
  BY <1>1, <1>2
<1>4. ASSUME NEW j \in DOMAIN c, j < m + k PROVE c[j] \notin H
  <2>1. CASE j \in DOMAIN s
    BY <1>1, <2>1 DEF NoneIn
  <2>2. CASE j \notin DOMAIN s
    <3>1. PICK l \in DOMAIN u : l = j - m /\ j = m + l
      BY <1>1, <2>2
    <3>2. c[j] = u[l]
      BY <1>1, <3>1
    <3>3. l < k
      BY <1>1, <1>4, <3>1
    <3> QED BY <1>2, <3>2, <3>3
  <2> QED BY <2>1, <2>2
<1> QED BY <1>2, <1>3, <1>4 DEF FirstIn, c, Then

\* One more, after none: it is the first hit if it is one.
LEMMA AppendOne ==
  ASSUME NEW S, NEW s \in Seq(S), NEW d \in S, NEW H, NoneIn(s, H)
  PROVE  /\ d \notin H => NoneIn(Append(s, d), H)
         /\ d \in H => FirstIn(Append(s, d), H, d)
         /\ Append(s, d)[Len(Append(s, d))] = d
<1> DEFINE c == Append(s, d)
           n == Len(s)
<1>1. /\ n \in Nat /\ DOMAIN s = 1 .. n /\ c \in Seq(S) /\ Len(c) = n + 1
      /\ \A i \in 1 .. n : c[i] = s[i]
      /\ c[n + 1] = d
  BY AppendProperties
<1>2. DOMAIN c = 1 .. n + 1
  BY <1>1
<1> HIDE DEF c, n
<1>3. \A i \in 1 .. n + 1 : i # n + 1 => i \in 1 .. n /\ c[i] \notin H
  BY <1>1 DEF NoneIn
<1>4. n + 1 \in 1 .. n + 1 /\ \A j \in 1 .. n + 1 : j < n + 1 => j # n + 1
  BY <1>1
<1>5. ASSUME d \notin H PROVE NoneIn(c, H)
  <2> SUFFICES ASSUME NEW i \in 1 .. n + 1 PROVE c[i] \notin H
    BY <1>2 DEF NoneIn
  <2>1. CASE i = n + 1
    BY <1>1, <1>5, <2>1
  <2> QED BY <1>3, <2>1
<1>6. ASSUME d \in H PROVE FirstIn(c, H, d)
  <2> DEFINE k == n + 1
  <2>1. /\ k \in DOMAIN c /\ c[k] = d
        /\ \A j \in DOMAIN c : j < k => c[j] \notin H
    BY <1>1, <1>2, <1>3, <1>4
  <2> HIDE DEF k
  <2> QED BY <1>6, <2>1 DEF FirstIn
<1> QED BY <1>1, <1>5, <1>6 DEF c, n

\* The first of the members that the first hit is.
LEMMA FirstIsMin ==
  ASSUME NEW S, NEW s \in Seq(S), NEW H, NEW C, C = {i \in DOMAIN s : s[i] \in H}
  PROVE  /\ NoneIn(s, H) => C = {}
         /\ \A d : FirstIn(s, H, d) => C # {} /\ s[Min(C)] = d
<1>1. ASSUME NEW d, FirstIn(s, H, d) PROVE C # {} /\ s[Min(C)] = d
  <2>1. PICK i \in DOMAIN s : s[i] = d /\ d \in H /\ \A j \in DOMAIN s : j < i => s[j] \notin H
    BY <1>1 DEF FirstIn
  <2>2. DOMAIN s \subseteq Int
    OBVIOUS
  <2>3. i \in C /\ \A j \in C : j \in Int /\ i <= j
    BY <2>1, <2>2
  <2>4. Min(C) \in C /\ Min(C) <= i
    BY <2>3 DEF Min
  <2>5. Min(C) = i
    BY <2>3, <2>4
  <2> QED BY <2>1, <2>3, <2>5
<1> QED BY <1>1 DEF NoneIn

------------------------------------------------------------------------------
(* The search of the host.                                                 *)

HostTypes ==
  /\ IsHost(host) /\ tree = host.conf
  /\ phase \in {"start", "search", "bundled", "host", "last", "done"}
  /\ pass \in {"vendor", "soname"} /\ part \in {"env", "conf", "fixed"}
  /\ pos \in Nat \ {0} /\ found \in Dirs \cup {NoDir} /\ use_bundled \in BOOLEAN

WalkInv == WalkTypes /\ (~warned => Idle \/ Progress)

Hits(h, p) == {d \in Dirs : IF p = "vendor" THEN h.vendor[d] ELSE h.soname[d] # "absent"}
Order == host.env \o Given \o host.fixed

\* Nothing asked so far is a hit, but for one that has stopped the walk.
Searching ==
  phase = "search" =>
    /\ part = "env" => \A i \in DOMAIN host.env : i < pos => host.env[i] \notin Hits(host, pass)
    /\ part # "env" => NoneIn(host.env, Hits(host, pass))
    /\ part = "conf" =>
         /\ ~warned => Progress
         /\ stopped => FirstIn(seen, Hits(host, pass), seen[Len(seen)])
         /\ ~stopped => NoneIn(seen, Hits(host, pass))
    /\ part = "fixed" =>
         /\ NoneIn(seen, Hits(host, pass)) /\ (~warned => seen = Given)
         /\ \A i \in DOMAIN host.fixed : i < pos => host.fixed[i] \notin Hits(host, pass)

\* d is what the search of the host answers.
Answer(d) ==
  \/ d = NoDir /\ (~warned => NoneIn(Order, Hits(host, pass)))
  \/ d \in Hits(host, pass) /\ (~warned => FirstIn(Order, Hits(host, pass), d))

LEMMA OrderType ==
  ASSUME HostTypes
  PROVE  /\ IsTree(tree) /\ host.env \in Seq(Dirs) /\ host.fixed \in Seq(Dirs)
         /\ Given \in Seq(Dirs) /\ host.env \o Given \in Seq(Dirs)
         /\ Order \in Seq(Dirs)
<1>1. IsTree(tree) /\ host.env \in Seq(Dirs) /\ host.fixed \in Seq(Dirs)
  BY DEF HostTypes, IsHost
<1>2. Given \in Seq(Dirs)
  BY <1>1, GivenType
<1>3. host.env \o Given \in Seq(Dirs)
  BY <1>1, <1>2, ConcatProperties
<1>4. Order \in Seq(Dirs)
  BY <1>1, <1>3, ConcatProperties DEF Order
<1> QED BY <1>1, <1>2, <1>3, <1>4

\* A walk keeps its part of Searching.
LEMMA WalkSearches ==
  ASSUME WalkTypes, NEW H, WalkStep(H),
         stopped => FirstIn(seen, H, seen[Len(seen)]),
         ~stopped => NoneIn(seen, H)
  PROVE  /\ stopped' => FirstIn(seen', H, seen'[Len(seen')])
         /\ ~stopped' => NoneIn(seen', H)
<1>1. CASE UNCHANGED <<stopped, seen>>
  BY <1>1
<1>2. ASSUME ReadLine(H), ~ UNCHANGED <<stopped, seen>>
      PROVE  /\ stopped' => FirstIn(seen', H, seen'[Len(seen')])
             /\ ~stopped' => NoneIn(seen', H)
  <2> DEFINE line == tree.files[Top.file][Top.line]
             d == line.dir
  <2>1. /\ ~stopped /\ frames # <<>> /\ Top.open /\ Top.line <= Len(tree.files[Top.file])
        /\ line.kind = "directory" /\ line.absolute
        /\ seen' = Append(seen, d) /\ stopped' = (d \in H)
    BY <1>2 DEF ReadLine
  <2>2. /\ IsTree(tree) /\ Top.file \in DOMAIN tree.files
        /\ Top.line \in 1 .. Len(tree.files[Top.file]) + 1
    BY <2>1, OpenTop
  <2>3. Top.line \in 1 .. Len(tree.files[Top.file]) /\ tree.files[Top.file] \in Seq(Line)
    BY <2>1, <2>2 DEF IsTree
  <2>4. line \in Line
    BY <2>3, ElementOfSeq
  <2>5. d \in Dirs
    BY <2>1, <2>4 DEF Line
  <2> HIDE DEF line, d
  <2>6. NoneIn(seen, H) /\ seen \in Seq(Dirs)
    BY <2>1 DEF WalkTypes
  <2>7. /\ d \notin H => NoneIn(Append(seen, d), H)
        /\ d \in H => FirstIn(Append(seen, d), H, d)
        /\ Append(seen, d)[Len(Append(seen, d))] = d
    BY <2>5, <2>6, AppendOne
  <2> QED BY <2>1, <2>7
<1>3. ReadLine(H) \/ UNCHANGED <<stopped, seen>>
  BY DEF WalkStep, EnterFile, EnterName, LeaveFile
<1> QED BY <1>1, <1>2, <1>3

\* Where the search of the host ends, its answer is the first hit or none.
LEMMA EnvAnswers ==
  ASSUME HostTypes, Searching, phase = "search", part = "env", pos <= Len(host.env),
         host.env[pos] \in Hits(host, pass)
  PROVE  Answer(host.env[pos])
<1> DEFINE H == Hits(host, pass)
           d == host.env[pos]
<1>1. host.env \in Seq(Dirs) /\ pos \in DOMAIN host.env
  BY OrderType DEF HostTypes
<1>2. FirstIn(host.env, H, d)
  BY <1>1 DEF Searching, FirstIn
<1> HIDE DEF H, d
<1>3. FirstIn(host.env \o Given, H, d)
  BY <1>2, OrderType, FirstOfLeft
<1>4. FirstIn(Order, H, d)
  BY <1>3, OrderType, FirstOfLeft DEF Order
<1> QED BY <1>4 DEF Answer, H, d

LEMMA ConfAnswers ==
  ASSUME HostTypes, WalkTypes, Searching, phase = "search", part = "conf", stopped
  PROVE  /\ Answer(seen[Len(seen)]) /\ seen[Len(seen)] \in Hits(host, pass)
<1> DEFINE H == Hits(host, pass)
           d == seen[Len(seen)]
<1>1. /\ FirstIn(seen, H, d) /\ NoneIn(host.env, H) /\ seen \in Seq(Dirs)
      /\ (~warned => Progress)
  BY DEF Searching, WalkTypes
<1>2. d \in H
  BY <1>1 DEF FirstIn
<1> HIDE DEF H, d
<1>3. ASSUME ~warned PROVE FirstIn(Order, H, d)
  <2>1. PICK rest \in Seq(Dirs) : seen \o rest = Given
    BY <1>1, <1>3 DEF Progress
  <2>2. FirstIn(seen \o rest, H, d)
    BY <1>1, FirstOfLeft
  <2>3. FirstIn(Given, H, d)
    BY <2>1, <2>2
  <2>4. FirstIn(host.env \o Given, H, d)
    BY <1>1, <2>3, OrderType, FirstOfRight
  <2> QED BY <2>4, OrderType, FirstOfLeft DEF Order
<1> QED BY <1>2, <1>3 DEF Answer, H, d

LEMMA FixedAnswers ==
  ASSUME HostTypes, Searching, phase = "search", part = "fixed", pos <= Len(host.fixed),
         host.fixed[pos] \in Hits(host, pass)
  PROVE  Answer(host.fixed[pos])
<1> DEFINE H == Hits(host, pass)
           d == host.fixed[pos]
<1>1. host.fixed \in Seq(Dirs) /\ pos \in DOMAIN host.fixed
  BY OrderType DEF HostTypes
<1>2. FirstIn(host.fixed, H, d)
  BY <1>1 DEF Searching, FirstIn
<1>3. NoneIn(host.env, H) /\ NoneIn(seen, H) /\ (~warned => seen = Given)
  BY DEF Searching
<1>4. d \in H
  OBVIOUS
<1> HIDE DEF H, d
<1>5. ASSUME ~warned PROVE FirstIn(Order, H, d)
  <2>1. NoneIn(host.env \o Given, H)
    BY <1>3, <1>5, OrderType, NoneOfBoth
  <2> QED BY <1>2, <2>1, OrderType, FirstOfRight DEF Order
<1> QED BY <1>4, <1>5 DEF Answer, H, d

LEMMA NothingAnswers ==
  ASSUME HostTypes, Searching, phase = "search", part = "fixed", pos > Len(host.fixed)
  PROVE  Answer(NoDir)
<1> DEFINE H == Hits(host, pass)
<1>1. NoneIn(host.env, H) /\ NoneIn(seen, H) /\ (~warned => seen = Given)
  BY DEF Searching
<1>2. NoneIn(host.fixed, H)
  <2>1. host.fixed \in Seq(Dirs)
    BY OrderType
  <2>2. \A i \in DOMAIN host.fixed : i < pos
    BY <2>1 DEF HostTypes
  <2> QED BY <2>2 DEF Searching, NoneIn
<1> HIDE DEF H
<1>3. ASSUME ~warned PROVE NoneIn(Order, H)
  <2>1. NoneIn(host.env \o Given, H)
    BY <1>1, <1>3, OrderType, NoneOfBoth
  <2> QED BY <1>2, <2>1, OrderType, NoneOfBoth DEF Order
<1> QED BY <1>3 DEF Answer, H

------------------------------------------------------------------------------
(* What the shim forwards to.                                              *)

Sonames == Hits(host, "soname")
Vendored == \E d \in ToSet(Order) : host.vendor[d]
Served ==
  \/ host.want = "bundled"
  \/ host.want = "none" /\ (host.bundle_vendor \/ host.vendor_dir \/ Vendored)
Certain ==
  /\ host.bundled = "loads"
  /\ \/ host.want = "bundled"
     \/ host.want = "none" /\ (host.bundle_vendor \/ host.vendor_dir)

HostAsked == (phase = "search" /\ pass = "soname") \/ phase = "host"

\* The bundle is tried exactly where it is to be served, and before the host.
Deciding ==
  /\ phase = "search" /\ pass = "vendor" =>
       host.want # "host" /\ have_bundled /\ ~host.bundle_vendor /\ ~host.vendor_dir
  /\ HostAsked \/ phase \in {"bundled", "last"} =>
       /\ have_bundled /\ ~warned => (use_bundled <=> Served)
       /\ Certain => use_bundled
  /\ HostAsked \/ phase = "last" => ~(use_bundled /\ host.bundled = "loads")
  /\ HostAsked => host.want # "bundled"

\* The host's object is the first of its name, and past it there is none that loads.
Answered ==
  /\ phase = "host" => found \in Sonames /\ (~warned => FirstIn(Order, Sonames, found))
  /\ phase = "last" =>
       \/ host.want = "bundled"
       \/ ~warned => \/ NoneIn(Order, Sonames)
                     \/ \E d : FirstIn(Order, Sonames, d) /\ host.soname[d] # "loads"

SearchInv ==
  HostTypes /\ WalkInv /\ Searching /\ Deciding /\ Answered /\ TargetIsBest

\* What a step that leaves the walk alone leaves alone.
LEMMA QuietWalk ==
  ASSUME WalkInv, UNCHANGED <<tree, walkVars, host>>
  PROVE  /\ WalkInv' /\ Given' = Given /\ Order' = Order /\ (Progress <=> Progress')
         /\ Sonames' = Sonames /\ (Served' <=> Served) /\ (Certain' <=> Certain)
         /\ have_bundled' = have_bundled
<1>1. UNCHANGED <<tree, host, frames, budget, stopped, warned, seen>>
  BY DEF walkVars
<1>2. Given' = Given
  BY <1>1 DEF Given
<1>3. Order' = Order
  BY <1>1, <1>2 DEF Order
<1>4. Progress <=> Progress'
  BY <1>1, <1>2 DEF Progress
<1>5. WalkInv'
  BY <1>1, <1>4 DEF WalkInv, WalkTypes, Idle
<1>6. Sonames' = Sonames /\ have_bundled' = have_bundled /\ (Certain' <=> Certain)
  BY <1>1 DEF Sonames, have_bundled, Certain
<1>7. Served' <=> Served
  BY <1>1, <1>3 DEF Served, Vendored
<1> QED BY <1>2, <1>3, <1>4, <1>5, <1>6, <1>7

\* The vendors that the search finds are those of the order.
LEMMA VendorsFound ==
  ASSUME HostTypes
  PROVE  /\ NoneIn(Order, Hits(host, "vendor")) => ~Vendored
         /\ \A d : FirstIn(Order, Hits(host, "vendor"), d) => Vendored
<1>1. Order \in Seq(Dirs) /\ ToSet(Order) = {Order[i] : i \in DOMAIN Order}
  BY OrderType DEF ToSet
<1>2. \A i \in DOMAIN Order : Order[i] \in Dirs
  BY <1>1
<1>3. \A d \in Dirs : d \in Hits(host, "vendor") <=> host.vendor[d]
  BY DEF Hits
<1> QED BY <1>1, <1>2, <1>3 DEF NoneIn, FirstIn, Vendored

\* A search that ends: the bundle is served, or the host is, or neither.
LEMMA FinishWorks ==
  ASSUME HostTypes, WalkInv, Deciding, phase = "search", NEW d, Answer(d), Finish(d),
         UNCHANGED <<tree, walkVars, host, target>>
  PROVE  SearchInv'
<1>1. /\ WalkInv' /\ Order' = Order /\ Sonames' = Sonames /\ (Served' <=> Served)
      /\ (Certain' <=> Certain) /\ have_bundled' = have_bundled
      /\ host' = host /\ tree' = tree /\ warned' = warned
  BY QuietWalk DEF walkVars
<1>2. d \in Dirs \cup {NoDir} /\ (d # NoDir <=> d \in Hits(host, pass))
  BY NoDirAssumption DEF Answer, Hits
<1>3. pass' = pass /\ part' = part /\ pos' = pos /\ found' = d
  BY DEF Finish
<1>4. CASE pass = "vendor"
  <2>1. phase' = "bundled" /\ use_bundled' = (d # NoDir \/ host.want = "bundled")
    BY <1>4 DEF Finish
  <2>2. host.want # "host" /\ host.want \in {"none", "host", "bundled"}
        /\ ~host.bundle_vendor /\ ~host.vendor_dir
    BY <1>4 DEF Deciding, HostTypes, IsHost
  <2>3. ~warned => (d # NoDir <=> Vendored)
    BY <1>2, <1>4, VendorsFound, NoDirAssumption DEF Answer, Hits
  <2>4. HostTypes'
    BY <1>1, <1>2, <1>3, <2>1 DEF HostTypes
  <2>5. Deciding'
    <3>1. ~warned => (use_bundled' <=> Served)
      BY <2>1, <2>2, <2>3 DEF Served
    <3>2. Certain => use_bundled'
      BY <2>1, <2>2 DEF Certain
    <3> QED BY <1>1, <2>1, <3>1, <3>2 DEF Deciding, HostAsked
  <2>6. Searching' /\ Answered' /\ TargetIsBest'
    BY <2>1 DEF Searching, Answered, TargetIsBest
  <2> QED BY <1>1, <2>4, <2>5, <2>6 DEF SearchInv
<1>5. CASE pass = "soname"
  <2>1. phase' = (IF d # NoDir THEN "host" ELSE "last") /\ use_bundled' = use_bundled
    BY <1>5 DEF Finish
  <2>2. HostTypes'
    BY <1>1, <1>2, <1>3, <2>1 DEF HostTypes
  <2>3. HostAsked
    BY <1>5 DEF HostAsked
  <2>4. Deciding'
    BY <1>1, <2>1, <2>3 DEF Deciding, HostAsked
  <2>5. Answered'
    <3>1. CASE d # NoDir
      BY <1>1, <1>2, <1>3, <1>5, <2>1, <3>1 DEF Answered, Answer, Sonames
    <3>2. CASE d = NoDir
      BY <1>1, <1>2, <1>5, <2>1, <3>2 DEF Answered, Answer, Sonames
    <3> QED BY <3>1, <3>2
  <2>6. Searching' /\ TargetIsBest'
    BY <2>1 DEF Searching, TargetIsBest
  <2> QED BY <1>1, <2>2, <2>4, <2>5, <2>6 DEF SearchInv
<1> QED BY <1>4, <1>5 DEF HostTypes

\* What TargetIsBest says, with the first of the name in place of its index.
IsBest ==
  \/ warned /\ ~Certain
  \/ /\ host.bundled = "loads" /\ Served
     /\ target = <<"bundled">>
  \/ /\ ~(host.bundled = "loads" /\ Served) /\ host.want # "bundled"
     /\ \E d : /\ FirstIn(Order, Sonames, d) /\ host.soname[d] = "loads"
               /\ target = <<"host", d>>
  \/ /\ ~(host.bundled = "loads" /\ Served)
     /\ \/ host.want = "bundled"
        \/ NoneIn(Order, Sonames)
        \/ \E d : FirstIn(Order, Sonames, d) /\ host.soname[d] # "loads"
     /\ target = IF host.bundled = "loads" THEN <<"bundled">> ELSE <<"nothing">>

LEMMA BestIs == HostTypes /\ IsBest => TargetIsBest
<1> SUFFICES ASSUME HostTypes, IsBest PROVE TargetIsBest
  OBVIOUS
<1> DEFINE C == {i \in DOMAIN Order : host.soname[Order[i]] # "absent"}
<1>1. Order \in Seq(Dirs) /\ \A i \in DOMAIN Order : Order[i] \in Dirs
  BY OrderType
<1>2. \A d \in Dirs : d \in Sonames <=> host.soname[d] # "absent"
  BY DEF Sonames, Hits
<1>3. C = {i \in DOMAIN Order : Order[i] \in Sonames}
  BY <1>1, <1>2
<1>4. TargetIsBest <=>
        (phase = "done" =>
           \/ warned /\ ~Certain
           \/ target = IF host.bundled = "loads" /\ Served THEN <<"bundled">>
                       ELSE IF /\ host.want # "bundled" /\ C # {}
                               /\ host.soname[Order[Min(C)]] = "loads"
                         THEN <<"host", Order[Min(C)]>>
                       ELSE IF host.bundled = "loads" THEN <<"bundled">>
                       ELSE <<"nothing">>)
  BY DEF TargetIsBest, Certain, Served, Vendored, Order
<1> HIDE DEF C
<1>5. /\ NoneIn(Order, Sonames) => C = {}
      /\ \A d : FirstIn(Order, Sonames, d) => C # {} /\ Order[Min(C)] = d
  BY <1>1, <1>3, FirstIsMin
<1>6. CASE \/ warned /\ ~Certain
           \/ host.bundled = "loads" /\ Served /\ target = <<"bundled">>
  BY <1>4, <1>6
<1>7. CASE /\ ~(host.bundled = "loads" /\ Served) /\ host.want # "bundled"
           /\ \E d : /\ FirstIn(Order, Sonames, d) /\ host.soname[d] = "loads"
                     /\ target = <<"host", d>>
  <2>1. PICK d : /\ FirstIn(Order, Sonames, d) /\ host.soname[d] = "loads"
                 /\ target = <<"host", d>>
    BY <1>7
  <2>2. C # {} /\ Order[Min(C)] = d
    BY <1>5, <2>1
  <2> QED BY <1>4, <1>7, <2>1, <2>2
<1>8. CASE /\ ~(host.bundled = "loads" /\ Served)
           /\ \/ host.want = "bundled"
              \/ NoneIn(Order, Sonames)
              \/ \E d : FirstIn(Order, Sonames, d) /\ host.soname[d] # "loads"
           /\ target = IF host.bundled = "loads" THEN <<"bundled">> ELSE <<"nothing">>
  <2>1. ~(host.want # "bundled" /\ C # {} /\ host.soname[Order[Min(C)]] = "loads")
    BY <1>5, <1>8
  <2> QED BY <1>4, <1>8, <2>1
<1> QED BY <1>6, <1>7, <1>8 DEF IsBest

LEMMA InitHolds == Init => SearchInv
<1> SUFFICES ASSUME Init PROVE SearchInv
  OBVIOUS
<1>1. PICK h \in Hosts : host = h /\ tree = h.conf
  BY DEF Init
<1>2. IsHost(host) /\ tree = host.conf /\ IsTree(tree)
  BY <1>1, HostsAssumption DEF IsHost
<1>3. /\ frames = <<>> /\ budget = LDCONF_DEFAULT_BUDGET /\ stopped = FALSE /\ seen = <<>>
      /\ phase = "start" /\ pass = "vendor" /\ part = "env" /\ pos = 1 /\ found = NoDir
      /\ use_bundled = FALSE
  BY DEF Init, NoWalk
<1>4. HostTypes
  <2>1. pos \in Nat \ {0}
    BY <1>3
  <2>3. use_bundled \in BOOLEAN
    BY <1>3, Zenon
  <2>2. /\ phase \in {"start", "search", "bundled", "host", "last", "done"}
        /\ pass \in {"vendor", "soname"} /\ part \in {"env", "conf", "fixed"}
        /\ found \in Dirs \cup {NoDir}
    BY <1>3
  <2> QED BY <1>2, <2>1, <2>3, <2>2 DEF HostTypes
<1>5. WalkInv
  <2>1. frames \in Seq(FrameType(tree)) /\ Len(frames) = 0 /\ seen \in Seq(Dirs)
    BY <1>3
  <2>2. \A i \in 1 .. Len(frames) : FALSE
    BY <2>1
  <2> QED BY <1>2, <1>3, <2>1, <2>2 DEF WalkInv, WalkTypes, Idle
<1> QED BY <1>3, <1>4, <1>5 DEF SearchInv, Searching, Deciding, Answered, HostAsked, TargetIsBest

\* A search that begins has asked nothing.
LEMMA BeginWorks ==
  ASSUME HostTypes, NEW p, p \in {"vendor", "soname"}, Begin(p), UNCHANGED <<tree, host, use_bundled>>
  PROVE  HostTypes' /\ Searching' /\ Answered' /\ TargetIsBest'
<1>1. phase' = "search" /\ pass' = p /\ part' = "env" /\ pos' = 1 /\ found' = NoDir
  BY DEF Begin
<1>2. HostTypes'
  BY <1>1 DEF HostTypes
<1>3. \A i \in DOMAIN host.env : ~(i < 1)
  BY OrderType
<1>4. Searching'
  BY <1>1, <1>3 DEF Searching
<1> QED BY <1>1, <1>2, <1>4 DEF Answered, TargetIsBest

LEMMA StartKeeps == ASSUME SearchInv, Start PROVE SearchInv'
<1>1. phase = "start" /\ UNCHANGED <<tree, walkVars, host, target>> /\ HostTypes /\ WalkInv
  BY DEF Start, SearchInv
<1>2. /\ WalkInv' /\ Order' = Order /\ Sonames' = Sonames /\ (Served' <=> Served)
      /\ (Certain' <=> Certain) /\ have_bundled' = have_bundled
      /\ host' = host /\ tree' = tree /\ warned' = warned
  BY <1>1, QuietWalk DEF walkVars
<1>3. CASE host.want # "host" /\ have_bundled /\ ~host.bundle_vendor /\ ~host.vendor_dir
  <2>1. Begin("vendor") /\ use_bundled' = use_bundled
    BY <1>3 DEF Start
  <2>2. HostTypes' /\ Searching' /\ Answered' /\ TargetIsBest'
    BY <1>1, <1>2, <2>1, BeginWorks
  <2>3. phase' = "search" /\ pass' = "vendor"
    BY <2>1 DEF Begin
  <2>4. Deciding'
    BY <1>2, <1>3, <2>3 DEF Deciding, HostAsked
  <2> QED BY <1>2, <2>2, <2>4 DEF SearchInv
<1>4. CASE ~(host.want # "host" /\ have_bundled /\ ~host.bundle_vendor /\ ~host.vendor_dir)
  <2>1. /\ use_bundled' = (host.want = "bundled" \/ (host.want # "host" /\ have_bundled))
        /\ phase' = "bundled" /\ UNCHANGED <<pass, part, pos, found>>
    BY <1>4 DEF Start
  <2>2. HostTypes'
    BY <1>1, <1>2, <2>1 DEF HostTypes
  <2>3. host.want \in {"none", "host", "bundled"}
    BY <1>1 DEF HostTypes, IsHost
  <2>4. have_bundled => (use_bundled' <=> Served)
    BY <1>4, <2>1, <2>3 DEF Served
  <2>5. Certain => use_bundled'
    BY <2>1, <2>3 DEF Certain, have_bundled
  <2>6. Deciding'
    BY <1>2, <2>1, <2>4, <2>5 DEF Deciding, HostAsked
  <2>7. Searching' /\ Answered' /\ TargetIsBest'
    BY <2>1 DEF Searching, Answered, TargetIsBest
  <2> QED BY <1>2, <2>2, <2>6, <2>7 DEF SearchInv
<1> QED BY <1>3, <1>4

\* A step of the search that does not end it decides nothing.
LEMMA StillSearching ==
  ASSUME Deciding, phase = "search", phase' = "search", UNCHANGED <<pass, host, use_bundled>>,
         Given' = Given, warned => warned'
  PROVE  Deciding' /\ Answered' /\ TargetIsBest'
<1>1. Order' = Order
  BY DEF Order
<1>2. (Served' <=> Served) /\ (Certain' <=> Certain) /\ have_bundled' = have_bundled
  BY <1>1 DEF Served, Vendored, Certain, have_bundled
<1>3. Deciding'
  BY <1>2 DEF Deciding, HostAsked
<1> QED BY <1>3 DEF Answered, TargetIsBest

LEMMA EnvDirKeeps == ASSUME SearchInv, EnvDir PROVE SearchInv'
<1>1. /\ phase = "search" /\ part = "env" /\ UNCHANGED <<tree, host, target>>
      /\ HostTypes /\ WalkInv /\ Searching /\ Deciding
  BY DEF EnvDir, SearchInv
<1>2. host.env \in Seq(Dirs) /\ pos \in Nat \ {0} /\ IsTree(tree)
  BY <1>1, OrderType DEF HostTypes
<1>6. Given' = Given
  BY <1>1 DEF Given
<1>3. CASE pos > Len(host.env)
  <2>1. /\ part' = "conf" /\ StartWalk /\ UNCHANGED <<phase, pass, pos, found, use_bundled>>
    BY <1>3 DEF EnvDir
  <2>2. WalkTypes' /\ Progress'
    BY <1>1, <1>2, <2>1, StartsProgress
  <2>3. warned' = warned /\ stopped' = FALSE /\ seen' = <<>>
    BY <2>1 DEF StartWalk
  <2>4. NoneIn(host.env, Hits(host, pass))
    <3>1. \A i \in DOMAIN host.env : i < pos
      BY <1>2, <1>3
    <3> QED BY <1>1, <3>1 DEF Searching, NoneIn
  <2>5. Searching'
    BY <1>1, <2>1, <2>2, <2>3, <2>4 DEF Searching, NoneIn
  <2>6. HostTypes'
    BY <1>1, <2>1 DEF HostTypes
  <2>7. Deciding' /\ Answered' /\ TargetIsBest'
    BY <1>1, <1>6, <2>1, <2>3, StillSearching
  <2> QED BY <2>2, <2>5, <2>6, <2>7 DEF SearchInv, WalkInv
<1>4. CASE pos <= Len(host.env) /\ Hit(host.env[pos])
  <2>1. Finish(host.env[pos]) /\ UNCHANGED walkVars
    BY <1>2, <1>4 DEF EnvDir
  <2>2. host.env[pos] \in Hits(host, pass)
    BY <1>2, <1>4 DEF Hit, Hits
  <2>3. Answer(host.env[pos])
    BY <1>1, <1>4, <2>2, EnvAnswers
  <2> QED BY <1>1, <2>1, <2>3, FinishWorks
<1>5. CASE pos <= Len(host.env) /\ ~Hit(host.env[pos])
  <2>1. /\ pos' = pos + 1 /\ UNCHANGED <<phase, pass, part, found, use_bundled>>
        /\ UNCHANGED walkVars
    BY <1>2, <1>5 DEF EnvDir
  <2>2. WalkInv' /\ warned' = warned
    BY <1>1, <2>1, QuietWalk DEF walkVars
  <2>3. host.env[pos] \notin Hits(host, pass)
    BY <1>5 DEF Hit, Hits
  <2>4. \A i \in DOMAIN host.env : i < pos + 1 => i < pos \/ i = pos
    BY <1>2
  <2>5. Searching'
    BY <1>1, <2>1, <2>3, <2>4 DEF Searching
  <2>6. HostTypes'
    BY <1>1, <1>2, <2>1 DEF HostTypes
  <2>7. Deciding' /\ Answered' /\ TargetIsBest'
    BY <1>1, <1>6, <2>1, <2>2, StillSearching
  <2> QED BY <2>2, <2>5, <2>6, <2>7 DEF SearchInv
<1> QED BY <1>2, <1>3, <1>4, <1>5

LEMMA ConfDirKeeps == ASSUME SearchInv, ConfDir PROVE SearchInv'
<1> DEFINE H == {d \in Dirs : Hit(d)}
<1>1. /\ phase = "search" /\ part = "conf" /\ WalkStep(H)
      /\ UNCHANGED <<host, phase, pass, part, pos, found, use_bundled, target>>
      /\ HostTypes /\ WalkTypes /\ Searching /\ Deciding
  BY DEF ConfDir, SearchInv, WalkInv
<1>2. H = Hits(host, pass)
  BY DEF Hit, Hits
<1> HIDE DEF H
<1>3. WalkTypes' /\ tree' = tree /\ (~warned' => ~warned /\ (Progress => Progress'))
  BY <1>1, WalkStepWorks
<1>4. /\ stopped => FirstIn(seen, H, seen[Len(seen)])
      /\ ~stopped => NoneIn(seen, H)
      /\ ~warned => Progress
      /\ NoneIn(host.env, H)
  BY <1>1, <1>2 DEF Searching
<1>5. /\ stopped' => FirstIn(seen', H, seen'[Len(seen')])
      /\ ~stopped' => NoneIn(seen', H)
  BY <1>1, <1>4, WalkSearches
<1>6. ~warned' => Progress'
  BY <1>3, <1>4
<1>7. Searching'
  BY <1>1, <1>2, <1>4, <1>5, <1>6 DEF Searching
<1>8. HostTypes'
  BY <1>1, <1>3 DEF HostTypes
<1>9. Given' = Given
  BY <1>3 DEF Given
<1>10. Deciding' /\ Answered' /\ TargetIsBest'
  BY <1>1, <1>3, <1>9, StillSearching
<1> QED BY <1>3, <1>6, <1>7, <1>8, <1>10 DEF SearchInv, WalkInv

LEMMA ConfEndsKeeps == ASSUME SearchInv, ConfEnds PROVE SearchInv'
<1>1. /\ phase = "search" /\ part = "conf" /\ frames = <<>>
      /\ UNCHANGED <<tree, walkVars, host, target>>
      /\ HostTypes /\ WalkInv /\ WalkTypes /\ Searching /\ Deciding
  BY DEF ConfEnds, SearchInv, WalkInv
<1>2. CASE stopped
  <2>1. Finish(seen[Len(seen)])
    BY <1>2 DEF ConfEnds
  <2>2. Answer(seen[Len(seen)])
    BY <1>1, <1>2, ConfAnswers
  <2> QED BY <1>1, <2>1, <2>2, FinishWorks
<1>3. CASE ~stopped
  <2>1. part' = "fixed" /\ pos' = 1 /\ UNCHANGED <<phase, pass, found, use_bundled>>
    BY <1>3 DEF ConfEnds
  <2>2. /\ WalkInv' /\ Given' = Given /\ UNCHANGED <<warned, seen, host, tree>>
    BY <1>1, QuietWalk DEF walkVars
  <2>3. ~warned => seen = Given
    <3> SUFFICES ASSUME ~warned PROVE seen = Given
      OBVIOUS
    <3>1. Progress
      BY <1>1 DEF Searching
    <3>2. PICK r : Left(tree, frames, r) /\ seen \o r[Len(frames)] = Given
      BY <1>3, <3>1 DEF Progress
    <3>3. Len(frames) = 0 /\ r[0] = <<>>
      BY <1>1, <3>2 DEF Left
    <3> QED BY <1>1, <3>2, <3>3, ConcatEmptySeq DEF WalkTypes
  <2>4. \A i \in DOMAIN host.fixed : ~(i < 1)
    BY <1>1, OrderType
  <2>5. NoneIn(host.env, Hits(host, pass)) /\ NoneIn(seen, Hits(host, pass))
    BY <1>1, <1>3 DEF Searching
  <2>6. Searching'
    BY <2>1, <2>2, <2>3, <2>4, <2>5 DEF Searching
  <2>7. HostTypes'
    BY <1>1, <2>1, <2>2 DEF HostTypes
  <2>8. Deciding' /\ Answered' /\ TargetIsBest'
    BY <1>1, <2>1, <2>2, StillSearching
  <2> QED BY <2>2, <2>6, <2>7, <2>8 DEF SearchInv
<1> QED BY <1>2, <1>3

LEMMA FixedDirKeeps == ASSUME SearchInv, FixedDir PROVE SearchInv'
<1>1. /\ phase = "search" /\ part = "fixed"
      /\ UNCHANGED <<tree, walkVars, host, target>>
      /\ HostTypes /\ WalkInv /\ Searching /\ Deciding
  BY DEF FixedDir, SearchInv
<1>2. host.fixed \in Seq(Dirs) /\ pos \in Nat \ {0}
  BY <1>1, OrderType DEF HostTypes
<1>3. CASE pos > Len(host.fixed)
  <2>1. Finish(NoDir)
    BY <1>3 DEF FixedDir
  <2>2. Answer(NoDir)
    BY <1>1, <1>3, NothingAnswers
  <2> QED BY <1>1, <2>1, <2>2, FinishWorks
<1>4. CASE pos <= Len(host.fixed) /\ Hit(host.fixed[pos])
  <2>1. Finish(host.fixed[pos])
    BY <1>2, <1>4 DEF FixedDir
  <2>2. host.fixed[pos] \in Hits(host, pass)
    BY <1>2, <1>4 DEF Hit, Hits
  <2>3. Answer(host.fixed[pos])
    BY <1>1, <1>4, <2>2, FixedAnswers
  <2> QED BY <1>1, <2>1, <2>3, FinishWorks
<1>5. CASE pos <= Len(host.fixed) /\ ~Hit(host.fixed[pos])
  <2>1. pos' = pos + 1 /\ UNCHANGED <<phase, pass, part, found, use_bundled>>
    BY <1>2, <1>5 DEF FixedDir
  <2>2. WalkInv' /\ Given' = Given /\ UNCHANGED <<warned, seen, host, tree>>
    BY <1>1, QuietWalk DEF walkVars
  <2>3. host.fixed[pos] \notin Hits(host, pass)
    BY <1>5 DEF Hit, Hits
  <2>4. \A i \in DOMAIN host.fixed : i < pos + 1 => i < pos \/ i = pos
    BY <1>2
  <2>5. Searching'
    BY <1>1, <2>1, <2>2, <2>3, <2>4 DEF Searching
  <2>6. HostTypes'
    BY <1>1, <1>2, <2>1, <2>2 DEF HostTypes
  <2>7. Deciding' /\ Answered' /\ TargetIsBest'
    BY <1>1, <2>1, <2>2, StillSearching
  <2> QED BY <2>2, <2>5, <2>6, <2>7 DEF SearchInv
<1> QED BY <1>2, <1>3, <1>4, <1>5

LEMMA OpenBundledKeeps == ASSUME SearchInv, OpenBundled PROVE SearchInv'
<1>1. /\ phase = "bundled" /\ UNCHANGED <<tree, walkVars, host, use_bundled>>
      /\ HostTypes /\ WalkInv /\ Deciding
  BY DEF OpenBundled, SearchInv
<1>2. /\ WalkInv' /\ Given' = Given /\ Order' = Order /\ Sonames' = Sonames
      /\ (Served' <=> Served) /\ (Certain' <=> Certain) /\ have_bundled' = have_bundled
      /\ UNCHANGED <<host, tree, warned>>
  BY <1>1, QuietWalk DEF walkVars
<1>3. /\ have_bundled /\ ~warned => (use_bundled <=> Served)
      /\ Certain => use_bundled
  BY <1>1 DEF Deciding, HostAsked
<1>4. CASE use_bundled /\ host.bundled = "loads"
  <2>1. target' = <<"bundled">> /\ phase' = "done" /\ UNCHANGED <<pass, part, pos, found>>
    BY <1>4 DEF OpenBundled
  <2>2. HostTypes'
    BY <1>1, <1>2, <2>1 DEF HostTypes
  <2>3. ~warned \/ Certain => Served
    <3>1. have_bundled
      BY <1>4 DEF have_bundled
    <3> QED BY <1>3, <1>4, <3>1 DEF Certain, Served
  <2>4. TargetIsBest'
    <3>1. IsBest'
      BY <1>2, <1>4, <2>1, <2>3 DEF IsBest
    <3> QED BY <2>2, <3>1, BestIs, PTL
  <2>5. Searching' /\ Deciding' /\ Answered'
    BY <2>1 DEF Searching, Deciding, Answered, HostAsked
  <2> QED BY <1>2, <2>2, <2>4, <2>5 DEF SearchInv
<1>5. CASE ~(use_bundled /\ host.bundled = "loads") /\ host.want = "bundled"
  <2>1. phase' = "last" /\ UNCHANGED <<pass, part, pos, found, target>>
    BY <1>5 DEF OpenBundled
  <2>2. HostTypes'
    BY <1>1, <1>2, <2>1 DEF HostTypes
  <2>3. Deciding'
    BY <1>1, <1>2, <1>3, <1>5, <2>1 DEF Deciding, HostAsked
  <2>4. Searching' /\ Answered' /\ TargetIsBest'
    BY <1>2, <1>5, <2>1 DEF Searching, Answered, TargetIsBest
  <2> QED BY <1>2, <2>2, <2>3, <2>4 DEF SearchInv
<1>6. CASE ~(use_bundled /\ host.bundled = "loads") /\ host.want # "bundled"
  <2>1. Begin("soname") /\ target' = target
    BY <1>6 DEF OpenBundled
  <2>2. HostTypes' /\ Searching' /\ Answered' /\ TargetIsBest'
    BY <1>1, <1>2, <2>1, BeginWorks
  <2>3. phase' = "search" /\ pass' = "soname"
    BY <2>1 DEF Begin
  <2>4. Deciding'
    BY <1>1, <1>2, <1>3, <1>6, <2>3 DEF Deciding, HostAsked
  <2> QED BY <1>2, <2>2, <2>4 DEF SearchInv
<1> QED BY <1>4, <1>5, <1>6

LEMMA OpenHostKeeps == ASSUME SearchInv, OpenHost PROVE SearchInv'
<1>1. /\ phase = "host" /\ UNCHANGED <<tree, walkVars, host, pass, part, pos, found, use_bundled>>
      /\ HostTypes /\ WalkInv /\ Deciding /\ Answered
  BY DEF OpenHost, SearchInv
<1>2. /\ WalkInv' /\ Given' = Given /\ Order' = Order /\ Sonames' = Sonames
      /\ (Served' <=> Served) /\ (Certain' <=> Certain) /\ have_bundled' = have_bundled
      /\ UNCHANGED <<host, tree, warned>>
  BY <1>1, QuietWalk DEF walkVars
<1>3. /\ have_bundled /\ ~warned => (use_bundled <=> Served)
      /\ Certain => use_bundled
      /\ ~(use_bundled /\ host.bundled = "loads") /\ host.want # "bundled"
  BY <1>1 DEF Deciding, HostAsked
<1>4. ~warned => FirstIn(Order, Sonames, found)
  BY <1>1 DEF Answered
<1>5. CASE host.soname[found] = "loads"
  <2>1. target' = <<"host", found>> /\ phase' = "done"
    BY <1>5 DEF OpenHost
  <2>2. HostTypes'
    BY <1>1, <1>2, <2>1 DEF HostTypes
  <2>3. ~Certain
    BY <1>3 DEF Certain
  <2>4. ~warned => ~(host.bundled = "loads" /\ Served)
    BY <1>3 DEF have_bundled
  <2>5. TargetIsBest'
    <3>1. IsBest'
      BY <1>2, <1>3, <1>4, <1>5, <2>1, <2>3, <2>4 DEF IsBest
    <3> QED BY <2>2, <3>1, BestIs, PTL
  <2>6. Searching' /\ Deciding' /\ Answered'
    BY <2>1 DEF Searching, Deciding, Answered, HostAsked
  <2> QED BY <1>2, <2>2, <2>5, <2>6 DEF SearchInv
<1>6. CASE host.soname[found] # "loads"
  <2>1. phase' = "last" /\ target' = target
    BY <1>6 DEF OpenHost
  <2>2. HostTypes'
    BY <1>1, <1>2, <2>1 DEF HostTypes
  <2>3. Deciding'
    BY <1>2, <1>1, <1>3, <2>1 DEF Deciding, HostAsked
  <2>4. Answered'
    BY <1>2, <1>4, <1>6, <2>1 DEF Answered
  <2>5. Searching' /\ TargetIsBest'
    BY <2>1 DEF Searching, TargetIsBest
  <2> QED BY <1>2, <2>2, <2>3, <2>4, <2>5 DEF SearchInv
<1> QED BY <1>5, <1>6

LEMMA OpenLastKeeps == ASSUME SearchInv, OpenLast PROVE SearchInv'
<1>1. /\ phase = "last" /\ UNCHANGED <<tree, walkVars, host, pass, part, pos, found, use_bundled>>
      /\ HostTypes /\ WalkInv /\ Deciding /\ Answered
  BY DEF OpenLast, SearchInv
<1>2. /\ WalkInv' /\ Given' = Given /\ Order' = Order /\ Sonames' = Sonames
      /\ (Served' <=> Served) /\ (Certain' <=> Certain) /\ have_bundled' = have_bundled
      /\ UNCHANGED <<host, tree, warned>>
  BY <1>1, QuietWalk DEF walkVars
<1>3. /\ have_bundled /\ ~warned => (use_bundled <=> Served)
      /\ Certain => use_bundled
      /\ ~(use_bundled /\ host.bundled = "loads")
  BY <1>1 DEF Deciding, HostAsked
<1>4. /\ target' = (IF ~use_bundled /\ host.bundled = "loads" THEN <<"bundled">> ELSE <<"nothing">>)
      /\ phase' = "done"
  BY DEF OpenLast
<1>5. target' = IF host.bundled = "loads" THEN <<"bundled">> ELSE <<"nothing">>
  BY <1>3, <1>4
<1>6. HostTypes'
  BY <1>1, <1>2, <1>4 DEF HostTypes
<1>7. ~Certain
  BY <1>3 DEF Certain
<1>8. ~warned => ~(host.bundled = "loads" /\ Served)
  BY <1>3 DEF have_bundled
<1>9. ~warned => \/ host.want = "bundled"
                 \/ NoneIn(Order, Sonames)
                 \/ \E d : FirstIn(Order, Sonames, d) /\ host.soname[d] # "loads"
  BY <1>1 DEF Answered
<1>10. TargetIsBest'
  <2>1. IsBest'
    BY <1>2, <1>5, <1>7, <1>8, <1>9 DEF IsBest
  <2> QED BY <1>6, <2>1, BestIs, PTL
<1>11. Searching' /\ Deciding' /\ Answered'
  BY <1>4 DEF Searching, Deciding, Answered, HostAsked
<1> QED BY <1>2, <1>6, <1>10, <1>11 DEF SearchInv

THEOREM SearchIsInvariant == Spec => []SearchInv
<1>1. SearchInv /\ [Next]_vars => SearchInv'
  <2> SUFFICES ASSUME SearchInv, [Next]_vars PROVE SearchInv'
    OBVIOUS
  <2>1. CASE UNCHANGED vars
    <3>1. UNCHANGED <<tree, walkVars, host>> /\ WalkInv
      BY <2>1 DEF vars, SearchInv
    <3>2. /\ WalkInv' /\ Given' = Given /\ Order' = Order /\ (Progress <=> Progress')
          /\ Sonames' = Sonames /\ (Served' <=> Served) /\ (Certain' <=> Certain)
          /\ have_bundled' = have_bundled
          /\ UNCHANGED <<tree, host, phase, pass, part, pos, found, use_bundled, target,
                         frames, budget, stopped, warned, seen>>
      BY <2>1, <3>1, QuietWalk DEF vars, walkVars
    <3>3. HostTypes' /\ Searching' /\ Deciding' /\ Answered'
      BY <3>2 DEF SearchInv, HostTypes, Searching, Deciding, Answered, HostAsked
    <3>4. TargetIsBest'
      BY <3>2 DEF SearchInv, TargetIsBest
    <3> QED BY <3>2, <3>3, <3>4 DEF SearchInv
  <2>2. CASE Start
    BY <2>2, StartKeeps
  <2>3. CASE EnvDir
    BY <2>3, EnvDirKeeps
  <2>4. CASE ConfDir
    BY <2>4, ConfDirKeeps
  <2>5. CASE ConfEnds
    BY <2>5, ConfEndsKeeps
  <2>6. CASE FixedDir
    BY <2>6, FixedDirKeeps
  <2>7. CASE OpenBundled
    BY <2>7, OpenBundledKeeps
  <2>8. CASE OpenHost
    BY <2>8, OpenHostKeeps
  <2>9. CASE OpenLast
    BY <2>9, OpenLastKeeps
  <2> QED BY <2>1, <2>2, <2>3, <2>4, <2>5, <2>6, <2>7, <2>8, <2>9 DEF Next
<1> QED BY <1>1, InitHolds, PTL DEF Spec

\* A line that can be followed says what is written in it.
LEMMA LineIsFollowed ==
  ASSUME NEW t, IsTree(t), Followable(t), NEW said,
         NEW f \in DOMAIN t.files, NEW l \in DOMAIN t.files[f]
  PROVE  LineSays(t, t.files[f][l], said, TRUE) = LineSays(t, t.files[f][l], said, FALSE)
<1> DEFINE line == t.files[f][l]
<1>1. t.files[f] \in Seq(Line)
  BY DEF IsTree
<1>2. line \in Line
  BY <1>1
<1>3. IF line.kind = "directory" THEN line.absolute
      ELSE line.fault \notin Silent /\ line.cut = {}
  BY DEF Followable
<1> HIDE DEF line
<1> SUFFICES LineSays(t, line, said, TRUE) = LineSays(t, line, said, FALSE)
  BY DEF line
<1>4. CASE line.kind = "directory"
  BY <1>3, <1>4 DEF LineSays
<1>5. CASE line.kind # "directory"
  <2>1. Meant(t, line, TRUE) = Meant(t, line, FALSE)
    BY <1>3, <1>5 DEF Meant
  <2>2. line.kind = "include"
    BY <1>2, <1>5 DEF Line
  <2> QED BY <2>1, <2>2 DEF LineSays
<1> QED BY <1>4, <1>5

\* So then does every file, at every level: what is given is all that is written.
LEMMA FollowedIsWritten ==
  ASSUME NEW t, IsTree(t), Followable(t)
  PROVE  \A k \in 0 .. Top0 : Levels(t, TRUE)[k] = Levels(t, FALSE)[k]
<1>1. ASSUME NEW said, NEW f \in Files(t)
      PROVE  FileSays(t, f, said, TRUE) = FileSays(t, f, said, FALSE)
  <2>1. t.closed = {}
    BY DEF Followable
  <2>2. CASE f \in DOMAIN t.files
    <3>1. [l \in DOMAIN t.files[f] |-> LineSays(t, t.files[f][l], said, TRUE)]
          = [l \in DOMAIN t.files[f] |-> LineSays(t, t.files[f][l], said, FALSE)]
      BY <2>2, LineIsFollowed
    <3> QED BY <2>1, <2>2, <3>1 DEF FileSays
  <2>3. CASE f \notin DOMAIN t.files
    BY <2>3 DEF FileSays
  <2> QED BY <2>2, <2>3
<1> DEFINE Bad == {k \in Nat : k \in 0 .. Top0 /\ Levels(t, TRUE)[k] # Levels(t, FALSE)[k]}
<1>2. ASSUME Bad # {} PROVE FALSE
  <2>1. PICK k \in Bad : \A j \in Bad : k <= j
    BY <1>2, Least
  <2>2. k \in Nat /\ k \in 0 .. Top0 /\ Levels(t, TRUE)[k] # Levels(t, FALSE)[k]
    OBVIOUS
  <2>3. /\ Levels(t, TRUE)[k] = Said(t, k, Levels(t, TRUE)[k-1], TRUE)
        /\ Levels(t, FALSE)[k] = Said(t, k, Levels(t, FALSE)[k-1], FALSE)
    BY <2>2, LevelsAre
  <2>4. CASE k = 0
    BY <2>2, <2>3, <2>4 DEF Said
  <2>5. CASE k # 0
    <3>1. k - 1 \in Nat /\ k - 1 \in 0 .. Top0 /\ ~(k <= k - 1)
      BY <2>2, <2>5, LimitsAssumption DEF Top0
    <3>2. Levels(t, TRUE)[k-1] = Levels(t, FALSE)[k-1]
      BY <2>1, <3>1
    <3>3. Said(t, k, Levels(t, FALSE)[k-1], TRUE) = Said(t, k, Levels(t, FALSE)[k-1], FALSE)
      BY <1>1 DEF Said
    <3> QED BY <2>2, <2>3, <3>2, <3>3
  <2> QED BY <2>4, <2>5
<1>3. \A k \in 0 .. Top0 : k \in Nat
  BY LimitsAssumption DEF Top0
<1> QED BY <1>2, <1>3

LEMMA WrittenIsGiven == ASSUME IsTree(tree), Followable(tree) PROVE Written = Given
<1>1. Top0 \in 0 .. Top0
  BY LimitsAssumption DEF Top0
<1>2. Levels(tree, TRUE)[Top0] = Levels(tree, FALSE)[Top0]
  BY <1>1, FollowedIsWritten
<1> QED BY <1>2 DEF Given, Written, Top0

\* What has been given and what is left are what the files say; so the first is
\* a beginning of it, and all of it once nothing is left.
LEMMA ProgressIsInOrder == WalkInv => DirsInFileOrder
<1> SUFFICES ASSUME WalkInv, ~warned
             PROVE  /\ IsPrefix(seen, Given)
                    /\ frames = <<>> /\ ~stopped /\ budget < LDCONF_DEFAULT_BUDGET =>
                         seen = Given
  BY WrittenIsGiven DEF DirsInFileOrder, WalkInv, WalkTypes
<1>1. IsTree(tree) /\ seen \in Seq(Dirs) /\ Given \in Seq(Dirs)
  BY GivenType DEF WalkInv, WalkTypes
<1>2. ASSUME NEW rest \in Seq(Dirs), seen \o rest = Given PROVE IsPrefix(seen, Given)
  <2> DEFINE n == Len(seen)
             e == Given
  <2>1. /\ n \in Nat /\ Len(rest) \in Nat /\ Len(seen \o rest) = n + Len(rest)
        /\ \A i \in 1 .. n + Len(rest) : (seen \o rest)[i] = IF i <= n THEN seen[i]
                                                             ELSE rest[i - n]
    BY <1>1, ConcatProperties
  <2>2. e = seen \o rest
    BY <1>2
  <2> HIDE DEF n, e
  <2>3. n <= Len(e) /\ \A i \in 1 .. n : e[i] = seen[i]
    <3>1. Len(e) = n + Len(rest)
      BY <2>1, <2>2
    <3>2. \A i \in 1 .. n : i \in 1 .. n + Len(rest) /\ i <= n
      BY <2>1
    <3> QED BY <2>1, <2>2, <3>1, <3>2
  <2>4. SubSeq(e, 1, n) = SubSeq(seen, 1, n)
    BY <2>1, <2>3
  <2> QED BY <2>3, <2>4 DEF IsPrefix, n, e
<1>3. CASE Idle
  <2>1. seen = <<>> /\ <<>> \o Given = Given
    BY <1>1, <1>3, ConcatEmptySeq DEF Idle
  <2>2. ~(budget < LDCONF_DEFAULT_BUDGET)
    BY <1>3, LimitsAssumption DEF Idle
  <2> QED BY <1>1, <1>2, <2>1, <2>2
<1>4. CASE Progress
  <2>1. PICK rest \in Seq(Dirs) :
          seen \o rest = Given /\ (frames = <<>> /\ ~stopped => rest = <<>>)
    <3>1. CASE stopped
      BY <1>4, <3>1 DEF Progress
    <3>2. CASE ~stopped
      <4>1. PICK r : Left(tree, frames, r) /\ seen \o r[Len(frames)] = Given
        BY <1>4, <3>2 DEF Progress
      <4>2. Len(frames) \in Nat /\ Len(frames) \in 0 .. Len(frames)
        BY DEF WalkInv, WalkTypes
      <4>3. r[Len(frames)] \in Seq(Dirs)
        BY <4>1, <4>2 DEF Left
      <4>4. frames = <<>> => r[Len(frames)] = <<>>
        BY <4>1 DEF Left
      <4> QED BY <4>1, <4>3, <4>4
    <3> QED BY <3>1, <3>2
  <2> QED BY <1>1, <1>2, <2>1, ConcatEmptySeq
<1> QED BY <1>3, <1>4 DEF WalkInv

\* "Called once per directory named, in file order": the walk of
\* /etc/ld.so.conf gives the directories that the files name in the order in
\* which they name them, all of them unless it is stopped, warns that it dropped
\* some, or passes over them in silence, as it does what Given leaves out; and
\* what Given leaves out is nothing where all can be followed: for any files, any
\* order of readdir and any limits.
THEOREM DirsComeInOrder == Spec => []DirsInFileOrder
<1>1. SearchInv => DirsInFileOrder
  BY ProgressIsInOrder DEF SearchInv
<1> QED BY <1>1, SearchIsInvariant, PTL

\* The shim forwards to the object that its rules call best, on any host whose
\* libraries do not change meanwhile: best among the directories that the walk
\* of the host's conf files gives, or when it warned that it dropped some.
THEOREM ForwardsToTheBest == Spec => []TargetIsBest
<1>1. SearchInv => TargetIsBest
  BY DEF SearchInv
<1> QED BY <1>1, SearchIsInvariant, PTL

==============================================================================
