------------------------- MODULE SgfAnalysisProofs --------------------------
(***************************************************************************)
(* Proofs about SgfAnalysis, for every document that is a tree of legal    *)
(* moves, of any size, and any payload: the engine is asked about the game *)
(* in the document, and every move of the result has the answers to its    *)
(* own turn.  MainLine is a recursive function and a sort is a CHOOSE, so  *)
(* the lemmas first show, by least elements, that both are what they say.  *)
(***************************************************************************)
EXTENDS SgfAnalysis, FiniteSetTheorems, WellFoundedInduction, TLAPS

-----------------------------------------------------------------------------
(* Induction                                                               *)

\* A set of natural numbers that is not empty has a least member.
LEMMA LeastElement ==
    ASSUME NEW T \in SUBSET Nat, T # {}
    PROVE  \E x \in T : \A y \in T : x <= y
  <1> DEFINE R == {ss \in Nat \X Nat : ss[1] < ss[2]}
  <1>1. IsWellFoundedOn(R, Nat)
    BY NatLessThanWellFounded DEF OpToRel
  <1>2. PICK x \in T : \A y \in T : ~(<<y, x>> \in R)
    <2> HIDE DEF R
    <2>1. QED
      BY <1>1, WFMin
  <1>3. ASSUME NEW y \in T PROVE x <= y
    <2>1. x \in Nat /\ y \in Nat
      OBVIOUS
    <2>2. ~(y < x)
      BY <1>2, <2>1
    <2>3. QED
      BY <2>1, <2>2
  <1>4. QED
    BY <1>3

\* So a set that has 0 and every successor of its members has every number.
LEMMA InductionOnNat ==
    ASSUME NEW S, 0 \in S, \A n \in Nat : n \in S => n + 1 \in S
    PROVE  Nat \subseteq S
  <1> SUFFICES ASSUME Nat \ S # {} PROVE FALSE
    OBVIOUS
  <1>1. PICK x \in Nat \ S : \A y \in Nat \ S : x <= y
    BY LeastElement
  <1>2. x # 0 /\ x - 1 \in Nat /\ x - 1 \notin Nat \ S
    BY <1>1
  <1>3. (x - 1) + 1 \in S
    BY <1>2
  <1>4. QED
    BY <1>1, <1>3

\* Sequences over S: <<>>, one member, and concatenation, which associates.
LEMMA SeqFacts ==
    ASSUME NEW S
    PROVE  /\ <<>> \in Seq(S) /\ \A m \in S : <<m>> \in Seq(S)
           /\ \A s, u \in Seq(S) : s \o u \in Seq(S)
           /\ \A s, u, w \in Seq(S) : (s \o u) \o w = s \o (u \o w)
  OBVIOUS

-----------------------------------------------------------------------------
(* Sorting                                                                 *)

Ascending(s, key) == \A i, j \in DOMAIN s : i < j => key[s[i]] < key[s[j]]

\* The members of S with keys below k.
Below(S, key, k) == {x \in S : key[x] < k}

\* One more key is one more member.
LEMMA BelowGrows ==
    ASSUME NEW S, IsFiniteSet(S), NEW key \in [S -> Nat], NEW k \in Nat, NEW x \in S, key[x] = k,
           \A y, z \in S : key[y] = key[z] => y = z
    PROVE  /\ Below(S, key, k + 1) = Below(S, key, k) \cup {x}
           /\ Cardinality(Below(S, key, k)) \in Nat
           /\ Cardinality(Below(S, key, k + 1)) = Cardinality(Below(S, key, k)) + 1
  <1>1. Below(S, key, k + 1) = Below(S, key, k) \cup {x}
    BY DEF Below
  <1>2. IsFiniteSet(Below(S, key, k)) /\ x \notin Below(S, key, k)
    BY FS_Subset DEF Below
  <1>3. QED
    BY <1>1, <1>2, FS_AddElement, FS_CardinalityType

\* A finite set has an order by its keys: the member with the largest key comes
\* after the others.
LEMMA SortingExists ==
    ASSUME NEW S, IsFiniteSet(S), NEW K \in Nat, NEW key \in [S -> Nat],
           \A y \in S : key[y] < K, \A y, z \in S : key[y] = key[z] => y = z
    PROVE  \E s \in [1 .. Cardinality(S) -> S] : Ascending(s, key)
  <1> DEFINE B(k) == Below(S, key, k)
             Good == {k \in Nat : \E s \in [1 .. Cardinality(B(k)) -> B(k)] : Ascending(s, key)}
  <1>1. 0 \in Good
    <2>1. B(0) = {}
      BY DEF Below
    <2>2. Cardinality(B(0)) = 0
      BY <2>1, FS_EmptySet
    <2>3. [i \in 1 .. 0 |-> 0] \in [1 .. Cardinality(B(0)) -> B(0)]
      BY <2>2
    <2>4. Ascending([i \in 1 .. 0 |-> 0], key)
      BY DEF Ascending
    <2>5. QED
      BY <2>3, <2>4
  <1>2. ASSUME NEW k \in Nat, k \in Good PROVE k + 1 \in Good
    <2>1. PICK s \in [1 .. Cardinality(B(k)) -> B(k)] : Ascending(s, key)
      BY <1>2
    <2>2. CASE \E x \in S : key[x] = k
      <3>1. PICK x \in S : key[x] = k
        BY <2>2
      <3> DEFINE n == Cardinality(B(k))
                 g == [i \in 1 .. n + 1 |-> IF i = n + 1 THEN x ELSE s[i]]
      <3>2. B(k + 1) = B(k) \cup {x} /\ n \in Nat /\ Cardinality(B(k + 1)) = n + 1
        BY <3>1, BelowGrows
      <3>3. \A i \in 1 .. n : s[i] \in B(k) /\ key[s[i]] \in Nat /\ key[s[i]] < k
        BY DEF Below
      <3> HIDE DEF B, n
      <3>4. g \in [1 .. n + 1 -> B(k + 1)]
        BY <3>2, <3>3
      <3>5. Ascending(g, key)
        <4>1. ASSUME NEW i \in 1 .. n + 1, NEW j \in 1 .. n + 1, i < j
              PROVE  key[g[i]] < key[g[j]]
          <5>1. i \in 1 .. n /\ g[i] = s[i]
            BY <3>2, <4>1
          <5>2. CASE j = n + 1
            BY <3>1, <3>3, <5>1, <5>2
          <5>3. CASE j # n + 1
            <6>1. j \in 1 .. n /\ g[j] = s[j]
              BY <3>2, <5>3
            <6>2. DOMAIN s = 1 .. n
              BY DEF n
            <6>3. QED
              BY <2>1, <4>1, <5>1, <6>1, <6>2 DEF Ascending
          <5>4. QED
            BY <5>2, <5>3
        <4>2. QED
          BY <4>1 DEF Ascending
      <3>6. \E h \in [1 .. Cardinality(B(k + 1)) -> B(k + 1)] : Ascending(h, key)
        BY <3>2, <3>4, <3>5
      <3>7. QED
        BY <3>6
    <2>3. CASE ~\E x \in S : key[x] = k
      <3>1. B(k + 1) = B(k)
        BY <2>3 DEF Below
      <3>2. QED
        BY <2>1, <3>1
    <2>4. QED
      BY <2>2, <2>3
  <1>3. Nat \subseteq Good
    <2> HIDE DEF Good
    <2>1. QED
      BY <1>1, <1>2, InductionOnNat
  <1>4. B(K) = S
    BY DEF Below
  <1>5. QED
    BY <1>3, <1>4

\* SortedBy has every member of S once, in the order of the keys.
LEMMA SortedByOrders ==
    ASSUME NEW S, NEW K \in Nat, NEW key \in [S -> Nat],
           \A y \in S : key[y] < K, \A y, z \in S : key[y] = key[z] => y = z
    PROVE  /\ Cardinality(S) \in Nat
           /\ SortedBy(S, key) \in [1 .. Cardinality(S) -> S]
           /\ Ascending(SortedBy(S, key), key)
           /\ \A x \in S : \E i \in 1 .. Cardinality(S) : SortedBy(S, key)[i] = x
  <1> DEFINE n == Cardinality(S)
             s == SortedBy(S, key)
  <1>1. IsFiniteSet(S) /\ n \in Nat
    <2>1. key \in Injection(S, 0 .. K - 1)
      <3>1. key \in [S -> 0 .. K - 1]
        OBVIOUS
      <3>2. QED
        BY <3>1 DEF Injection, IsInjective
    <2>2. IsFiniteSet(0 .. K - 1)
      BY FS_Interval
    <2>3. QED
      BY <2>1, <2>2, FS_Injection, FS_CardinalityType
  <1>2. s \in [1 .. n -> S] /\ Ascending(s, key)
    <2>1. \E q \in [1 .. n -> S] : Ascending(q, key)
      BY <1>1, SortingExists
    <2>2. s = CHOOSE q \in [1 .. n -> S] : Ascending(q, key)
      BY DEF SortedBy, Ascending
    <2> HIDE DEF s
    <2>3. QED
      BY <2>1, <2>2
  <1> HIDE DEF n, s
  <1>3. \A i, j \in 1 .. n : s[i] = s[j] => i = j
    <2> SUFFICES ASSUME NEW i \in 1 .. n, NEW j \in 1 .. n, s[i] = s[j] PROVE i = j
      OBVIOUS
    <2>1. s[i] \in S /\ key[s[i]] \in Nat
      BY <1>2
    <2>2. ~(i < j) /\ ~(j < i)
      BY <1>2, <2>1 DEF Ascending
    <2>3. QED
      BY <1>1, <2>2
  <1>4. s \in Injection(1 .. n, S)
    BY <1>2, <1>3 DEF Injection, IsInjective
  <1>5. IsFiniteSet(1 .. n) /\ Cardinality(1 .. n) = n
    BY <1>1, FS_Interval
  <1>6. s \in Surjection(1 .. n, S)
    BY <1>1, <1>4, <1>5, FS_Injection DEF n
  <1>7. QED
    BY <1>1, <1>2, <1>6 DEF Surjection, n, s

\* The keys of S are 0, 1, ... K - 1, each that of one member.
Ranks(S, key, K) ==
    /\ K \in Nat /\ key \in [S -> Nat]
    /\ \A y \in S : key[y] < K
    /\ \A y, z \in S : key[y] = key[z] => y = z
    /\ \A k \in 0 .. K - 1 : \E x \in S : key[x] = k

\* Then the i-th member has key i - 1.
LEMMA SortedByRank ==
    ASSUME NEW S, NEW K, NEW key, Ranks(S, key, K)
    PROVE  /\ Cardinality(S) = K
           /\ SortedBy(S, key) \in [1 .. K -> S]
           /\ \A i \in 1 .. K : key[SortedBy(S, key)[i]] = i - 1
  <1> USE DEF Ranks
  <1> DEFINE s == SortedBy(S, key)
  <1>1. Cardinality(S) = K
    <2>1. key \in Injection(S, 0 .. K - 1) /\ key \in Surjection(S, 0 .. K - 1)
      <3>1. key \in [S -> 0 .. K - 1]
        OBVIOUS
      <3>2. QED
        BY <3>1 DEF Injection, IsInjective, Surjection
    <2>2. IsFiniteSet(0 .. K - 1) /\ Cardinality(0 .. K - 1) = K
      BY FS_Interval
    <2>3. QED
      BY <2>1, <2>2, FS_Injection
  <1>2. /\ s \in [1 .. K -> S] /\ Ascending(s, key)
        /\ \A x \in S : \E i \in 1 .. K : s[i] = x
    BY <1>1, SortedByOrders
  <1> HIDE DEF s
  <1> DEFINE Off == {i \in 1 .. K : key[s[i]] # i - 1}
  <1>3. Off = {}
    <2> SUFFICES ASSUME Off # {} PROVE FALSE
      OBVIOUS
    <2>1. PICK i \in Off : \A j \in Off : i <= j
      <3>1. Off \in SUBSET Nat
        OBVIOUS
      <3> HIDE DEF Off
      <3>2. QED
        BY <3>1, LeastElement
    <2>2. i \in 1 .. K /\ key[s[i]] # i - 1 /\ \A j \in 1 .. i - 1 : key[s[j]] = j - 1
      BY <2>1
    <2>3. \A j \in 1 .. K : key[s[j]] \in 0 .. K - 1
      <3>1. \A x \in S : key[x] \in 0 .. K - 1
        OBVIOUS
      <3>2. \A j \in 1 .. K : s[j] \in S
        BY <1>2
      <3>3. QED
        BY <3>1, <3>2
    <2>4. key[s[i]] > i - 1
      <3>1. CASE i = 1
        BY <2>2, <2>3, <3>1
      <3>2. CASE i # 1
        <4>1. i - 1 \in 1 .. K /\ i - 1 < i /\ key[s[i - 1]] = i - 2
          BY <2>2, <3>2
        <4>2. key[s[i - 1]] < key[s[i]]
          BY <1>2, <2>2, <4>1 DEF Ascending
        <4>3. QED
          BY <2>2, <2>3, <4>1, <4>2
      <3>3. QED
        BY <3>1, <3>2
    <2>5. PICK m \in 1 .. K : key[s[m]] = i - 1
      <3>1. i - 1 \in 0 .. K - 1
        BY <2>2
      <3>2. PICK x \in S : key[x] = i - 1
        BY <3>1
      <3>3. QED
        BY <1>2, <3>2
    <2>6. CASE m < i
      BY <2>2, <2>5, <2>6
    <2>7. CASE m = i
      BY <2>4, <2>5, <2>7
    <2>8. CASE i < m
      <3>1. key[s[i]] < key[s[m]]
        BY <1>2, <2>2, <2>8 DEF Ascending
      <3>2. QED
        BY <2>2, <2>3, <2>4, <2>5, <3>1
    <2>9. QED
      BY <2>2, <2>6, <2>7, <2>8
  <1>4. QED
    BY <1>1, <1>2, <1>3 DEF s

-----------------------------------------------------------------------------
(* The main line of a tree                                                 *)

Here(n) ==
    LET c == IF doc.play[n].B = Undefined THEN "W" ELSE "B"
    IN IF doc.play[n][c] = Undefined THEN <<>> ELSE <<<<c, Gtp(doc.play[n][c])>>>>

After(n) == IF doc.kids[n] = <<>> THEN None ELSE Head(doc.kids[n])

Nodes == DOMAIN doc.kids
Lines == Nodes \cup {None}

\* The last k nodes: those the definition of MainLine reaches from them.
LastNodes(k) == {n \in Lines : n = None \/ n + k > Len(doc.kids)}

\* f is the main line of the nodes in S.
Unfolds(f, S) == f = [n \in S |-> IF n = None THEN <<>> ELSE Here(n) \o f[After(n)]]

\* In a tree the nodes are numbered, and the path goes to higher numbers.
LEMMA TreeFacts ==
    ASSUME IsTree(doc)
    PROVE  /\ Len(doc.kids) \in Nat /\ Nodes = 1 .. Len(doc.kids) /\ None \notin Nodes
           /\ \A n \in Nodes : After(n) = None \/ After(n) \in n + 1 .. Len(doc.kids)
  <1>1. doc.kids \in Seq(Seq(Nat))
    BY DEF IsTree
  <1>2. Len(doc.kids) \in Nat /\ Nodes = 1 .. Len(doc.kids)
    BY <1>1 DEF Nodes
  <1>3. ASSUME NEW n \in Nodes, doc.kids[n] # <<>>
        PROVE  Head(doc.kids[n]) \in n + 1 .. Len(doc.kids)
    <2>1. doc.kids[n] \in Seq(Nat)
      BY <1>1, <1>2
    <2>2. 1 \in DOMAIN doc.kids[n] /\ Head(doc.kids[n]) = doc.kids[n][1]
      BY <1>3, <2>1
    <2>3. QED
      BY <2>2 DEF IsTree, Nodes
  <1>4. QED
    BY <1>2, <1>3 DEF After, IsTree, Nodes

\* The path below one of the last nodes stays among them.
LEMMA LastNodesGrow ==
    ASSUME IsTree(doc), NEW k \in Nat
    PROVE  /\ LastNodes(0) = {None} /\ LastNodes(Len(doc.kids)) = Lines
           /\ LastNodes(k) \subseteq LastNodes(k + 1) /\ None \in LastNodes(k)
           /\ \A n \in LastNodes(k + 1) : n # None => After(n) \in LastNodes(k)
  <1>1. /\ Len(doc.kids) \in Nat /\ Nodes = 1 .. Len(doc.kids) /\ None \notin Nodes
        /\ \A n \in Nodes : After(n) = None \/ After(n) \in n + 1 .. Len(doc.kids)
    BY TreeFacts
  <1>2. LastNodes(0) = {None} /\ LastNodes(Len(doc.kids)) = Lines
    BY <1>1 DEF LastNodes, Lines
  <1>3. LastNodes(k) \subseteq LastNodes(k + 1) /\ None \in LastNodes(k)
    BY <1>1 DEF LastNodes, Lines
  <1>4. ASSUME NEW n \in LastNodes(k + 1), n # None PROVE After(n) \in LastNodes(k)
    <2>1. n \in Nodes /\ n + (k + 1) > Len(doc.kids)
      BY <1>4 DEF LastNodes, Lines
    <2>2. CASE After(n) = None
      BY <1>3, <2>2
    <2>3. CASE After(n) \in n + 1 .. Len(doc.kids)
      BY <1>1, <2>1, <2>3 DEF LastNodes, Lines
    <2>4. QED
      BY <1>1, <2>1, <2>2, <2>3
  <1>5. QED
    BY <1>2, <1>3, <1>4

\* The recursion of MainLine is well defined.
LEMMA MainLineUnfolds ==
    ASSUME IsTree(doc)
    PROVE  Unfolds(MainLine, Lines)
  <1> DEFINE Good == {k \in Nat : \E f : Unfolds(f, LastNodes(k))}
  <1>1. 0 \in Good
    <2>1. Unfolds([n \in {None} |-> <<>>], LastNodes(0))
      BY LastNodesGrow DEF Unfolds
    <2>2. QED
      BY <2>1
  <1>2. ASSUME NEW k \in Nat, k \in Good PROVE k + 1 \in Good
    <2>1. PICK f : Unfolds(f, LastNodes(k))
      BY <1>2
    <2> DEFINE g == [n \in LastNodes(k + 1) |-> IF n = None THEN <<>> ELSE Here(n) \o f[After(n)]]
    <2>2. /\ LastNodes(k) \subseteq LastNodes(k + 1)
          /\ \A n \in LastNodes(k + 1) : n # None => After(n) \in LastNodes(k)
      BY LastNodesGrow
    <2>3. \A m \in LastNodes(k) : g[m] = f[m]
      <3> SUFFICES ASSUME NEW m \in LastNodes(k) PROVE g[m] = f[m]
        OBVIOUS
      <3>1. f[m] = IF m = None THEN <<>> ELSE Here(m) \o f[After(m)]
        BY <2>1 DEF Unfolds
      <3>2. QED
        BY <2>2, <3>1
    <2>4. g = [n \in LastNodes(k + 1) |-> IF n = None THEN <<>> ELSE Here(n) \o g[After(n)]]
      <3> HIDE DEF g
      <3>1. \A n \in LastNodes(k + 1) : n # None => g[After(n)] = f[After(n)]
        BY <2>2, <2>3
      <3>2. g = [n \in LastNodes(k + 1) |-> IF n = None THEN <<>> ELSE Here(n) \o f[After(n)]]
        BY DEF g
      <3>3. QED
        BY <3>1, <3>2
    <2>5. \E h : Unfolds(h, LastNodes(k + 1))
      BY <2>4 DEF Unfolds
    <2>6. QED
      BY <2>5
  <1>3. Nat \subseteq Good
    <2> HIDE DEF Good
    <2>1. QED
      BY <1>1, <1>2, InductionOnNat
  <1>4. \E f : Unfolds(f, Lines)
    <2>1. Len(doc.kids) \in Good
      BY <1>3, TreeFacts
    <2>2. QED
      BY <2>1, LastNodesGrow
  <1>5. MainLine = CHOOSE f : Unfolds(f, Lines)
    BY DEF MainLine, Unfolds, Lines, Nodes, Here, After
  <1>6. QED
    BY <1>4, <1>5

\* The moves of the document.
DocMoves == {<<c, Gtp(doc.play[n][c])>> : n \in Nodes, c \in {"B", "W"}}

\* A node has no move or one of the document.
LEMMA HereIsMoves == ASSUME NEW n \in Nodes PROVE Here(n) \in Seq(DocMoves)
  <1> DEFINE c == IF doc.play[n].B = Undefined THEN "W" ELSE "B"
  <1>1. c \in {"B", "W"}
    OBVIOUS
  <1> HIDE DEF c
  <1>2. <<c, Gtp(doc.play[n][c])>> \in DocMoves
    BY <1>1 DEF DocMoves
  <1> DEFINE m == <<c, Gtp(doc.play[n][c])>>
  <1>3. Here(n) = <<>> \/ Here(n) = <<m>>
    BY DEF Here, c
  <1> HIDE DEF m
  <1>4. m \in DocMoves
    BY <1>2 DEF m
  <1>5. QED
    BY <1>3, <1>4, SeqFacts

\* The moves still to come at a node: its own and those after it.
LEMMA MainLineAt ==
    ASSUME IsTree(doc)
    PROVE  /\ MainLine[None] = <<>>
           /\ \A n \in Nodes : MainLine[n] = Here(n) \o MainLine[After(n)]
  <1>1. MainLine = [n \in Lines |-> IF n = None THEN <<>> ELSE Here(n) \o MainLine[After(n)]]
    BY MainLineUnfolds DEF Unfolds
  <1>2. \A n \in Lines : MainLine[n] = IF n = None THEN <<>> ELSE Here(n) \o MainLine[After(n)]
    BY <1>1
  <1>3. QED
    BY <1>2, TreeFacts DEF Lines

\* The main line is a sequence, whatever the tree.
LEMMA MainLineIsMoves ==
    ASSUME IsTree(doc)
    PROVE  \A n \in Lines : MainLine[n] \in Seq(DocMoves)
  <1> DEFINE Good == {k \in Nat : \A n \in LastNodes(k) : MainLine[n] \in Seq(DocMoves)}
  <1>1. 0 \in Good
    <2>1. MainLine[None] \in Seq(DocMoves)
      BY MainLineAt, SeqFacts
    <2>2. QED
      BY <2>1, LastNodesGrow
  <1>2. ASSUME NEW k \in Nat, k \in Good PROVE k + 1 \in Good
    <2> SUFFICES ASSUME NEW n \in LastNodes(k + 1) PROVE MainLine[n] \in Seq(DocMoves)
      OBVIOUS
    <2>1. CASE n = None
      BY <2>1, MainLineAt, SeqFacts
    <2>2. CASE n # None
      <3>1. n \in Nodes /\ After(n) \in LastNodes(k)
        BY <2>2, LastNodesGrow DEF LastNodes, Lines
      <3>2. MainLine[n] = Here(n) \o MainLine[After(n)]
        BY <3>1, MainLineAt
      <3>3. Here(n) \in Seq(DocMoves) /\ MainLine[After(n)] \in Seq(DocMoves)
        BY <1>2, <3>1, HereIsMoves
      <3>4. QED
        BY <3>2, <3>3, SeqFacts
    <2>3. QED
      BY <2>1, <2>2
  <1>3. Nat \subseteq Good
    <2> HIDE DEF Good
    <2>1. QED
      BY <1>1, <1>2, InductionOnNat
  <1>4. Len(doc.kids) \in Good
    BY <1>3, TreeFacts
  <1>5. QED
    BY <1>4, LastNodesGrow

-----------------------------------------------------------------------------
(* The parser writes what GTP means                                        *)

\* On a board GTP can name, the parser's column is GTP's letter.
LEMMA ColumnIsLetter == \A x \in 0 .. 24 : Column(x) = GtpLetters[x + 1]
  BY DEF Column, GtpLetters, A

\* A legal coordinate.
IsLegalVertex(v, x, y) ==
    \/ v = <<-1, -1>>
    \/ v = <<19, 19>> /\ x <= 19 /\ y <= 19
    \/ v \in (0 .. x - 1) \X (0 .. y - 1)

LEMMA CoordIsGtp ==
    ASSUME BoardSize[1] \in 0 .. 25, BoardSize[2] \in 0 .. 25,
           NEW v, IsLegalVertex(v, BoardSize[1], BoardSize[2])
    PROVE  SgfCoordToGtp(v, BoardSize[1], BoardSize[2]) = Gtp(v)
  <1>1. CASE v = <<-1, -1>>
    BY <1>1 DEF SgfCoordToGtp, Gtp, OnBoard
  <1>2. CASE v = <<19, 19>> /\ BoardSize[1] <= 19 /\ BoardSize[2] <= 19
    BY <1>2 DEF SgfCoordToGtp, Gtp, OnBoard
  <1>3. CASE v \in (0 .. BoardSize[1] - 1) \X (0 .. BoardSize[2] - 1)
    <2>1. /\ v[1] \in 0 .. BoardSize[1] - 1 /\ v[2] \in 0 .. BoardSize[2] - 1
          /\ v[1] \in 0 .. 24
      BY <1>3
    <2>2. ~(v = <<19, 19>> /\ BoardSize[1] <= 19 /\ BoardSize[2] <= 19)
      BY <2>1
    <2>3. SgfCoordToGtp(v, BoardSize[1], BoardSize[2]) = VertexToGtp(v, BoardSize[2])
      BY <2>1, <2>2 DEF SgfCoordToGtp
    <2>4. Gtp(v) = <<GtpLetters[v[1] + 1], BoardSize[2] - v[2]>>
      BY <2>1 DEF Gtp, OnBoard
    <2>5. QED
      BY <2>1, <2>3, <2>4, ColumnIsLetter DEF VertexToGtp
  <1>4. QED
    BY <1>1, <1>2, <1>3 DEF IsLegalVertex

\* What the loop takes from a node is the node's move.
LEMMA ExtractIsHere ==
    ASSUME IsLegal(doc), NEW n \in Nodes
    PROVE  ExtractMove(n) = Here(n)
  <1>1. BoardSize[1] \in 0 .. 25 /\ BoardSize[2] \in 0 .. 25
    BY DEF IsLegal, BoardSize
  <1>2. ASSUME NEW c \in {"B", "W"}, doc.play[n][c] # Undefined
        PROVE  SgfCoordToGtp(doc.play[n][c], BoardSize[1], BoardSize[2]) = Gtp(doc.play[n][c])
    <2>1. IsLegalVertex(doc.play[n][c], BoardSize[1], BoardSize[2])
      BY <1>2 DEF IsLegal, BoardSize, IsLegalVertex, Nodes
    <2>2. QED
      BY <1>1, <2>1, CoordIsGtp
  <1>3. CASE doc.play[n]["B"] # Undefined
    BY <1>2, <1>3 DEF ExtractMove, Here
  <1>4. CASE doc.play[n]["B"] = Undefined /\ doc.play[n]["W"] # Undefined
    BY <1>2, <1>4 DEF ExtractMove, Here
  <1>5. CASE doc.play[n]["B"] = Undefined /\ doc.play[n]["W"] = Undefined
    BY <1>5 DEF ExtractMove, Here
  <1>6. QED
    BY <1>3, <1>4, <1>5

-----------------------------------------------------------------------------
(* The engine is asked about the game in the document                      *)

DocsAreGames == \A d \in Docs : IsTree(d) /\ IsLegal(d)

Stages == {"root", "moves", "engine", "stored", "failed"}

\* What parse() has read of the root, with the moves read so far.
ParsedSgf ==
    [size : {BoardSize}, komi : {Komi}, rules : {Rules},
     initialStones : {InitialStones}, moves : Seq(DocMoves)]

\* While the main line is read, the moves read and those to come are the main
\* line; then the query has them all.
SgfInv ==
    /\ doc \in Docs /\ stage \in Stages
    /\ stage = "moves" =>
         /\ game \in ParsedSgf /\ node \in Lines
         /\ game.moves \o MainLine[node] = MainLine[doc.root]
    /\ stage \in {"engine", "stored"} =>
         /\ game \in ParsedSgf /\ game.moves = MainLine[doc.root]
         /\ QueryIsOfTheGame

\* What a query has under the keys the property names.
LEMMA QueryFields ==
    ASSUME game \in ParsedSgf
    PROVE  /\ BuiltQuery.id = JobId /\ BuiltQuery.size = BoardSize
           /\ BuiltQuery.moves = game.moves
           /\ body.analyzeTurns \in {Undefined, Null} =>
                BuiltQuery.analyzeTurns = 0 .. Len(game.moves)
  <1> DEFINE base == [id |-> JobId, moves |-> game.moves, size |-> game.size,
                      initialStones |-> game.initialStones,
                      rules |-> Override("rules", game.rules),
                      komi |-> Override("komi", game.komi),
                      analyzeTurns |-> Override("analyzeTurns", 0 .. Len(game.moves))]
             stones == IF game.initialStones = <<>> THEN {} ELSE {"initialStones"}
             rest == Picked \ {"rules", "komi", "analyzeTurns"}
             keys == (DOMAIN base \ {"initialStones"}) \cup stones \cup rest
  <1>1. BuiltQuery = [k \in keys |-> IF k \in rest THEN body[k] ELSE base[k]]
    BY DEF BuiltQuery
  <1>2. rest \subseteq {"maxVisits"}
    BY DEF Picked, KatagoOptionKeys
  <1>3. {"id", "moves", "size", "analyzeTurns"} \subseteq keys
    OBVIOUS
  <1>4. /\ base.id = JobId /\ base.moves = game.moves /\ base.size = game.size
        /\ base.analyzeTurns = Override("analyzeTurns", 0 .. Len(game.moves))
    OBVIOUS
  <1>5. game.size = BoardSize
    BY DEF ParsedSgf
  <1>6. body.analyzeTurns \in {Undefined, Null} =>
          Override("analyzeTurns", 0 .. Len(game.moves)) = 0 .. Len(game.moves)
    BY DEF Override, Picked
  <1> HIDE DEF base, rest, keys
  <1>7. \A k \in {"id", "moves", "size", "analyzeTurns"} : BuiltQuery[k] = base[k]
    BY <1>1, <1>2, <1>3
  <1>8. QED
    BY <1>4, <1>5, <1>6, <1>7

\* A document that is not touched has its main line still.
LEMMA DocStays ==
    ASSUME doc' = doc
    PROVE  /\ MainLine' = MainLine /\ Lines' = Lines /\ Nodes' = Nodes
           /\ DocMoves' = DocMoves /\ BoardSize' = BoardSize /\ ParsedSgf' = ParsedSgf
  BY DEF MainLine, Lines, Nodes, DocMoves, BoardSize, ParsedSgf, Gtp, OnBoard, Komi, Rules,
         InitialStones

\* The moves read, none, and the line to come are the main line.
LEMMA ReadRootKeeps == ASSUME DocsAreGames, SgfInv, ReadRoot PROVE SgfInv'
  <1>1. IsTree(doc) /\ doc' = doc /\ doc.root # None
    BY DEF DocsAreGames, SgfInv, ReadRoot, Readable
  <1>2. doc.root \in Lines
    BY <1>1 DEF IsTree, Lines, Nodes
  <1>3. game' \in ParsedSgf /\ game'.moves = <<>>
    BY SeqFacts DEF ReadRoot, ParsedSgf
  <1>4. game'.moves \o MainLine[doc.root] = MainLine[doc.root]
    BY <1>1, <1>2, <1>3, MainLineIsMoves
  <1>5. QED
    BY <1>1, <1>2, <1>3, <1>4, DocStays DEF SgfInv, ReadRoot, Stages

\* A node takes its move from the line to come to the moves read.
LEMMA VisitNodeKeeps == ASSUME DocsAreGames, SgfInv, VisitNode PROVE SgfInv'
  <1>1. /\ IsTree(doc) /\ IsLegal(doc) /\ doc' = doc
        /\ game \in ParsedSgf /\ node \in Nodes
        /\ game.moves \o MainLine[node] = MainLine[doc.root]
    BY DEF DocsAreGames, SgfInv, VisitNode, Lines
  <1>2. node' = After(node) /\ node' \in Lines
    BY <1>1, TreeFacts DEF VisitNode, After, Lines
  <1>3. game' = [game EXCEPT !.moves = game.moves \o Here(node)]
    BY <1>1, ExtractIsHere DEF VisitNode
  <1>4. /\ game.moves \in Seq(DocMoves) /\ Here(node) \in Seq(DocMoves)
        /\ MainLine[node'] \in Seq(DocMoves)
    BY <1>1, <1>2, HereIsMoves, MainLineIsMoves DEF ParsedSgf
  <1> DEFINE moves == game.moves \o Here(node)
  <1>5. moves \in Seq(DocMoves)
    BY <1>4, SeqFacts
  <1>6. game' \in ParsedSgf /\ game'.moves = moves
    <2> HIDE DEF moves
    <2>1. game' = [game EXCEPT !.moves = moves]
      BY <1>3 DEF moves
    <2>2. QED
      BY <1>1, <1>5, <2>1 DEF ParsedSgf
  <1>7. game'.moves \o MainLine[node'] = MainLine[doc.root]
    <2>1. MainLine[node] = Here(node) \o MainLine[node']
      BY <1>1, <1>2, MainLineAt
    <2>2. (game.moves \o Here(node)) \o MainLine[node']
            = game.moves \o (Here(node) \o MainLine[node'])
      <3>1. \A s, u, w \in Seq(DocMoves) : (s \o u) \o w = s \o (u \o w)
        BY SeqFacts
      <3>2. QED
        BY <1>4, <3>1
    <2>3. QED
      BY <1>1, <1>6, <2>1, <2>2
  <1>8. QED
    BY <1>1, <1>2, <1>6, <1>7, DocStays DEF SgfInv, VisitNode, Stages

\* At the end of the line all of it is read.
LEMMA BuildQueryKeeps == ASSUME DocsAreGames, SgfInv, BuildQuery PROVE SgfInv'
  <1>1. /\ IsTree(doc) /\ doc' = doc /\ game' = game /\ body' = body
        /\ game \in ParsedSgf /\ node = None
        /\ game.moves \o MainLine[node] = MainLine[doc.root]
    BY DEF DocsAreGames, SgfInv, BuildQuery
  <1>2. game.moves = MainLine[doc.root]
    <2>1. game.moves \in Seq(DocMoves) /\ MainLine[node] = <<>>
      BY <1>1, MainLineAt DEF ParsedSgf
    <2>2. QED
      BY <1>1, <2>1
  <1>3. /\ query'.id = JobId /\ query'.size = BoardSize /\ query'.moves = MainLine[doc.root]
        /\ body.analyzeTurns \in {Undefined, Null} =>
             query'.analyzeTurns = 0 .. Len(MainLine[doc.root])
    BY <1>1, <1>2, QueryFields DEF BuildQuery
  <1>4. QueryIsOfTheGame'
    BY <1>1, <1>3, DocStays DEF QueryIsOfTheGame, Turns
  <1>5. QED
    BY <1>1, <1>2, <1>4, DocStays DEF SgfInv, BuildQuery, Stages

LEMMA SgfInvStep == ASSUME DocsAreGames, SgfInv, [Next]_vars PROVE SgfInv'
  <1>1. ASSUME UNCHANGED <<doc, body, game, query>>,
               stage \in {"engine", "stored"} \/ stage' # "moves",
               stage' = stage \/ stage' = "failed" \/ (stage = "engine" /\ stage' = "stored")
        PROVE  SgfInv'
    BY <1>1, DocStays DEF SgfInv, Stages, QueryIsOfTheGame, Turns
  <1>2. CASE Unreadable \/ Store \/ EngineFails
    BY <1>1, <1>2 DEF Unreadable, Store, EngineFails
  <1>3. ASSUME NEW t \in 0 .. Len(Lead) - 1, EngineAnswers(t) PROVE SgfInv'
    BY <1>1, <1>3 DEF EngineAnswers
  <1>4. CASE UNCHANGED vars
    BY <1>4, DocStays DEF SgfInv, QueryIsOfTheGame, Turns, vars
  <1>5. QED
    BY <1>2, <1>3, <1>4, ReadRootKeeps, VisitNodeKeeps, BuildQueryKeeps DEF Next, Over

LEMMA SgfInvariant == ASSUME DocsAreGames PROVE Spec => []SgfInv
  <1>1. Init => SgfInv
    BY DEF Init, SgfInv, Stages
  <1>2. QED
    BY <1>1, SgfInvStep, PTL DEF Spec

\* QueryIsOfTheGame: for a game of any length with any variations, and any
\* payload, KatagoService asks the engine about the main line of the game, whole
\* and in order, in GTP's coordinates and under the job's own id.
THEOREM EngineIsAskedAboutTheGame ==
    ASSUME DocsAreGames
    PROVE  Spec => []QueryIsOfTheGame
  <1>1. SgfInv => QueryIsOfTheGame
    BY DEF SgfInv, QueryIsOfTheGame
  <1>2. QED
    BY <1>1, SgfInvariant, PTL

-----------------------------------------------------------------------------
(* The result has each move's own answer                                   *)

\* KataGo's answer for turn t.
Response(t) ==
    [turnNumber |-> t, scoreLead |-> Lead[t + 1],
     moveInfos |-> [k \in DOMAIN Infos |-> [turn |-> t, order |-> Infos[k]]]]

AnsweredOK == answered \subseteq 0 .. Len(Lead) - 1

\* The client's results have one answer for every answered turn.
LEMMA ByTurnIsResponse ==
    ASSUME AnsweredOK, NEW t
    PROVE  ByTurn(t) = IF t \in answered THEN {Response(t)} ELSE {}
  <1> DEFINE key == [u \in answered |-> u]
             n == Cardinality(answered)
             turns == SortedBy(answered, key)
  <1>1. Len(Lead) \in Nat
    BY SgfAssumption
  <1>2. /\ key \in [answered -> Nat] /\ \A y \in answered : key[y] < Len(Lead)
        /\ \A y, z \in answered : key[y] = key[z] => y = z
    BY <1>1 DEF AnsweredOK
  <1>3. n \in Nat /\ turns \in [1 .. n -> answered] /\ \A u \in answered : \E i \in 1 .. n : turns[i] = u
    <2> HIDE DEF key
    <2>1. QED
      BY <1>1, <1>2, SortedByOrders
  <1>4. TurnResponses = [i \in DOMAIN turns |-> Response(turns[i])]
    BY DEF TurnResponses, Response
  <1> HIDE DEF turns, n
  <1>5. ToSet(TurnResponses) = {Response(u) : u \in answered}
    BY <1>3, <1>4 DEF ToSet
  <1>6. \A u : Response(u).turnNumber = u
    BY DEF Response
  <1>7. QED
    BY <1>5, <1>6 DEF ByTurn

\* The best of the position that turn t analysed, best first.
BestOf(t) ==
    [k \in 1 .. (IF Limit < Len(Infos) THEN Limit ELSE Len(Infos)) |->
       [turn |-> t, order |-> k - 1]]

\* The alternatives of a move are those of the turn before it.
LEMMA AlternativesAreBest ==
    ASSUME AnsweredOK, NEW i \in Nat, i - 1 \in answered
    PROVE  Alternatives(i) = BestOf(i - 1)
  <1> DEFINE t == i - 1
             n == Len(Infos)
             S == {[turn |-> t, order |-> k] : k \in 0 .. n - 1}
             key == [m \in S |-> m.order]
             sorted == SortedBy(S, key)
  <1>1. n \in Nat /\ DOMAIN Infos = 1 .. n /\ {Infos[k] : k \in 1 .. n} = 0 .. n - 1 /\ Limit \in Nat
    BY SgfAssumption DEF ToSet
  <1>2. UNION {ToSet(r.moveInfos) : r \in {Response(t)}} = S
    <2>1. ToSet(Response(t).moveInfos) = {[turn |-> t, order |-> Infos[k]] : k \in 1 .. n}
      BY <1>1 DEF Response, ToSet
    <2>2. {[turn |-> t, order |-> Infos[k]] : k \in 1 .. n} = S
      BY <1>1
    <2>3. QED
      BY <2>1, <2>2
  <1>3. Alternatives(i) = SubSeq(sorted, 1, IF Len(sorted) < Limit THEN Len(sorted) ELSE Limit)
    <2>1. ByTurn(i - 1) = {Response(t)}
      BY ByTurnIsResponse
    <2> HIDE DEF S
    <2>2. QED
      BY <1>2, <2>1 DEF Alternatives
  <1>4. sorted = [k \in 1 .. n |-> [turn |-> t, order |-> k - 1]]
    <2>1. \A k \in 0 .. n - 1 : [turn |-> t, order |-> k] \in S
      OBVIOUS
    <2>2. \A x \in S : x.order \in 0 .. n - 1 /\ x = [turn |-> t, order |-> x.order]
      OBVIOUS
    <2> HIDE DEF S, n
    <2>3. \A x \in S : key[x] = x.order /\ x.order \in Nat /\ x.order < n
      BY <1>1, <2>2
    <2>4. \A k \in 0 .. n - 1 : \E x \in S : key[x] = k
      BY <2>1, <2>3
    <2>5. Ranks(S, key, n)
      BY <1>1, <2>2, <2>3, <2>4 DEF Ranks
    <2>6. \A x \in S : x = [turn |-> t, order |-> key[x]]
      BY <2>2, <2>3
    <2> HIDE DEF key, sorted
    <2>7. sorted \in [1 .. n -> S] /\ \A k \in 1 .. n : key[sorted[k]] = k - 1
      BY <2>5, SortedByRank DEF sorted
    <2>8. \A k \in 1 .. n : sorted[k] = [turn |-> t, order |-> k - 1]
      BY <2>6, <2>7
    <2>9. QED
      BY <2>7, <2>8
  <1> HIDE DEF sorted
  <1>5. sorted \in Seq({[turn |-> t, order |-> k - 1] : k \in 1 .. n}) /\ Len(sorted) = n
    BY <1>1, <1>4
  <1>6. QED
    BY <1>1, <1>3, <1>4, <1>5 DEF BestOf

\* What mapMoves makes of the i-th move.
LEMMA MappedMove ==
    ASSUME AnsweredOK, NEW i \in Nat
    PROVE  LET r == MapMove(i) IN
           /\ r.turnNumber = i /\ r.move = game.moves[i]
           /\ i \in answered => r.scoreLead = Lead[i + 1]
           /\ r.leader = "B" => r.scoreLead > 0
           /\ r.leader = "W" => r.scoreLead < 0
           /\ i - 1 \in answered => r.alternatives = BestOf(i - 1)
  <1> DEFINE lead == IF i \in answered THEN Lead[i + 1] ELSE 0
  <1>1. MapMove(i) = [turnNumber |-> i, move |-> game.moves[i], scoreLead |-> lead,
                      leader |-> LeaderFromScoreLead(lead), alternatives |-> Alternatives(i)]
    <2>1. CASE i \in answered
      <3>1. (CHOOSE r \in {Response(i)} : TRUE) = Response(i)
        OBVIOUS
      <3>2. Response(i).scoreLead = Lead[i + 1]
        BY DEF Response
      <3>3. QED
        BY <2>1, <3>1, <3>2, ByTurnIsResponse DEF MapMove
    <2>2. CASE i \notin answered
      BY <2>2, ByTurnIsResponse DEF MapMove
    <2>3. QED
      BY <2>1, <2>2
  <1>2. lead \in Int
    BY SgfAssumption DEF AnsweredOK
  <1>3. /\ LeaderFromScoreLead(lead) = "B" => lead > 0
        /\ LeaderFromScoreLead(lead) = "W" => lead < 0
    BY <1>2 DEF LeaderFromScoreLead
  <1>4. i - 1 \in answered => Alternatives(i) = BestOf(i - 1)
    BY AlternativesAreBest
  <1>5. QED
    BY <1>1, <1>3, <1>4

\* Only turns of the game are answered, and what is stored is right.
ResultInv == AnsweredOK /\ EachMoveHasItsOwnTurn

LEMMA ResultInvStep ==
    ASSUME DocsAreGames, SgfInv, ResultInv, [Next]_vars PROVE ResultInv'
  <1>1. AnsweredOK'
    <2>1. ASSUME NEW t \in 0 .. Len(Lead) - 1, EngineAnswers(t) PROVE AnsweredOK'
      BY <2>1 DEF EngineAnswers, ResultInv, AnsweredOK
    <2>2. CASE answered' = answered
      BY <2>2 DEF ResultInv, AnsweredOK
    <2>3. QED
      BY <2>1, <2>2 DEF Next, ReadRoot, Unreadable, VisitNode, BuildQuery, EngineFails, Store,
                        Over, vars
  <1>2. CASE Store
    <2>1. /\ doc' = doc /\ query' = query /\ Turns = answered
          /\ result' = [i \in DOMAIN game.moves |-> MapMove(i)]
          /\ game \in ParsedSgf /\ game.moves = MainLine[doc.root]
      BY <1>2 DEF Store, SgfInv
    <2>2. DOMAIN game.moves \subseteq Nat
      BY <2>1 DEF ParsedSgf
    <2>3. ASSUME NEW i \in DOMAIN game.moves
          PROVE  LET r == result'[i] IN
                 /\ r.turnNumber = i /\ r.move = MainLine[doc.root][i]
                 /\ i \in Turns => r.scoreLead = Lead[i + 1]
                 /\ r.leader = "B" => r.scoreLead > 0
                 /\ r.leader = "W" => r.scoreLead < 0
                 /\ i - 1 \in Turns => r.alternatives = BestOf(i - 1)
      BY <2>1, <2>2, <2>3, MappedMove DEF ResultInv
    <2>4. DOMAIN result' = DOMAIN MainLine[doc.root] /\ Turns' = Turns
      BY <2>1 DEF Turns
    <2>5. EachMoveHasItsOwnTurn'
      BY <2>1, <2>3, <2>4, DocStays DEF EachMoveHasItsOwnTurn, BestOf
    <2>6. QED
      BY <1>1, <2>5 DEF ResultInv
  <1>3. CASE ~Store
    <2>1. stage' = "stored" => UNCHANGED vars
      BY <1>3 DEF Next, ReadRoot, Unreadable, VisitNode, BuildQuery, EngineAnswers, EngineFails,
                  Over
    <2>2. UNCHANGED vars => EachMoveHasItsOwnTurn'
      BY DocStays DEF ResultInv, EachMoveHasItsOwnTurn, Turns, vars
    <2>3. QED
      BY <1>1, <2>1, <2>2 DEF ResultInv, EachMoveHasItsOwnTurn
  <1>4. QED
    BY <1>2, <1>3

\* EachMoveHasItsOwnTurn: for a game of any length, and any selection
\* of turns, each stored move has the answer to its own turn and the best
\* alternatives of the position before it.
THEOREM MovesHaveTheirOwnTurns ==
    ASSUME DocsAreGames
    PROVE  Spec => []EachMoveHasItsOwnTurn
  <1>1. Init => ResultInv
    BY DEF Init, ResultInv, AnsweredOK, EachMoveHasItsOwnTurn
  <1>2. ResultInv => EachMoveHasItsOwnTurn
    BY DEF ResultInv
  <1>3. QED
    BY <1>1, <1>2, ResultInvStep, SgfInvariant, PTL DEF Spec
=============================================================================
