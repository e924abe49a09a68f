----------------------- MODULE ChangeIngestionProofs -----------------------
(***************************************************************************)
(* Proofs about ChangeIngestion and OpenApiDiff, for any documents,        *)
(* however deep, any vendors and any repositories.                         *)
(*                                                                         *)
(* Induction is over sets of numbers: the depth of a document, the places  *)
(* of a path, the files of a snapshot.  Documents are trees and paths and  *)
(* snapshots are walked by recursive functions; Recursion says that their  *)
(* equations have solutions.                                               *)
(***************************************************************************)
EXTENDS ChangeIngestion, SequenceTheorems, FiniteSetTheorems,
        WellFoundedInduction, TLAPS

(* A set of numbers that has 0, and with each number the next one, has     *)
(* them all.                                                               *)
LEMMA Induction ==
  ASSUME NEW S, 0 \in S, \A n \in Nat : n \in S => n + 1 \in S
  PROVE  Nat \subseteq S
<1> DEFINE T == Nat \ S
<1> SUFFICES ASSUME T # {} PROVE FALSE
  OBVIOUS
<1>1. PICK x \in T : \A y \in T : ~(<<y, x>> \in OpToRel(<, Nat))
  BY NatLessThanWellFounded, WFMin
<1>2. x - 1 \in T /\ x - 1 < x
  OBVIOUS
<1>3. <<x - 1, x>> \in OpToRel(<, Nat)
  BY <1>2 DEF OpToRel
<1> QED
  BY <1>1, <1>2, <1>3

(* A set that has x whenever it has all that ranks below x has everything. *)
LEMMA RankInduction ==
  ASSUME NEW D, NEW rank \in [D -> Nat], NEW S,
         \A x \in D : (\A y \in D : rank[y] < rank[x] => y \in S) => x \in S
  PROVE  D \subseteq S
<1> DEFINE N == {n \in Nat : \A x \in D : rank[x] < n => x \in S}
<1>1. 0 \in N
  OBVIOUS
<1>2. ASSUME NEW n \in Nat, n \in N PROVE n + 1 \in N
  <2>1. ASSUME NEW x \in D, rank[x] < n + 1 PROVE x \in S
    <3>1. \A y \in D : rank[y] < rank[x] => y \in S
      BY <1>2, <2>1
    <3> QED
      BY <3>1
  <2> QED
    BY <2>1
<1>3. Nat \subseteq N
  <2> HIDE DEF N
  <2> QED
    BY <1>1, <1>2, Induction
<1>4. ASSUME NEW x \in D PROVE x \in S
  <2>1. rank[x] + 1 \in N
    BY <1>3
  <2> QED
    BY <2>1
<1> QED
  BY <1>4

(* An equation f = G[f], where G[f][x] depends on f only at what ranks     *)
(* below x, has a solution: two solutions up to some rank agree there, and *)
(* G takes one up to n to one up to n + 1.                                 *)
Descending(G, D, R, rank) ==
  \A f, g \in [D -> R], x \in D :
    (\A y \in D : rank[y] < rank[x] => f[y] = g[y]) => G[f][x] = G[g][x]
Solvable(G, D, R) == \E f \in [D -> R] : f = G[f]
LEMMA Recursion ==
  ASSUME NEW D, NEW R, NEW r \in R, NEW rank \in [D -> Nat],
         NEW G \in [[D -> R] -> [D -> R]], Descending(G, D, R, rank)
  PROVE  Solvable(G, D, R)
<1> USE DEF Descending, Solvable
<1> DEFINE Solves(f, n) == \A x \in D : rank[x] < n => f[x] = G[f][x]
<1>1. ASSUME NEW f \in [D -> R], NEW g \in [D -> R], NEW n \in Nat, NEW m \in Nat,
             Solves(f, n), Solves(g, m)
      PROVE  \A x \in D : rank[x] < n /\ rank[x] < m => f[x] = g[x]
  <2> DEFINE Agree == {k \in Nat : \A x \in D :
                         rank[x] < k /\ rank[x] < n /\ rank[x] < m => f[x] = g[x]}
  <2>1. 0 \in Agree
    OBVIOUS
  <2>2. ASSUME NEW k \in Nat, k \in Agree PROVE k + 1 \in Agree
    <3>1. ASSUME NEW x \in D, rank[x] < k + 1, rank[x] < n, rank[x] < m
          PROVE  f[x] = g[x]
      <4>1. \A y \in D : rank[y] < rank[x] => f[y] = g[y]
        BY <2>2, <3>1
      <4>2. G[f][x] = G[g][x]
        BY <4>1
      <4> QED
        BY <1>1, <3>1, <4>2
    <3> QED
      BY <3>1
  <2>3. Nat \subseteq Agree
    <3> HIDE DEF Agree
    <3> QED
      BY <2>1, <2>2, Induction
  <2>4. ASSUME NEW x \in D, rank[x] < n, rank[x] < m PROVE f[x] = g[x]
    <3>1. rank[x] + 1 \in Agree
      BY <2>3
    <3> QED
      BY <2>4, <3>1
  <2> QED
    BY <2>4
<1> DEFINE S == {n \in Nat : \E f \in [D -> R] : Solves(f, n)}
<1>2. 0 \in S
  <2>2. [x \in D |-> r] \in [D -> R] /\ Solves([x \in D |-> r], 0)
    OBVIOUS
  <2> QED
    BY <2>2
<1>3. ASSUME NEW n \in Nat, n \in S PROVE n + 1 \in S
  <2>1. PICK f \in [D -> R] : Solves(f, n)
    BY <1>3
  <2>2. G[f] \in [D -> R]
    OBVIOUS
  <2>3. ASSUME NEW x \in D, rank[x] < n + 1 PROVE G[f][x] = G[G[f]][x]
    <3>1. \A y \in D : rank[y] < rank[x] => f[y] = G[f][y]
      BY <2>1, <2>3
    <3> QED
      BY <2>2, <3>1
  <2> QED
    BY <2>2, <2>3
<1>4. Nat \subseteq S
  <2> HIDE DEF S
  <2> QED
    BY <1>2, <1>3, Induction
<1> DEFINE F == [n \in Nat |-> CHOOSE f \in [D -> R] : Solves(f, n)]
<1>5. ASSUME NEW n \in Nat PROVE F[n] \in [D -> R] /\ Solves(F[n], n)
  <2>1. \E f \in [D -> R] : Solves(f, n)
    BY <1>4
  <2> QED
    BY <2>1
<1> HIDE DEF F
<1> DEFINE d == [x \in D |-> F[rank[x] + 1][x]]
<1>6. d \in [D -> R]
  BY <1>5
<1>7. ASSUME NEW x \in D PROVE d[x] = G[d][x]
  <2>1. F[rank[x] + 1] \in [D -> R] /\ Solves(F[rank[x] + 1], rank[x] + 1)
    BY <1>5
  <2>2. ASSUME NEW y \in D, rank[y] < rank[x] PROVE d[y] = F[rank[x] + 1][y]
    <3>1. F[rank[y] + 1] \in [D -> R] /\ Solves(F[rank[y] + 1], rank[y] + 1)
      BY <1>5
    <3>2. rank[x] + 1 \in Nat /\ rank[y] + 1 \in Nat
          /\ rank[y] < rank[x] + 1 /\ rank[y] < rank[y] + 1
      BY <2>2
    <3> HIDE DEF Solves
    <3> QED
      BY <1>1, <2>1, <3>1, <3>2
  <2>3. G[d][x] = G[F[rank[x] + 1]][x]
    <3> HIDE DEF d
    <3> QED
      BY <1>6, <2>1, <2>2
  <2>4. F[rank[x] + 1][x] = G[F[rank[x] + 1]][x]
    BY <2>1
  <2> QED
    BY <2>3, <2>4
<1>8. d = G[d]
  <2>1. G[d] \in [D -> R]
    BY <1>6
  <2> HIDE DEF d
  <2> QED
    BY <1>6, <1>7, <2>1
<1> QED
  BY <1>6, <1>8
-----------------------------------------------------------------------------
(* The walk and the nodes of a document solve their equations. *)

Changes ==
  [path : Seq(STRING), kind : {"removed", "added", "changed"},
   before : Values \cup {None}, after : Values \cup {None}]

OnlyIn(f, g) == DOMAIN f.fields \ DOMAIN g.fields
Shared(f, g) == DOMAIN f.fields \cap DOMAIN g.fields
Removed(before, after) ==
  {SpecChange(k, "removed", before.fields[k], None) : k \in OnlyIn(before, after)}
Added(before, after) ==
  {SpecChange(k, "added", None, after.fields[k]) : k \in OnlyIn(after, before)}
Replacement(before, after) ==
  IF Plain[before] # Plain[after] THEN {SpecChange(<<>>, "changed", before, after)} ELSE {}

WalkBy(f, before, after) ==
  IF IsObject(before) /\ IsObject(after)
  THEN Removed(before, after) \cup Added(before, after)
         \cup UNION {Under(k, f[<<before.fields[k], after.fields[k]>>])
                       : k \in Shared(before, after)}
  ELSE Replacement(before, after)
WalkStep(f) == [pair \in Values \X Values |-> WalkBy(f, pair[1], pair[2])]

(* The keys of an object                                                   *)
LEMMA Inside ==
  ASSUME NEW v \in Values, IsObject(v), NEW k \in DOMAIN v.fields
  PROVE  /\ k \in Seq(STRING) /\ k # <<>>
         /\ v.fields[k] \in Values
         /\ Depth[v.fields[k]] \in Nat /\ Depth[v] \in Nat
         /\ Depth[v.fields[k]] < Depth[v]
<1>1. v \in Values /\ IsObject(v) =>
        /\ DOMAIN v.fields \subseteq Seq(STRING) \ {<<>>}
        /\ \A j \in DOMAIN v.fields :
             v.fields[j] \in Values /\ Depth[v.fields[j]] < Depth[v]
  BY ValuesAssumption, Zenon
<1>2. Depth \in [Values -> Nat]
  BY ValuesAssumption
<1> QED
  BY <1>1, <1>2

LEMMA ReplacementType ==
  ASSUME NEW before \in Values, NEW after \in Values
  PROVE  Replacement(before, after) \subseteq Changes
<1>1. <<>> \in Seq(STRING)
  OBVIOUS
<1>2. SpecChange(<<>>, "changed", before, after) \in Changes
  BY <1>1 DEF Changes, SpecChange
<1> QED
  BY <1>2 DEF Replacement

LEMMA OneSidedType ==
  ASSUME NEW before \in Values, NEW after \in Values, IsObject(before), IsObject(after)
  PROVE  Removed(before, after) \subseteq Changes /\ Added(before, after) \subseteq Changes
BY Inside DEF Removed, Added, OnlyIn, Changes, SpecChange

LEMMA UnderType ==
  ASSUME NEW k \in Seq(STRING), NEW changes \in SUBSET Changes
  PROVE  /\ Under(k, changes) \subseteq Changes
         /\ \A c \in changes : [c EXCEPT !.path = k \o c.path].path = k \o c.path
         /\ \A c \in changes : [c EXCEPT !.path = k \o c.path].kind = c.kind
<1>1. ASSUME NEW c \in changes
      PROVE  /\ [c EXCEPT !.path = k \o c.path] \in Changes
             /\ [c EXCEPT !.path = k \o c.path].path = k \o c.path
             /\ [c EXCEPT !.path = k \o c.path].kind = c.kind
  <2>1. k \o c.path \in Seq(STRING)
    BY ConcatProperties DEF Changes
  <2> QED
    BY <2>1 DEF Changes
<1> QED
  BY <1>1 DEF Under

LEMMA WalkIsStep == WalkTree \in [Values \X Values -> SUBSET Changes]
                    /\ WalkTree = WalkStep(WalkTree)
<1> DEFINE D == Values \X Values
           R == SUBSET Changes
           rank == [pair \in D |-> Depth[pair[1]]]
           G == [f \in [D -> R] |-> WalkStep(f)]
<1>1. rank \in [D -> Nat]
  BY ValuesAssumption
<1>2. ASSUME NEW f \in [D -> R] PROVE WalkStep(f) \in [D -> R]
  <2>1. ASSUME NEW before \in Values, NEW after \in Values
        PROVE  WalkBy(f, before, after) \in R
    <3>1. CASE IsObject(before) /\ IsObject(after)
      <4>1. ASSUME NEW k \in Shared(before, after)
            PROVE  Under(k, f[<<before.fields[k], after.fields[k]>>]) \subseteq Changes
        <5>1. <<before.fields[k], after.fields[k]>> \in D /\ k \in Seq(STRING)
          BY <3>1, Inside DEF Shared
        <5> QED
          BY <5>1, UnderType
      <4> QED
        BY <3>1, <4>1, OneSidedType DEF WalkBy
    <3>2. CASE ~(IsObject(before) /\ IsObject(after))
      BY <3>2, ReplacementType DEF WalkBy
    <3> QED
      BY <3>1, <3>2
  <2> QED
    BY <2>1 DEF WalkStep
<1>3. G \in [[D -> R] -> [D -> R]]
  BY <1>2
<1>4. ASSUME NEW f, NEW g, NEW x \in D,
             \A y \in D : rank[y] < rank[x] => f[y] = g[y]
      PROVE  WalkStep(f)[x] = WalkStep(g)[x]
  <2>1. WalkBy(f, x[1], x[2]) = WalkBy(g, x[1], x[2])
    <3>1. CASE IsObject(x[1]) /\ IsObject(x[2])
      <4>1. ASSUME NEW k \in Shared(x[1], x[2])
            PROVE  f[<<x[1].fields[k], x[2].fields[k]>>]
                     = g[<<x[1].fields[k], x[2].fields[k]>>]
        BY <1>4, <3>1, Inside DEF Shared
      <4> QED
        BY <4>1, ZenonT(30) DEF WalkBy
    <3>2. CASE ~(IsObject(x[1]) /\ IsObject(x[2]))
      BY <3>2 DEF WalkBy
    <3> QED
      BY <3>1, <3>2
  <2> QED
    BY <2>1 DEF WalkStep
<1>5. Descending(G, D, R, rank)
  <2>1. ASSUME NEW f \in [D -> R] PROVE G[f] = WalkStep(f)
    OBVIOUS
  <2> HIDE DEF G, D, R, rank
  <2>2. ASSUME NEW f \in [D -> R], NEW g \in [D -> R], NEW x \in D,
               \A y \in D : rank[y] < rank[x] => f[y] = g[y]
        PROVE  G[f][x] = G[g][x]
    <3>1. WalkStep(f)[x] = WalkStep(g)[x]
      BY <1>4, <2>2
    <3> QED
      BY <2>1, <3>1
  <2> QED
    BY <2>2 DEF Descending
<1>6. PICK f \in [D -> R] : f = WalkStep(f)
  <2>1. {} \in R
    OBVIOUS
  <2>2. Solvable(G, D, R)
    <3> HIDE DEF D, R, rank, G
    <3> QED
      BY ONLY <1>1, <1>3, <1>5, <2>1, Recursion
  <2> QED
    BY <2>2 DEF Solvable
<1>7. WalkTree = WalkStep(WalkTree)
  <2>1. WalkTree = CHOOSE h : h = WalkStep(h)
    BY Zenon DEF WalkTree, WalkStep, WalkBy, Removed, Added, OnlyIn, Shared, Replacement
  <2> QED
    BY <1>6, <2>1, Zenon
<1> DEFINE Same == {x \in D : WalkTree[x] = f[x]}
<1>8. D \subseteq Same
  <2>1. ASSUME NEW x \in D, \A y \in D : rank[y] < rank[x] => WalkTree[y] = f[y]
        PROVE  WalkTree[x] = f[x]
    <3>1. WalkStep(WalkTree)[x] = WalkStep(f)[x]
      BY <1>4, <2>1, SMTT(30)
    <3> QED
      BY <1>6, <1>7, <3>1, Zenon
  <2>2. \A x \in D : (\A y \in D : rank[y] < rank[x] => y \in Same) => x \in Same
    BY <2>1
  <2> HIDE DEF D, rank, Same
  <2> QED
    BY ONLY <1>1, <2>2, RankInduction
<1>9. WalkTree = [x \in D |-> WalkTree[x]]
  BY <1>7, Zenon DEF WalkStep
<1> QED
  BY <1>7, <1>8, <1>9

AllNodes ==
  [at : Seq(Seq(STRING)), path : Seq(STRING), value : {Shape(v) : v \in Values}]

NodesBy(f, v) ==
  {Node(<<>>, <<>>, Shape(v))} \cup
    IF IsObject(v) THEN UNION {Below(k, f[v.fields[k]]) : k \in DOMAIN v.fields} ELSE {}
NodesStep(f) == [v \in Values |-> NodesBy(f, v)]

LEMMA BelowType ==
  ASSUME NEW k \in Seq(STRING), NEW nodes \in SUBSET AllNodes
  PROVE  Below(k, nodes) \subseteq AllNodes
<1>1. ASSUME NEW n \in nodes
      PROVE  Node(<<k>> \o n.at, k \o n.path, n.value) \in AllNodes
  <2>1. <<k>> \in Seq(Seq(STRING)) /\ n.at \in Seq(Seq(STRING)) /\ n.path \in Seq(STRING)
    BY DEF AllNodes
  <2>2. <<k>> \o n.at \in Seq(Seq(STRING)) /\ k \o n.path \in Seq(STRING)
    BY <2>1, ConcatProperties
  <2> QED
    BY <2>2 DEF AllNodes, Node
<1> QED
  BY <1>1 DEF Below

LEMMA NodesIsStep == Nodes \in [Values -> SUBSET AllNodes] /\ Nodes = NodesStep(Nodes)
<1> DEFINE R == SUBSET AllNodes
           G == [f \in [Values -> R] |-> NodesStep(f)]
<1>1. Depth \in [Values -> Nat]
  BY ValuesAssumption
<1>2. ASSUME NEW f \in [Values -> R] PROVE NodesStep(f) \in [Values -> R]
  <2>1. ASSUME NEW v \in Values PROVE NodesBy(f, v) \in R
    <3>1. Node(<<>>, <<>>, Shape(v)) \in AllNodes
      <4>1. <<>> \in Seq(STRING) /\ <<>> \in Seq(Seq(STRING))
        OBVIOUS
      <4> QED
        BY <4>1 DEF Node, AllNodes
    <3>2. CASE IsObject(v)
      <4>1. ASSUME NEW k \in DOMAIN v.fields
            PROVE  Below(k, f[v.fields[k]]) \subseteq AllNodes
        BY <3>2, Inside, BelowType
      <4> QED
        BY <3>1, <3>2, <4>1 DEF NodesBy
    <3>3. CASE ~IsObject(v)
      BY <3>1, <3>3 DEF NodesBy
    <3> QED
      BY <3>2, <3>3
  <2> QED
    BY <2>1 DEF NodesStep
<1>3. G \in [[Values -> R] -> [Values -> R]]
  BY <1>2
<1>4. ASSUME NEW f, NEW g, NEW x \in Values,
             \A y \in Values : Depth[y] < Depth[x] => f[y] = g[y]
      PROVE  NodesStep(f)[x] = NodesStep(g)[x]
  <2>1. NodesBy(f, x) = NodesBy(g, x)
    <3>1. CASE IsObject(x)
      <4>1. ASSUME NEW k \in DOMAIN x.fields PROVE f[x.fields[k]] = g[x.fields[k]]
        BY <1>4, <3>1, Inside
      <4> QED
        BY <4>1 DEF NodesBy
    <3>2. CASE ~IsObject(x)
      BY <3>2 DEF NodesBy
    <3> QED
      BY <3>1, <3>2
  <2> QED
    BY <2>1 DEF NodesStep
<1>5. Descending(G, Values, R, Depth)
  <2>1. ASSUME NEW f \in [Values -> R] PROVE G[f] = NodesStep(f)
    OBVIOUS
  <2> HIDE DEF G, R
  <2>2. ASSUME NEW f \in [Values -> R], NEW g \in [Values -> R], NEW x \in Values,
               \A y \in Values : Depth[y] < Depth[x] => f[y] = g[y]
        PROVE  G[f][x] = G[g][x]
    <3>1. NodesStep(f)[x] = NodesStep(g)[x]
      BY <1>4, <2>2
    <3> QED
      BY <2>1, <3>1
  <2> QED
    BY <2>2 DEF Descending
<1>6. PICK f \in [Values -> R] : f = NodesStep(f)
  <2>1. {} \in R
    OBVIOUS
  <2>2. Solvable(G, Values, R)
    <3> HIDE DEF R, G
    <3> QED
      BY ONLY <1>1, <1>3, <1>5, <2>1, Recursion
  <2> QED
    BY <2>2 DEF Solvable
<1>7. Nodes = NodesStep(Nodes)
  <2>1. Nodes = CHOOSE h : h = NodesStep(h)
    BY Zenon DEF Nodes, NodesStep, NodesBy
  <2> QED
    BY <1>6, <2>1, Zenon
<1> DEFINE Same == {x \in Values : Nodes[x] = f[x]}
<1>8. Values \subseteq Same
  <2>1. ASSUME NEW x \in Values, \A y \in Values : Depth[y] < Depth[x] => Nodes[y] = f[y]
        PROVE  Nodes[x] = f[x]
    <3>1. NodesStep(Nodes)[x] = NodesStep(f)[x]
      BY <1>4, <2>1
    <3> QED
      BY <1>6, <1>7, <3>1, Zenon
  <2>2. \A x \in Values :
          (\A y \in Values : Depth[y] < Depth[x] => y \in Same) => x \in Same
    BY <2>1
  <2> HIDE DEF Same
  <2> QED
    BY ONLY <1>1, <2>2, RankInduction
<1>9. Nodes = [x \in Values |-> Nodes[x]]
  BY <1>7, Zenon DEF NodesStep
<1> QED
  BY <1>7, <1>8, <1>9

(* The two equations as they are used                                      *)
LEMMA WalkOf ==
  ASSUME NEW before \in Values, NEW after \in Values
  PROVE  /\ Walk(before, after) \subseteq Changes
         /\ IsObject(before) /\ IsObject(after) =>
              Walk(before, after) =
                Removed(before, after) \cup Added(before, after)
                  \cup UNION {Under(k, Walk(before.fields[k], after.fields[k]))
                                : k \in Shared(before, after)}
         /\ ~(IsObject(before) /\ IsObject(after)) =>
              Walk(before, after) = Replacement(before, after)
<1>1. WalkTree[<<before, after>>] = WalkBy(WalkTree, before, after)
  <2>1. WalkStep(WalkTree)[<<before, after>>] = WalkBy(WalkTree, before, after)
    BY DEF WalkStep
  <2> QED
    BY <2>1, WalkIsStep, Zenon
<1>2. WalkTree[<<before, after>>] \subseteq Changes
  BY WalkIsStep
<1> QED
  BY <1>1, <1>2 DEF Walk, WalkBy

LEMMA NodesOf ==
  ASSUME NEW v \in Values
  PROVE  /\ Nodes[v] \subseteq AllNodes
         /\ IsObject(v) =>
              Nodes[v] = {Node(<<>>, <<>>, Shape(v))}
                           \cup UNION {Below(k, Nodes[v.fields[k]]) : k \in DOMAIN v.fields}
         /\ ~IsObject(v) => Nodes[v] = {Node(<<>>, <<>>, Shape(v))}
<1>1. Nodes[v] = NodesBy(Nodes, v)
  <2>1. NodesStep(Nodes)[v] = NodesBy(Nodes, v)
    BY DEF NodesStep
  <2> QED
    BY <2>1, NodesIsStep, Zenon
<1>2. Nodes[v] \subseteq AllNodes
  BY NodesIsStep
<1> QED
  BY <1>1, <1>2 DEF NodesBy

-----------------------------------------------------------------------------
(* Nodes and the addresses that lead to them *)

Address == Seq(Seq(STRING))
Top(v) == Node(<<>>, <<>>, Shape(v))
Lift(k, n) == Node(<<k>> \o n.at, k \o n.path, n.value)

LEMMA PrefixMeans ==
  ASSUME NEW S, NEW s \in Seq(S), NEW t \in Seq(S)
  PROVE  IsPrefix(s, t) <=>
           Len(s) <= Len(t) /\ \A i \in 1 .. Len(s) : s[i] = t[i]
<1>1. SubSeq(s, 1, Len(s)) = s
  BY SubSeqFull
<1>2. ASSUME Len(s) <= Len(t)
      PROVE  SubSeq(t, 1, Len(s)) = s <=> \A i \in 1 .. Len(s) : s[i] = t[i]
  <2>1. /\ SubSeq(t, 1, Len(s)) \in Seq(S)
        /\ Len(SubSeq(t, 1, Len(s))) = Len(s)
        /\ \A i \in 1 .. Len(s) : SubSeq(t, 1, Len(s))[i] = t[i]
    BY <1>2
  <2> QED
    BY <2>1, SeqEqual
<1> QED
  BY <1>1, <1>2 DEF IsPrefix

(* One key more in front                                                   *)
LEMMA InFront ==
  ASSUME NEW k \in Seq(STRING), NEW x \in Address
  PROVE  /\ <<k>> \o x \in Address
         /\ Len(<<k>> \o x) = 1 + Len(x)
         /\ (<<k>> \o x)[1] = k
         /\ \A i \in 1 .. Len(x) : (<<k>> \o x)[i + 1] = x[i]
         /\ <<k>> \o x # <<>>
<1>1. <<k>> \in Address /\ Len(<<k>>) = 1 /\ <<k>>[1] = k
  BY DEF Address
<1>2. /\ <<k>> \o x \in Address
      /\ Len(<<k>> \o x) = 1 + Len(x)
      /\ \A i \in 1 .. 1 + Len(x) :
           (<<k>> \o x)[i] = IF i <= 1 THEN <<k>>[i] ELSE x[i - 1]
  BY <1>1, ConcatProperties DEF Address
<1>3. Len(x) \in Nat
  BY DEF Address
<1> HIDE DEF Address
<1>4. ASSUME NEW i \in 1 .. Len(x) PROVE (<<k>> \o x)[i + 1] = x[i]
  <2>1. i + 1 \in 1 .. 1 + Len(x) /\ ~(i + 1 <= 1) /\ (i + 1) - 1 = i
    BY <1>3
  <2> QED
    BY <1>2, <2>1
<1>5. (<<k>> \o x)[1] = k
  BY <1>1, <1>2, <1>3
<1>6. <<k>> \o x # <<>>
  BY <1>2, <1>3
<1> QED
  BY <1>2, <1>4, <1>5, <1>6

LEMMA FrontOrder ==
  ASSUME NEW k \in Seq(STRING), NEW j \in Seq(STRING),
         NEW x \in Address, NEW y \in Address
  PROVE  /\ <<k>> \o x = <<j>> \o y <=> k = j /\ x = y
         /\ IsPrefix(<<k>> \o x, <<j>> \o y) <=> k = j /\ IsPrefix(x, y)
         /\ IsPrefix(<<>>, y)
         /\ ~IsPrefix(<<k>> \o x, <<>>)
         /\ ~IsStrictPrefix(x, <<>>)
<1> DEFINE kx == <<k>> \o x
           jy == <<j>> \o y
<1>1. /\ kx \in Address /\ Len(kx) = 1 + Len(x) /\ kx[1] = k
      /\ \A i \in 1 .. Len(x) : kx[i + 1] = x[i]
      /\ jy \in Address /\ Len(jy) = 1 + Len(y) /\ jy[1] = j
      /\ \A i \in 1 .. Len(y) : jy[i + 1] = y[i]
  BY InFront
<1>2. Len(x) \in Nat /\ Len(y) \in Nat
  BY DEF Address
<1>3. <<>> \in Address /\ Len(<<>>) = 0
  BY DEF Address
<1>4. \A s, t \in Address : IsPrefix(s, t) <=>
        Len(s) <= Len(t) /\ \A i \in 1 .. Len(s) : s[i] = t[i]
  BY PrefixMeans DEF Address
<1>5. \A s, t \in Address : s = t <=>
        Len(s) = Len(t) /\ \A i \in 1 .. Len(s) : s[i] = t[i]
  BY SeqEqual DEF Address
<1> HIDE DEF kx, jy
<1>6. ASSUME Len(x) <= Len(y)
      PROVE  (\A i \in 1 .. Len(kx) : kx[i] = jy[i]) <=>
               k = j /\ \A i \in 1 .. Len(x) : x[i] = y[i]
  <2>1. ASSUME \A i \in 1 .. Len(kx) : kx[i] = jy[i]
        PROVE  k = j /\ \A i \in 1 .. Len(x) : x[i] = y[i]
    <3>1. k = j
      BY <1>1, <1>2, <2>1
    <3>2. ASSUME NEW i \in 1 .. Len(x) PROVE x[i] = y[i]
      <4>1. i + 1 \in 1 .. Len(kx) /\ i \in 1 .. Len(y)
        BY <1>1, <1>2, <1>6
      <4>2. kx[i + 1] = jy[i + 1]
        BY <2>1, <4>1
      <4> QED
        BY <1>1, <4>1, <4>2
    <3> QED
      BY <3>1, <3>2
  <2>2. ASSUME k = j, \A i \in 1 .. Len(x) : x[i] = y[i], NEW i \in 1 .. Len(kx)
        PROVE  kx[i] = jy[i]
    <3>1. CASE i = 1
      BY <1>1, <2>2, <3>1
    <3>2. CASE i # 1
      <4>1. i - 1 \in 1 .. Len(x) /\ i - 1 \in 1 .. Len(y) /\ (i - 1) + 1 = i
        BY <1>1, <1>2, <1>6, <3>2
      <4> QED
        BY <1>1, <2>2, <4>1
    <3> QED
      BY <3>1, <3>2
  <2> QED
    BY <2>1, <2>2
<1>7. IsPrefix(kx, jy) <=> k = j /\ IsPrefix(x, y)
  <2>1. IsPrefix(kx, jy) <=>
          Len(kx) <= Len(jy) /\ \A i \in 1 .. Len(kx) : kx[i] = jy[i]
    BY <1>1, <1>4
  <2>2. IsPrefix(x, y) <=> Len(x) <= Len(y) /\ \A i \in 1 .. Len(x) : x[i] = y[i]
    BY <1>4
  <2>3. Len(kx) <= Len(jy) <=> Len(x) <= Len(y)
    BY <1>1, <1>2
  <2> QED
    BY <1>6, <2>1, <2>2, <2>3
<1>8. kx = jy <=> k = j /\ x = y
  <2>1. kx = jy <=> Len(kx) = Len(jy) /\ \A i \in 1 .. Len(kx) : kx[i] = jy[i]
    BY <1>1, <1>5
  <2>2. x = y <=> Len(x) = Len(y) /\ \A i \in 1 .. Len(x) : x[i] = y[i]
    BY <1>5
  <2>3. Len(kx) = Len(jy) <=> Len(x) = Len(y)
    BY <1>1, <1>2
  <2>4. Len(x) = Len(y) => Len(x) <= Len(y)
    BY <1>2
  <2> QED
    BY <1>6, <2>1, <2>2, <2>3, <2>4
<1>9. IsPrefix(<<>>, y) /\ ~IsPrefix(kx, <<>>)
  BY <1>1, <1>2, <1>3, <1>4
<1>10. ~IsStrictPrefix(x, <<>>)
  BY <1>2, <1>3, <1>4, <1>5 DEF IsStrictPrefix
<1> QED
  BY <1>7, <1>8, <1>9, <1>10 DEF kx, jy

LEMMA LiftOf ==
  ASSUME NEW k \in Seq(STRING), NEW n \in AllNodes
  PROVE  /\ Lift(k, n) \in AllNodes
         /\ Lift(k, n).at = <<k>> \o n.at
         /\ Lift(k, n).path = k \o n.path
         /\ Lift(k, n).value = n.value
         /\ Lift(k, n).at # <<>>
         /\ n.at \in Address /\ n.path \in Seq(STRING)
<1>1. n.at \in Address /\ n.path \in Seq(STRING)
  BY DEF AllNodes, Address
<1>2. Lift(k, n) \in Below(k, {n})
  BY DEF Below, Lift
<1>3. Lift(k, n) \in AllNodes
  BY <1>2, BelowType
<1>4. <<k>> \o n.at # <<>>
  BY <1>1, InFront
<1> QED
  BY <1>1, <1>3, <1>4 DEF Lift, Node

LEMMA LiftInjective ==
  ASSUME NEW k \in Seq(STRING), NEW n \in AllNodes,
         NEW j \in Seq(STRING), NEW m \in AllNodes
  PROVE  Lift(k, n) = Lift(j, m) <=> k = j /\ n = m
<1> DEFINE u == Lift(k, n)
           v == Lift(j, m)
<1>1. /\ u.at = <<k>> \o n.at /\ u.path = k \o n.path /\ u.value = n.value
      /\ v.at = <<j>> \o m.at /\ v.path = j \o m.path /\ v.value = m.value
      /\ n.at \in Address /\ n.path \in Seq(STRING)
      /\ m.at \in Address /\ m.path \in Seq(STRING)
  BY LiftOf
<1> HIDE DEF u, v
<1>2. ASSUME u = v PROVE k = j /\ n = m
  <2>1. <<k>> \o n.at = <<j>> \o m.at
    BY <1>1, <1>2, Zenon
  <2>2. k = j /\ n.at = m.at
    <3>1. \A x, y \in Address : <<k>> \o x = <<j>> \o y => k = j /\ x = y
      BY FrontOrder
    <3> QED
      BY <1>1, <2>1, <3>1, Zenon
  <2>3. k \o n.path = k \o m.path
    BY <1>1, <1>2, <2>2, Zenon
  <2>4. n.path = m.path
    BY <1>1, <2>3, ConcatSimplifications
  <2>5. n.value = m.value
    BY <1>1, <1>2, Zenon
  <2> QED
    <3> DEFINE V == {Shape(x) : x \in Values}
    <3>1. n \in [at : Seq(Seq(STRING)), path : Seq(STRING), value : V]
      BY DEF AllNodes
    <3>2. m \in [at : Seq(Seq(STRING)), path : Seq(STRING), value : V]
      BY DEF AllNodes
    <3> HIDE DEF V
    <3>3. n = [at |-> n.at, path |-> n.path, value |-> n.value]
      BY <3>1
    <3>4. m = [at |-> m.at, path |-> m.path, value |-> m.value]
      BY <3>2
    <3>5. n = m
      BY <2>2, <2>4, <2>5, <3>3, <3>4, Zenon
    <3> QED
      BY <2>2, <3>5
<1> QED
  BY <1>2 DEF u, v

(* The nodes of an object are its own and those of its fields, one key     *)
(* deeper.                                                                 *)
LEMMA NodesBelow ==
  ASSUME NEW v \in Values, IsObject(v)
  PROVE  /\ Top(v) = Node(<<>>, <<>>, Object(<<>>)) /\ Top(v) \in Nodes[v]
         /\ \A k \in Seq(STRING), n \in AllNodes :
              Lift(k, n) \in Nodes[v] <=> k \in DOMAIN v.fields /\ n \in Nodes[v.fields[k]]
         /\ \A m \in Nodes[v] : m = Top(v) \/
              \E k \in DOMAIN v.fields : \E n \in Nodes[v.fields[k]] :
                k \in Seq(STRING) /\ n \in AllNodes /\ m = Lift(k, n)
<1>1. Nodes[v] = {Top(v)} \cup UNION {Below(k, Nodes[v.fields[k]]) : k \in DOMAIN v.fields}
  BY NodesOf DEF Top
<1>2. \A k \in DOMAIN v.fields :
        k \in Seq(STRING) /\ v.fields[k] \in Values /\ Nodes[v.fields[k]] \subseteq AllNodes
  BY Inside, NodesOf
<1>3. \A k : Below(k, Nodes[v.fields[k]]) = {Lift(k, n) : n \in Nodes[v.fields[k]]}
  BY DEF Below, Lift
<1>4. Top(v) = Node(<<>>, <<>>, Object(<<>>))
  BY DEF Top, Shape
<1>5. Top(v).at = <<>>
  BY DEF Top, Node
<1>6. ASSUME NEW k \in Seq(STRING), NEW n \in AllNodes
      PROVE  Lift(k, n) \in Nodes[v] <=> k \in DOMAIN v.fields /\ n \in Nodes[v.fields[k]]
  <2>1. Lift(k, n) # Top(v)
    BY <1>5, LiftOf, Zenon
  <2>2. ASSUME NEW j \in DOMAIN v.fields, NEW m \in Nodes[v.fields[j]],
               Lift(k, n) = Lift(j, m)
        PROVE  k = j /\ n = m
    <3>1. j \in Seq(STRING) /\ m \in AllNodes
      BY <1>2
    <3>2. Lift(k, n) = Lift(j, m) <=> k = j /\ n = m
      BY <3>1, LiftInjective
    <3> QED
      BY <2>2, <3>2, Zenon
  <2>3. ASSUME Lift(k, n) \in Nodes[v]
        PROVE  k \in DOMAIN v.fields /\ n \in Nodes[v.fields[k]]
    <3>3. PICK j \in DOMAIN v.fields : Lift(k, n) \in Below(j, Nodes[v.fields[j]])
      BY <1>1, <2>1, <2>3
    <3>4. PICK m \in Nodes[v.fields[j]] : Lift(k, n) = Lift(j, m)
      <4>1. Lift(k, n) \in {Lift(j, m) : m \in Nodes[v.fields[j]]}
        BY <1>3, <3>3, Zenon
      <4> QED
        BY <4>1
    <3>5. k = j /\ n = m
      BY <2>2, <3>4
    <3> QED
      BY <3>5
  <2>4. ASSUME k \in DOMAIN v.fields, n \in Nodes[v.fields[k]]
        PROVE  Lift(k, n) \in Nodes[v]
    <3>1. Lift(k, n) \in Below(k, Nodes[v.fields[k]])
      BY <1>3, <2>4
    <3> QED
      BY <1>1, <2>4, <3>1
  <2> QED
    BY <2>3, <2>4
<1>7. ASSUME NEW m \in Nodes[v], m # Top(v)
      PROVE  \E k \in DOMAIN v.fields : \E n \in Nodes[v.fields[k]] :
               k \in Seq(STRING) /\ n \in AllNodes /\ m = Lift(k, n)
  <2>1. PICK k \in DOMAIN v.fields : m \in Below(k, Nodes[v.fields[k]])
    BY <1>1, <1>7
  <2>2. PICK n \in Nodes[v.fields[k]] : m = Lift(k, n)
    BY <1>3, <2>1
  <2>3. k \in Seq(STRING) /\ n \in AllNodes
    BY <1>2
  <2> QED
    BY <2>2, <2>3
<1> QED
  BY <1>1, <1>4, <1>6, <1>7

(* The node of a value itself is the only one without an address.          *)
LEMMA TopOf ==
  ASSUME NEW v \in Values
  PROVE  /\ Top(v) \in Nodes[v] /\ Nodes[v] \subseteq AllNodes
         /\ Top(v).at = <<>> /\ Top(v).path = <<>>
         /\ \A n \in Nodes[v] : n.at = <<>> => n = Top(v)
         /\ ~IsObject(v) => Nodes[v] = {Top(v)} /\ Top(v).value = Plain[v]
         /\ IsObject(v) => IsObject(Top(v).value)
         /\ \A w \in Values : Top(v) = Top(w) => (IsObject(v) <=> IsObject(w))
         /\ \A w \in Values : Top(v) = Top(w) /\ ~IsObject(v) => Plain[v] = Plain[w]
<1>1. Top(v).at = <<>> /\ Top(v).path = <<>> /\ Top(v).value = Shape(v)
  BY DEF Top, Node
<1>2. \A w \in Values : Top(w).value = Shape(w)
  BY DEF Top, Node
<1>3. \A w \in Values : IsObject(Shape(w)) <=> IsObject(w)
  BY ValuesAssumption DEF Shape, IsObject, Object
<1>4. Nodes[v] \subseteq AllNodes
  BY NodesOf
<1>5. CASE IsObject(v)
  <2>1. ASSUME NEW n \in Nodes[v], n.at = <<>> PROVE n = Top(v)
    BY <1>5, <2>1, NodesBelow, LiftOf, Zenon
  <2> QED
    BY <1>1, <1>2, <1>3, <1>4, <1>5, <2>1, NodesBelow, Zenon
<1>6. CASE ~IsObject(v)
  <2>1. Nodes[v] = {Top(v)}
    BY <1>6, NodesOf DEF Top
  <2>2. Shape(v) = Plain[v]
    BY <1>6 DEF Shape
  <2>3. ASSUME NEW w \in Values, Top(v) = Top(w) PROVE Plain[v] = Plain[w]
    <3>1. Shape(v) = Shape(w)
      BY <1>1, <1>2, <2>3
    <3> QED
      BY <1>3, <1>6, <2>2, <3>1 DEF Shape
  <2> QED
    BY <1>1, <1>2, <1>3, <1>4, <1>6, <2>1, <2>2, <2>3
<1> QED
  BY <1>5, <1>6

LEMMA PlacesBelow ==
  ASSUME NEW v \in Values, IsObject(v), NEW k \in Seq(STRING), NEW x \in Address
  PROVE  <<k>> \o x \in Places(v) <=>
           k \in DOMAIN v.fields /\ x \in Places(v.fields[k])
<1>1. ASSUME <<k>> \o x \in Places(v)
      PROVE  k \in DOMAIN v.fields /\ x \in Places(v.fields[k])
  <2>1. PICK m \in Nodes[v] : m.at = <<k>> \o x
    BY <1>1 DEF Places
  <2>2. m # Top(v)
    <3>1. <<k>> \o x # <<>>
      BY InFront
    <3> QED
      BY <2>1, <3>1, TopOf, Zenon
  <2> PICK j \in DOMAIN v.fields : \E n \in Nodes[v.fields[j]] :
             j \in Seq(STRING) /\ n \in AllNodes /\ m = Lift(j, n)
    BY <2>2, NodesBelow, Zenon
  <2>3. PICK n \in Nodes[v.fields[j]] :
          j \in Seq(STRING) /\ n \in AllNodes /\ m = Lift(j, n)
    OBVIOUS
  <2>4. m.at = <<j>> \o n.at /\ n.at \in Address
    BY <2>3, LiftOf
  <2>5. k = j /\ x = n.at
    <3>1. \A y \in Address : <<k>> \o x = <<j>> \o y => k = j /\ x = y
      BY <2>3, FrontOrder, SMTT(30)
    <3> QED
      BY <2>1, <2>4, <3>1, Zenon
  <2> QED
    BY <2>3, <2>5 DEF Places
<1>2. ASSUME k \in DOMAIN v.fields, x \in Places(v.fields[k])
      PROVE  <<k>> \o x \in Places(v)
  <2>1. PICK n \in Nodes[v.fields[k]] : n.at = x
    BY <1>2 DEF Places
  <2>2. n \in AllNodes
    BY <1>2, Inside, NodesOf
  <2>3. Lift(k, n) \in Nodes[v] /\ Lift(k, n).at = <<k>> \o x
    BY <1>2, <2>1, <2>2, NodesBelow, LiftOf, Zenon
  <2> QED
    BY <2>3 DEF Places
<1> QED
  BY <1>1, <1>2

-----------------------------------------------------------------------------
(* The diff is exact *)

LEMMA FieldOf ==
  ASSUME NEW before \in Values, NEW after \in Values,
         IsObject(before), IsObject(after)
  PROVE  /\ \A k \in DOMAIN before.fields :
              k \in Seq(STRING) /\ before.fields[k] \in Values
         /\ \A k \in DOMAIN after.fields :
              k \in Seq(STRING) /\ after.fields[k] \in Values
         /\ \A k \in Shared(before, after) :
              /\ k \in DOMAIN before.fields /\ k \in DOMAIN after.fields
              /\ k \in Seq(STRING)
              /\ before.fields[k] \in Values /\ after.fields[k] \in Values
              /\ Depth[before.fields[k]] < Depth[before]
BY Inside DEF Shared

(* Documents without a change are alike.                                   *)
LEMMA NoChangeMeansAlike ==
  ASSUME NEW before \in Values, NEW after \in Values, Walk(before, after) = {}
  PROVE  Nodes[before] = Nodes[after]
<1> DEFINE S == {v \in Values : \A w \in Values : Walk(v, w) = {} => Nodes[v] = Nodes[w]}
<1>1. ASSUME NEW v \in Values, \A u \in Values : Depth[u] < Depth[v] => u \in S,
             NEW w \in Values, Walk(v, w) = {}
      PROVE  Nodes[v] = Nodes[w]
  <2>1. CASE IsObject(v) /\ IsObject(w)
    <3>1. /\ Removed(v, w) = {} /\ Added(v, w) = {}
          /\ \A k \in Shared(v, w) : Under(k, Walk(v.fields[k], w.fields[k])) = {}
      <4>1. Removed(v, w) \cup Added(v, w)
              \cup UNION {Under(k, Walk(v.fields[k], w.fields[k])) : k \in Shared(v, w)} = {}
        BY <1>1, <2>1, WalkOf
      <4> HIDE DEF S
      <4> QED
        BY ONLY <4>1
    <3>2. OnlyIn(v, w) = {} /\ OnlyIn(w, v) = {}
      BY <3>1 DEF Removed, Added
    <3>3. DOMAIN v.fields = DOMAIN w.fields /\ Shared(v, w) = DOMAIN v.fields
      BY <3>2 DEF OnlyIn, Shared
    <3>4. ASSUME NEW k \in DOMAIN v.fields PROVE Nodes[v.fields[k]] = Nodes[w.fields[k]]
      <4>1. Walk(v.fields[k], w.fields[k]) = {}
        <5>1. Under(k, Walk(v.fields[k], w.fields[k])) = {}
          BY <3>1, <3>3
        <5> HIDE DEF S
        <5>2. \A changes : Under(k, changes) = {} => changes = {}
          BY DEF Under
        <5> QED
          BY <5>1, <5>2
      <4>2. v.fields[k] \in S /\ w.fields[k] \in Values
        BY <1>1, <2>1, <3>3, FieldOf
      <4> QED
        BY <4>1, <4>2
    <3>5. /\ Nodes[v] = {Top(v)} \cup UNION {Below(k, Nodes[v.fields[k]]) : k \in DOMAIN v.fields}
          /\ Nodes[w] = {Top(w)} \cup UNION {Below(k, Nodes[w.fields[k]]) : k \in DOMAIN w.fields}
      BY <2>1, NodesOf DEF Top
    <3>6. Top(v) = Top(w)
      BY <2>1 DEF Top, Shape
    <3> HIDE DEF S
    <3>7. ASSUME NEW k \in DOMAIN v.fields
          PROVE  Below(k, Nodes[v.fields[k]]) = Below(k, Nodes[w.fields[k]])
      BY <3>4
    <3> QED
      BY <3>3, <3>5, <3>6, <3>7
  <2>2. CASE ~(IsObject(v) /\ IsObject(w))
    <3>1. Replacement(v, w) = {}
      BY <1>1, <2>2, WalkOf
    <3>2. Plain[v] = Plain[w]
      BY <3>1 DEF Replacement
    <3>3. ~IsObject(v) /\ ~IsObject(w)
      BY <2>2, <3>2, ValuesAssumption DEF IsObject
    <3>4. Nodes[v] = {Top(v)} /\ Nodes[w] = {Top(w)}
      BY <3>3, TopOf
    <3>5. Top(v) = Top(w)
      BY <3>2, <3>3 DEF Top, Shape
    <3> QED
      BY <3>4, <3>5
  <2> QED
    BY <2>1, <2>2
<1>2. \A v \in Values : (\A u \in Values : Depth[u] < Depth[v] => u \in S) => v \in S
  BY <1>1
<1>3. Values \subseteq S
  <2>1. Depth \in [Values -> Nat]
    BY ValuesAssumption
  <2> HIDE DEF S
  <2> QED
    BY ONLY <1>2, <2>1, RankInduction
<1> QED
  BY <1>3

(* What differs between two objects lies below a key that one of them      *)
(* lacks, or differs between the values of a key of both.                  *)
LEMMA DifferingBelow ==
  ASSUME NEW before \in Values, NEW after \in Values,
         IsObject(before), IsObject(after)
  PROVE  /\ \A k \in Seq(STRING), n \in AllNodes :
              Lift(k, n) \in Differing(before, after) <=>
                \/ k \in OnlyIn(before, after) /\ n \in Nodes[before.fields[k]]
                \/ k \in OnlyIn(after, before) /\ n \in Nodes[after.fields[k]]
                \/ /\ k \in Shared(before, after)
                   /\ n \in Differing(before.fields[k], after.fields[k])
         /\ \A m \in Differing(before, after) :
              \E k \in Seq(STRING) : \E n \in AllNodes : m = Lift(k, n)
<1>1. ASSUME NEW k \in Seq(STRING), NEW n \in AllNodes
      PROVE  Lift(k, n) \in Differing(before, after) <=>
               \/ k \in OnlyIn(before, after) /\ n \in Nodes[before.fields[k]]
               \/ k \in OnlyIn(after, before) /\ n \in Nodes[after.fields[k]]
               \/ /\ k \in Shared(before, after)
                  /\ n \in Differing(before.fields[k], after.fields[k])
  <2>1. /\ Lift(k, n) \in Nodes[before] <=>
             k \in DOMAIN before.fields /\ n \in Nodes[before.fields[k]]
        /\ Lift(k, n) \in Nodes[after] <=>
             k \in DOMAIN after.fields /\ n \in Nodes[after.fields[k]]
    BY NodesBelow
  <2> QED
    BY <2>1 DEF Differing, OnlyIn, Shared
<1>2. Top(before) = Top(after)
  BY NodesBelow
<1>3. ASSUME NEW m \in Differing(before, after)
      PROVE  \E k \in Seq(STRING) : \E n \in AllNodes : m = Lift(k, n)
  <2>1. m # Top(before) /\ m # Top(after)
    BY <1>2, NodesBelow DEF Differing
  <2>2. m \in Nodes[before] \/ m \in Nodes[after]
    BY DEF Differing
  <2>3. ASSUME NEW v \in Values, IsObject(v), m \in Nodes[v], m # Top(v)
        PROVE  \E k \in Seq(STRING) : \E n \in AllNodes : m = Lift(k, n)
    <3>1. PICK k \in DOMAIN v.fields : \E n \in Nodes[v.fields[k]] :
            k \in Seq(STRING) /\ n \in AllNodes /\ m = Lift(k, n)
      BY <2>3, NodesBelow
    <3> QED
      BY <3>1
  <2> QED
    BY <2>1, <2>2, <2>3
<1> QED
  BY <1>1, <1>3

LEMMA LiftOrder ==
  ASSUME NEW k \in Seq(STRING), NEW n \in AllNodes,
         NEW j \in Seq(STRING), NEW m \in AllNodes
  PROVE  IsStrictPrefix(Lift(k, n).at, Lift(j, m).at) <=>
           k = j /\ IsStrictPrefix(n.at, m.at)
<1>1. \A x, y \in Address :
        /\ <<k>> \o x = <<j>> \o y <=> k = j /\ x = y
        /\ IsPrefix(<<k>> \o x, <<j>> \o y) <=> k = j /\ IsPrefix(x, y)
  BY FrontOrder
<1>2. \A x, y \in Address :
        IsStrictPrefix(<<k>> \o x, <<j>> \o y) <=> k = j /\ IsStrictPrefix(x, y)
  BY <1>1, Zenon DEF IsStrictPrefix
<1>3. /\ Lift(k, n).at = <<k>> \o n.at /\ n.at \in Address
      /\ Lift(j, m).at = <<j>> \o m.at /\ m.at \in Address
  BY LiftOf
<1>4. IsStrictPrefix(<<k>> \o n.at, <<j>> \o m.at) <=> k = j /\ IsStrictPrefix(n.at, m.at)
  BY <1>2, <1>3
<1> QED
  BY <1>3, <1>4

(* Of a whole document, what lies under nothing else is its own node.      *)
LEMMA TopmostOfAll ==
  ASSUME NEW v \in Values
  PROVE  Topmost(Nodes[v]) = {Top(v)}
<1>1. \A n \in Nodes[v] : n.at \in Address
  <2>1. Nodes[v] \subseteq AllNodes
    BY NodesOf
  <2> QED
    BY <2>1 DEF AllNodes, Address
<1>2. Top(v) \in Nodes[v] /\ Top(v).at = <<>>
  BY TopOf
<1>3. \A y \in Address : ~IsStrictPrefix(y, <<>>) /\ IsPrefix(<<>>, y)
  <2>1. <<>> \in Seq(STRING)
    OBVIOUS
  <2>2. ASSUME NEW y \in Address PROVE ~IsStrictPrefix(y, <<>>) /\ IsPrefix(<<>>, y)
    BY <2>1, FrontOrder
  <2> QED
    BY <2>2
<1>4. Top(v) \in Topmost(Nodes[v])
  BY <1>1, <1>2, <1>3, Zenon DEF Topmost
<1>5. ASSUME NEW n \in Topmost(Nodes[v]) PROVE n = Top(v)
  <2>1. n \in Nodes[v] /\ ~IsStrictPrefix(Top(v).at, n.at)
    BY <1>2 DEF Topmost
  <2>2. n.at = <<>>
    BY <1>1, <1>2, <1>3, <2>1, Zenon DEF IsStrictPrefix
  <2> QED
    BY <2>1, <2>2, TopOf
<1> QED
  BY <1>4, <1>5

LEMMA TopmostBelow ==
  ASSUME NEW before \in Values, NEW after \in Values,
         IsObject(before), IsObject(after), NEW k \in Seq(STRING), NEW n \in AllNodes
  PROVE  Lift(k, n) \in Topmost(Differing(before, after)) <=>
           \/ k \in OnlyIn(before, after) /\ n \in Topmost(Nodes[before.fields[k]])
           \/ k \in OnlyIn(after, before) /\ n \in Topmost(Nodes[after.fields[k]])
           \/ /\ k \in Shared(before, after)
              /\ n \in Topmost(Differing(before.fields[k], after.fields[k]))
<1> DEFINE D(j) == {m \in AllNodes : Lift(j, m) \in Differing(before, after)}
<1>1. \A j \in Seq(STRING) : D(j) \subseteq AllNodes
  OBVIOUS
<1>2. /\ k \in OnlyIn(before, after) => D(k) = Nodes[before.fields[k]]
      /\ k \in OnlyIn(after, before) => D(k) = Nodes[after.fields[k]]
      /\ k \in Shared(before, after) =>
           D(k) = Differing(before.fields[k], after.fields[k])
      /\ (k \notin OnlyIn(before, after) /\ k \notin OnlyIn(after, before)
           /\ k \notin Shared(before, after)) => D(k) = {}
  <2>1. \A m \in AllNodes : m \in D(k) <=>
          \/ k \in OnlyIn(before, after) /\ m \in Nodes[before.fields[k]]
          \/ k \in OnlyIn(after, before) /\ m \in Nodes[after.fields[k]]
          \/ /\ k \in Shared(before, after)
             /\ m \in Differing(before.fields[k], after.fields[k])
    BY DifferingBelow
  <2>2. /\ k \in DOMAIN before.fields => Nodes[before.fields[k]] \subseteq AllNodes
        /\ k \in DOMAIN after.fields => Nodes[after.fields[k]] \subseteq AllNodes
    BY FieldOf, NodesOf
  <2>3. k \in Shared(before, after) =>
          Differing(before.fields[k], after.fields[k]) \subseteq AllNodes
    BY <2>2 DEF Differing, Shared
  <2> HIDE DEF D
  <2>4. D(k) \subseteq AllNodes
    BY DEF D
  <2> QED
    BY <2>1, <2>2, <2>3, <2>4 DEF OnlyIn, Shared
<1>3. Lift(k, n) \in Topmost(Differing(before, after)) <=> n \in Topmost(D(k))
  <2>1. ASSUME Lift(k, n) \in Topmost(Differing(before, after)) PROVE n \in Topmost(D(k))
    <3>1. n \in D(k)
      BY <2>1 DEF Topmost
    <3>2. ASSUME NEW m \in D(k) PROVE ~IsStrictPrefix(m.at, n.at)
      <4>1. m \in AllNodes /\ ~IsStrictPrefix(Lift(k, m).at, Lift(k, n).at)
        BY <2>1 DEF Topmost
      <4> QED
        BY <4>1, LiftOrder
    <3> QED
      BY <3>1, <3>2 DEF Topmost
  <2>2. ASSUME n \in Topmost(D(k)) PROVE Lift(k, n) \in Topmost(Differing(before, after))
    <3>1. Lift(k, n) \in Differing(before, after)
      BY <2>2 DEF Topmost
    <3>2. ASSUME NEW m \in Differing(before, after)
          PROVE  ~IsStrictPrefix(m.at, Lift(k, n).at)
      <4>1. PICK j \in Seq(STRING) : \E u \in AllNodes : m = Lift(j, u)
        BY DifferingBelow
      <4>2. PICK u \in AllNodes : m = Lift(j, u)
        BY <4>1
      <4>3. j = k => ~IsStrictPrefix(u.at, n.at)
        BY <2>2, <4>2 DEF Topmost
      <4>4. IsStrictPrefix(Lift(j, u).at, Lift(k, n).at)
              <=> j = k /\ IsStrictPrefix(u.at, n.at)
        BY LiftOrder
      <4> QED
        BY <4>2, <4>3, <4>4
    <3> QED
      BY <3>1, <3>2 DEF Topmost
  <2> QED
    BY <2>1, <2>2
<1> HIDE DEF D
<1>4. Topmost({}) = {}
  BY DEF Topmost
<1>5. /\ k \in OnlyIn(before, after) => k \notin OnlyIn(after, before)
      /\ k \in Shared(before, after) =>
           k \notin OnlyIn(before, after) /\ k \notin OnlyIn(after, before)
  BY DEF OnlyIn, Shared
<1> QED
  BY <1>2, <1>3, <1>4, <1>5

LEMMA KindBelow ==
  ASSUME NEW before \in Values, NEW after \in Values,
         IsObject(before), IsObject(after), NEW k \in Seq(STRING), NEW n \in AllNodes
  PROVE  /\ k \in OnlyIn(before, after) =>
              KindAt(Lift(k, n).at, before, after) = "removed"
         /\ k \in OnlyIn(after, before) /\ n \in Nodes[after.fields[k]] =>
              KindAt(Lift(k, n).at, before, after) = "added"
         /\ k \in Shared(before, after) =>
              KindAt(Lift(k, n).at, before, after)
                = KindAt(n.at, before.fields[k], after.fields[k])
<1>1. Lift(k, n).at = <<k>> \o n.at /\ n.at \in Address
  BY LiftOf
<1>2. /\ <<k>> \o n.at \in Places(before) <=>
           k \in DOMAIN before.fields /\ n.at \in Places(before.fields[k])
      /\ <<k>> \o n.at \in Places(after) <=>
           k \in DOMAIN after.fields /\ n.at \in Places(after.fields[k])
  BY <1>1, PlacesBelow
<1>3. /\ Lift(k, n).at \in Places(before) <=>
           k \in DOMAIN before.fields /\ n.at \in Places(before.fields[k])
      /\ Lift(k, n).at \in Places(after) <=>
           k \in DOMAIN after.fields /\ n.at \in Places(after.fields[k])
  BY <1>1, <1>2
<1>4. n \in Nodes[after.fields[k]] => n.at \in Places(after.fields[k])
  BY DEF Places
<1> QED
  BY <1>3, <1>4 DEF KindAt, OnlyIn, Shared

Reported(before, after) == {<<c.path, c.kind>> : c \in Walk(before, after)}
Expected(before, after) ==
  {<<n.path, KindAt(n.at, before, after)>> : n \in Topmost(Differing(before, after))}

(* What both sides say of two objects, from what they say of the fields    *)
From(before, after, Parts) ==
  {<<k, "removed">> : k \in OnlyIn(before, after)}
    \cup {<<k, "added">> : k \in OnlyIn(after, before)}
    \cup UNION {{<<k \o x[1], x[2]>> : x \in Parts[k]} : k \in Shared(before, after)}

LEMMA ReportedFrom ==
  ASSUME NEW before \in Values, NEW after \in Values,
         IsObject(before), IsObject(after)
  PROVE  Reported(before, after) =
           From(before, after, [k \in Shared(before, after) |->
                                  Reported(before.fields[k], after.fields[k])])
<1> DEFINE P == [k \in Shared(before, after) |->
                   Reported(before.fields[k], after.fields[k])]
<1>1. Walk(before, after) =
        Removed(before, after) \cup Added(before, after)
          \cup UNION {Under(k, Walk(before.fields[k], after.fields[k]))
                        : k \in Shared(before, after)}
  BY WalkOf
<1>2. {<<c.path, c.kind>> : c \in Removed(before, after)}
        = {<<k, "removed">> : k \in OnlyIn(before, after)}
  <2>1. ASSUME NEW k
        PROVE  SpecChange(k, "removed", before.fields[k], None).path = k /\ SpecChange(k, "removed", before.fields[k], None).kind = "removed"
    BY DEF SpecChange
  <2>2. ASSUME NEW c \in Removed(before, after)
        PROVE  <<c.path, c.kind>> \in {<<k, "removed">> : k \in OnlyIn(before, after)}
    <3>1. PICK k \in OnlyIn(before, after) : c = SpecChange(k, "removed", before.fields[k], None)
      BY DEF Removed
    <3> QED
      BY <2>1, <3>1
  <2>3. ASSUME NEW k \in OnlyIn(before, after)
        PROVE  <<k, "removed">> \in {<<c.path, c.kind>> : c \in Removed(before, after)}
    <3>1. SpecChange(k, "removed", before.fields[k], None) \in Removed(before, after)
      BY DEF Removed
    <3> QED
      BY <2>1, <3>1
  <2> QED
    BY <2>2, <2>3
<1>3. {<<c.path, c.kind>> : c \in Added(before, after)}
        = {<<k, "added">> : k \in OnlyIn(after, before)}
  <2>1. ASSUME NEW k
        PROVE  SpecChange(k, "added", None, after.fields[k]).path = k /\ SpecChange(k, "added", None, after.fields[k]).kind = "added"
    BY DEF SpecChange
  <2>2. ASSUME NEW c \in Added(before, after)
        PROVE  <<c.path, c.kind>> \in {<<k, "added">> : k \in OnlyIn(after, before)}
    <3>1. PICK k \in OnlyIn(after, before) : c = SpecChange(k, "added", None, after.fields[k])
      BY DEF Added
    <3> QED
      BY <2>1, <3>1
  <2>3. ASSUME NEW k \in OnlyIn(after, before)
        PROVE  <<k, "added">> \in {<<c.path, c.kind>> : c \in Added(before, after)}
    <3>1. SpecChange(k, "added", None, after.fields[k]) \in Added(before, after)
      BY DEF Added
    <3> QED
      BY <2>1, <3>1
  <2> QED
    BY <2>2, <2>3
<1>4. ASSUME NEW k \in Shared(before, after)
      PROVE  {<<c.path, c.kind>> : c \in Under(k, Walk(before.fields[k], after.fields[k]))}
               = {<<k \o x[1], x[2]>> : x \in P[k]}
  <2> DEFINE W == Walk(before.fields[k], after.fields[k])
  <2>1. W \subseteq Changes /\ k \in Seq(STRING)
    BY FieldOf, WalkOf
  <2>2. P[k] = {<<c.path, c.kind>> : c \in W}
    BY DEF Reported
  <2> HIDE DEF W, P
  <2>3. \A c \in W : /\ [c EXCEPT !.path = k \o c.path].path = k \o c.path
                     /\ [c EXCEPT !.path = k \o c.path].kind = c.kind
    BY <2>1, UnderType
  <2>4. {<<c.path, c.kind>> : c \in Under(k, W)} = {<<k \o c.path, c.kind>> : c \in W}
    BY <2>3 DEF Under
  <2>5. {<<k \o x[1], x[2]>> : x \in P[k]} = {<<k \o c.path, c.kind>> : c \in W}
    <3>1. ASSUME NEW c \in W
          PROVE  <<k \o c.path, c.kind>> \in {<<k \o x[1], x[2]>> : x \in P[k]}
      <4>1. <<c.path, c.kind>> \in P[k]
        BY <2>2
      <4> QED
        BY <4>1
    <3>2. ASSUME NEW x \in P[k]
          PROVE  <<k \o x[1], x[2]>> \in {<<k \o c.path, c.kind>> : c \in W}
      <4>1. PICK c \in W : x = <<c.path, c.kind>>
        BY <2>2
      <4> QED
        BY <4>1
    <3> QED
      BY <3>1, <3>2
  <2> QED
    BY <2>4, <2>5 DEF W
<1> HIDE DEF P
<1>5. Reported(before, after) =
        {<<c.path, c.kind>> : c \in Removed(before, after)}
          \cup {<<c.path, c.kind>> : c \in Added(before, after)}
          \cup UNION {{<<c.path, c.kind>> : c \in Under(k, Walk(before.fields[k], after.fields[k]))}
                        : k \in Shared(before, after)}
  BY <1>1 DEF Reported
<1>6. UNION {{<<c.path, c.kind>> : c \in Under(k, Walk(before.fields[k], after.fields[k]))}
                        : k \in Shared(before, after)}
        = UNION {{<<k \o x[1], x[2]>> : x \in P[k]} : k \in Shared(before, after)}
  BY <1>4
<1>7. Reported(before, after) = From(before, after, P)
  BY <1>2, <1>3, <1>5, <1>6 DEF From
<1> QED
  BY <1>7 DEF P

LEMMA ExpectedFrom ==
  ASSUME NEW before \in Values, NEW after \in Values,
         IsObject(before), IsObject(after)
  PROVE  Expected(before, after) =
           From(before, after, [k \in Shared(before, after) |->
                                  Expected(before.fields[k], after.fields[k])])
<1> DEFINE P == [k \in Shared(before, after) |->
                   Expected(before.fields[k], after.fields[k])]
           E(n) == <<n.path, KindAt(n.at, before, after)>>
           T == Topmost(Differing(before, after))
<1>1. \A k \in Shared(before, after) : \A x : x \in P[k] <=>
        \E n \in Topmost(Differing(before.fields[k], after.fields[k])) :
          x = <<n.path, KindAt(n.at, before.fields[k], after.fields[k])>>
  BY DEF Expected
<1>2. \A k \in Seq(STRING), n \in AllNodes : Lift(k, n).path = k \o n.path
  BY LiftOf
<1>3. \A k \in Seq(STRING) : k \o <<>> = k
  BY ConcatEmptySeq
<1>4. \A v \in Values : Top(v) \in AllNodes /\ Top(v).path = <<>> /\ Top(v) \in Nodes[v]
  BY TopOf
<1>5. ASSUME NEW k \in OnlyIn(before, after)
      PROVE  /\ k \in Seq(STRING) /\ Top(before.fields[k]) \in AllNodes
             /\ Lift(k, Top(before.fields[k])) \in T
             /\ E(Lift(k, Top(before.fields[k]))) = <<k, "removed">>
             /\ \A n \in Topmost(Nodes[before.fields[k]]) : n = Top(before.fields[k])
  <2>1. k \in Seq(STRING) /\ before.fields[k] \in Values
    BY FieldOf DEF OnlyIn
  <2>2. Topmost(Nodes[before.fields[k]]) = {Top(before.fields[k])}
    BY <2>1, TopmostOfAll
  <2>3. Lift(k, Top(before.fields[k])) \in T
    BY <1>4, <2>1, <2>2, TopmostBelow
  <2>4. KindAt(Lift(k, Top(before.fields[k])).at, before, after) = "removed"
    BY <1>4, <2>1, KindBelow
  <2>5. Lift(k, Top(before.fields[k])).path = k
    BY <1>2, <1>3, <1>4, <2>1
  <2> HIDE DEF T
  <2> QED
    BY <1>4, <2>1, <2>2, <2>3, <2>4, <2>5
<1>6. ASSUME NEW k \in OnlyIn(after, before)
      PROVE  /\ k \in Seq(STRING) /\ Top(after.fields[k]) \in AllNodes
             /\ Lift(k, Top(after.fields[k])) \in T
             /\ E(Lift(k, Top(after.fields[k]))) = <<k, "added">>
             /\ \A n \in Topmost(Nodes[after.fields[k]]) : n = Top(after.fields[k])
  <2>1. k \in Seq(STRING) /\ after.fields[k] \in Values
    BY FieldOf DEF OnlyIn
  <2>2. Topmost(Nodes[after.fields[k]]) = {Top(after.fields[k])}
    BY <2>1, TopmostOfAll
  <2>3. Lift(k, Top(after.fields[k])) \in T
    BY <1>4, <2>1, <2>2, TopmostBelow
  <2>4. KindAt(Lift(k, Top(after.fields[k])).at, before, after) = "added"
    BY <1>4, <2>1, KindBelow
  <2>5. Lift(k, Top(after.fields[k])).path = k
    BY <1>2, <1>3, <1>4, <2>1
  <2> HIDE DEF T
  <2> QED
    BY <1>4, <2>1, <2>2, <2>3, <2>4, <2>5
<1>7. ASSUME NEW k \in Shared(before, after),
             NEW n \in Topmost(Differing(before.fields[k], after.fields[k]))
      PROVE  /\ k \in Seq(STRING) /\ n \in AllNodes /\ Lift(k, n) \in T
             /\ E(Lift(k, n)) =
                  <<k \o n.path, KindAt(n.at, before.fields[k], after.fields[k])>>
  <2>1. /\ k \in Seq(STRING) /\ before.fields[k] \in Values /\ after.fields[k] \in Values
    BY FieldOf
  <2>2. n \in AllNodes
    BY <2>1, NodesOf DEF Topmost, Differing
  <2>3. Lift(k, n) \in T
    BY <2>1, <2>2, TopmostBelow
  <2>4. KindAt(Lift(k, n).at, before, after)
          = KindAt(n.at, before.fields[k], after.fields[k])
    BY <2>1, <2>2, KindBelow
  <2> HIDE DEF T
  <2> QED
    BY <1>2, <2>1, <2>2, <2>3, <2>4
<1>8. ASSUME NEW x \in Expected(before, after) PROVE x \in From(before, after, P)
  <2>1. PICK m \in T : x = E(m)
    BY DEF Expected
  <2>2. m \in Differing(before, after)
    BY DEF Topmost
  <2>3. PICK k \in Seq(STRING) : \E n \in AllNodes : m = Lift(k, n)
    BY <2>2, DifferingBelow
  <2>4. PICK n \in AllNodes : m = Lift(k, n)
    BY <2>3
  <2>5. \/ k \in OnlyIn(before, after) /\ n \in Topmost(Nodes[before.fields[k]])
        \/ k \in OnlyIn(after, before) /\ n \in Topmost(Nodes[after.fields[k]])
        \/ /\ k \in Shared(before, after)
           /\ n \in Topmost(Differing(before.fields[k], after.fields[k]))
    BY <2>4, TopmostBelow
  <2> HIDE DEF T, P, E
  <2>6. CASE k \in OnlyIn(before, after) /\ n \in Topmost(Nodes[before.fields[k]])
    <3>1. x = <<k, "removed">>
      BY <1>5, <2>1, <2>4, <2>6
    <3> QED
      BY <2>6, <3>1 DEF From
  <2>7. CASE k \in OnlyIn(after, before) /\ n \in Topmost(Nodes[after.fields[k]])
    <3>1. x = <<k, "added">>
      BY <1>6, <2>1, <2>4, <2>7
    <3> QED
      BY <2>7, <3>1 DEF From
  <2>8. CASE /\ k \in Shared(before, after)
             /\ n \in Topmost(Differing(before.fields[k], after.fields[k]))
    <3> DEFINE y == <<n.path, KindAt(n.at, before.fields[k], after.fields[k])>>
    <3>1. y \in P[k]
      BY <1>1, <2>8
    <3>2. x = <<k \o y[1], y[2]>>
      BY <1>7, <2>1, <2>4, <2>8
    <3> HIDE DEF y
    <3>3. x \in {<<k \o z[1], z[2]>> : z \in P[k]}
      BY <3>1, <3>2
    <3> QED
      BY <2>8, <3>3 DEF From
  <2> QED
    BY <2>5, <2>6, <2>7, <2>8
<1>9. ASSUME NEW x \in From(before, after, P) PROVE x \in Expected(before, after)
  <2>1. \A m \in T : E(m) \in Expected(before, after)
    BY DEF Expected
  <2> HIDE DEF T, P, E
  <2>2. CASE x \in {<<k, "removed">> : k \in OnlyIn(before, after)}
    BY <1>5, <2>1, <2>2
  <2>3. CASE x \in {<<k, "added">> : k \in OnlyIn(after, before)}
    BY <1>6, <2>1, <2>3
  <2>4. CASE x \in UNION {{<<k \o y[1], y[2]>> : y \in P[k]} : k \in Shared(before, after)}
    <3>1. PICK k \in Shared(before, after) : x \in {<<k \o y[1], y[2]>> : y \in P[k]}
      BY <2>4
    <3>2. PICK y \in P[k] : x = <<k \o y[1], y[2]>>
      BY <3>1
    <3>3. PICK n \in Topmost(Differing(before.fields[k], after.fields[k])) :
            y = <<n.path, KindAt(n.at, before.fields[k], after.fields[k])>>
      BY <1>1, <3>2
    <3>4. x = E(Lift(k, n)) /\ Lift(k, n) \in T
      BY <1>7, <3>2, <3>3
    <3> QED
      BY <2>1, <3>4
  <2> QED
    BY <2>2, <2>3, <2>4 DEF From
<1>10. Expected(before, after) = From(before, after, P)
  <2> HIDE DEF P
  <2> QED
    BY <1>8, <1>9
<1> QED
  BY <1>10

LEMMA ExactAtTop ==
  ASSUME NEW before \in Values, NEW after \in Values,
         ~(IsObject(before) /\ IsObject(after))
  PROVE  Reported(before, after) = Expected(before, after)
<1>1. Walk(before, after) = Replacement(before, after)
  BY WalkOf
<1>2. CASE Plain[before] = Plain[after]
  <2>1. Walk(before, after) = {}
    BY <1>1, <1>2 DEF Replacement
  <2>2. Topmost(Differing(before, after)) = {}
    BY <2>1, NoChangeMeansAlike DEF Topmost, Differing
  <2> QED
    BY <2>1, <2>2 DEF Reported, Expected
<1>3. CASE Plain[before] # Plain[after]
  <2> DEFINE T == Topmost(Differing(before, after))
             E(n) == <<n.path, KindAt(n.at, before, after)>>
  <2>1. Walk(before, after) = {SpecChange(<<>>, "changed", before, after)}
    BY <1>1, <1>3 DEF Replacement
  <2>2. Reported(before, after) = {<< <<>>, "changed" >>}
    BY <2>1 DEF Reported, SpecChange
  <2>3. Top(before) # Top(after)
    BY <1>3, TopOf
  <2>4. \A v \in Values :
          /\ Top(v) \in Nodes[v] /\ Top(v).at = <<>> /\ Top(v).path = <<>>
          /\ \A n \in Nodes[v] : n.at \in Address /\ (n.at = <<>> => n = Top(v))
    <3>1. ASSUME NEW v \in Values, NEW n \in Nodes[v] PROVE n.at \in Address
      <4>1. n \in AllNodes
        BY NodesOf
      <4> QED
        BY <4>1 DEF AllNodes, Address
    <3> QED
      BY <3>1, TopOf
  <2>5. Top(before) \in Differing(before, after)
    BY <2>3, <2>4 DEF Differing
  <2>6. \A y \in Address : ~IsStrictPrefix(y, <<>>) /\ IsPrefix(<<>>, y)
    <3>1. <<>> \in Seq(STRING)
      OBVIOUS
    <3>2. ASSUME NEW y \in Address PROVE ~IsStrictPrefix(y, <<>>) /\ IsPrefix(<<>>, y)
      BY <3>1, FrontOrder
    <3> QED
      BY <3>2
  <2>7. \A n \in Differing(before, after) : n.at \in Address
    BY <2>4 DEF Differing
  <2>8. Top(before) \in T
    BY <2>4, <2>5, <2>6, <2>7, Zenon DEF Topmost
  <2>9. ASSUME NEW n \in T PROVE n.at = <<>> /\ n.path = <<>>
    <3>1. n \in Differing(before, after) /\ ~IsStrictPrefix(Top(before).at, n.at)
      BY <2>5 DEF Topmost
    <3>2. n.at = <<>>
      BY <2>4, <2>6, <2>7, <3>1, Zenon DEF IsStrictPrefix
    <3>3. n = Top(before) \/ n = Top(after)
      BY <2>4, <3>1, <3>2 DEF Differing
    <3> QED
      BY <2>4, <3>2, <3>3
  <2>10. KindAt(<<>>, before, after) = "changed"
    <3>1. <<>> \in Places(before) /\ <<>> \in Places(after)
      BY <2>4 DEF Places
    <3> QED
      BY <3>1 DEF KindAt
  <2>11. Expected(before, after) = {E(n) : n \in T}
    BY DEF Expected
  <2>12. \A n \in T : E(n) = << <<>>, "changed" >>
    BY <2>9, <2>10
  <2> HIDE DEF T, E
  <2>13. Expected(before, after) = {<< <<>>, "changed" >>}
    BY <2>8, <2>11, <2>12
  <2> QED
    BY <2>2, <2>13
<1> QED
  BY <1>2, <1>3

(* The changes are the topmost places where the documents differ.          *)
LEMMA WalkIsExact ==
  ASSUME NEW before \in Values, NEW after \in Values
  PROVE  Reported(before, after) = Expected(before, after)
<1> DEFINE S == {v \in Values : \A w \in Values : Reported(v, w) = Expected(v, w)}
<1>1. ASSUME NEW v \in Values, \A u \in Values : Depth[u] < Depth[v] => u \in S,
             NEW w \in Values
      PROVE  Reported(v, w) = Expected(v, w)
  <2>1. CASE IsObject(v) /\ IsObject(w)
    <3>1. ASSUME NEW k \in Shared(v, w)
          PROVE  Reported(v.fields[k], w.fields[k]) = Expected(v.fields[k], w.fields[k])
      BY <1>1, <2>1, FieldOf
    <3>2. [k \in Shared(v, w) |-> Reported(v.fields[k], w.fields[k])]
            = [k \in Shared(v, w) |-> Expected(v.fields[k], w.fields[k])]
      BY <3>1
    <3>3. Reported(v, w) =
            From(v, w, [k \in Shared(v, w) |-> Reported(v.fields[k], w.fields[k])])
      BY <2>1, ReportedFrom
    <3>4. Expected(v, w) =
            From(v, w, [k \in Shared(v, w) |-> Expected(v.fields[k], w.fields[k])])
      BY <2>1, ExpectedFrom
    <3> QED
      BY <3>2, <3>3, <3>4, Zenon
  <2>2. CASE ~(IsObject(v) /\ IsObject(w))
    BY <2>2, ExactAtTop
  <2> QED
    BY <2>1, <2>2
<1>2. \A v \in Values : (\A u \in Values : Depth[u] < Depth[v] => u \in S) => v \in S
  BY <1>1
<1>3. Values \subseteq S
  <2>1. Depth \in [Values -> Nat]
    BY ValuesAssumption
  <2> HIDE DEF S
  <2> QED
    BY ONLY <1>2, <2>1, RankInduction
<1> QED
  BY <1>3

(* From the changes of two objects to those of their fields, and back      *)
LEMMA ChangesBelow ==
  ASSUME NEW before \in Values, NEW after \in Values,
         IsObject(before), IsObject(after)
  PROVE  /\ \A k \in OnlyIn(before, after) :
              \E c \in Walk(before, after) : c.kind = "removed"
         /\ \A k \in Shared(before, after) :
              \A c \in Walk(before.fields[k], after.fields[k]) :
                \E d \in Walk(before, after) :
                  d.kind = c.kind /\ d.path = k \o c.path
                  /\ d.before = c.before /\ d.after = c.after
         /\ \A d \in Walk(before, after) :
              \/ d.kind = "removed" /\ \E k \in OnlyIn(before, after) :
                   d = SpecChange(k, "removed", before.fields[k], None)
              \/ d.kind = "added" /\ \E k \in OnlyIn(after, before) :
                   d = SpecChange(k, "added", None, after.fields[k])
              \/ \E k \in Shared(before, after) :
                   \E c \in Walk(before.fields[k], after.fields[k]) :
                     /\ d = [c EXCEPT !.path = k \o c.path]
                     /\ d.kind = c.kind /\ d.path = k \o c.path
                     /\ d.before = c.before /\ d.after = c.after
<1>1. Walk(before, after) =
        Removed(before, after) \cup Added(before, after)
          \cup UNION {Under(k, Walk(before.fields[k], after.fields[k]))
                        : k \in Shared(before, after)}
  BY WalkOf
<1>2. ASSUME NEW k \in Shared(before, after),
             NEW c \in Walk(before.fields[k], after.fields[k])
      PROVE  /\ [c EXCEPT !.path = k \o c.path].kind = c.kind
             /\ [c EXCEPT !.path = k \o c.path].path = k \o c.path
             /\ [c EXCEPT !.path = k \o c.path].before = c.before
             /\ [c EXCEPT !.path = k \o c.path].after = c.after
  <2>1. Walk(before.fields[k], after.fields[k]) \subseteq Changes
    BY FieldOf, WalkOf
  <2> QED
    BY <2>1 DEF Changes
<1>3. ASSUME NEW k \in OnlyIn(before, after)
      PROVE  \E c \in Walk(before, after) : c.kind = "removed"
  <2>1. SpecChange(k, "removed", before.fields[k], None) \in Removed(before, after)
    BY DEF Removed
  <2>2. SpecChange(k, "removed", before.fields[k], None).kind = "removed"
    BY DEF SpecChange
  <2> QED
    BY <1>1, <2>1, <2>2
<1>4. ASSUME NEW k \in Shared(before, after),
             NEW c \in Walk(before.fields[k], after.fields[k])
      PROVE  [c EXCEPT !.path = k \o c.path] \in Walk(before, after)
  <2>1. [c EXCEPT !.path = k \o c.path] \in Under(k, Walk(before.fields[k], after.fields[k]))
    BY DEF Under
  <2> QED
    BY <1>1, <2>1
<1>5. ASSUME NEW d \in Walk(before, after)
      PROVE  \/ d.kind = "removed" /\ \E k \in OnlyIn(before, after) :
                   d = SpecChange(k, "removed", before.fields[k], None)
             \/ d.kind = "added" /\ \E k \in OnlyIn(after, before) :
                   d = SpecChange(k, "added", None, after.fields[k])
             \/ \E k \in Shared(before, after) :
                  \E c \in Walk(before.fields[k], after.fields[k]) :
                    d = [c EXCEPT !.path = k \o c.path]
  <2>1. CASE d \in Removed(before, after)
    <3>1. PICK k \in OnlyIn(before, after) :
            d = SpecChange(k, "removed", before.fields[k], None)
      BY <2>1 DEF Removed
    <3>2. d.kind = "removed"
      BY <3>1 DEF SpecChange
    <3> QED
      BY <3>1, <3>2
  <2>2. CASE d \in Added(before, after)
    <3>1. PICK k \in OnlyIn(after, before) :
            d = SpecChange(k, "added", None, after.fields[k])
      BY <2>2 DEF Added
    <3>2. d.kind = "added"
      BY <3>1 DEF SpecChange
    <3> QED
      BY <3>1, <3>2
  <2>3. CASE d \in UNION {Under(k, Walk(before.fields[k], after.fields[k]))
                            : k \in Shared(before, after)}
    <3>1. PICK k \in Shared(before, after) :
            d \in Under(k, Walk(before.fields[k], after.fields[k]))
      BY <2>3
    <3>2. PICK c \in Walk(before.fields[k], after.fields[k]) :
            d = [c EXCEPT !.path = k \o c.path]
      BY <3>1 DEF Under
    <3> QED
      BY <3>2
  <2> QED
    BY <1>1, <2>1, <2>2, <2>3
<1>6. ASSUME NEW k \in Shared(before, after),
             NEW c \in Walk(before.fields[k], after.fields[k])
      PROVE  \E d \in Walk(before, after) :
               d.kind = c.kind /\ d.path = k \o c.path
               /\ d.before = c.before /\ d.after = c.after
  BY <1>2, <1>4
<1>7. ASSUME NEW d \in Walk(before, after)
      PROVE  \/ d.kind = "removed" /\ \E k \in OnlyIn(before, after) :
                   d = SpecChange(k, "removed", before.fields[k], None)
             \/ d.kind = "added" /\ \E k \in OnlyIn(after, before) :
                   d = SpecChange(k, "added", None, after.fields[k])
             \/ \E k \in Shared(before, after) :
                  \E c \in Walk(before.fields[k], after.fields[k]) :
                    /\ d = [c EXCEPT !.path = k \o c.path]
                    /\ d.kind = c.kind /\ d.path = k \o c.path
                    /\ d.before = c.before /\ d.after = c.after
  <2>1. CASE \E k \in Shared(before, after) :
               \E c \in Walk(before.fields[k], after.fields[k]) :
                 d = [c EXCEPT !.path = k \o c.path]
    <3>1. PICK k \in Shared(before, after) :
            \E c \in Walk(before.fields[k], after.fields[k]) :
              d = [c EXCEPT !.path = k \o c.path]
      BY <2>1
    <3>2. PICK c \in Walk(before.fields[k], after.fields[k]) :
            d = [c EXCEPT !.path = k \o c.path]
      BY <3>1
    <3>3. /\ d.kind = c.kind /\ d.path = k \o c.path
          /\ d.before = c.before /\ d.after = c.after
      BY <1>2, <3>2
    <3> QED
      BY <3>2, <3>3
  <2> QED
    BY <1>5, <2>1
<1> QED
  BY <1>3, <1>6, <1>7, Zenon

(* A document that extends another only adds to it.                        *)
LEMMA ExtensionOnlyAdds ==
  ASSUME NEW before \in Values, NEW after \in Values, Extends(before, after)
  PROVE  \A c \in Walk(before, after) : c.kind = "added"
<1> DEFINE S == {v \in Values : \A w \in Values :
                   Extends(v, w) => \A c \in Walk(v, w) : c.kind = "added"}
<1>1. ASSUME NEW v \in Values, \A u \in Values : Depth[u] < Depth[v] => u \in S,
             NEW w \in Values, Extends(v, w), NEW d \in Walk(v, w)
      PROVE  d.kind = "added"
  <2>1. CASE IsObject(v) /\ IsObject(w)
    <3>1. ASSUME NEW k \in DOMAIN v.fields, NEW n \in Nodes[v.fields[k]]
          PROVE  k \in DOMAIN w.fields /\ n \in Nodes[w.fields[k]]
      <4>1. k \in Seq(STRING) /\ n \in AllNodes
        BY <2>1, FieldOf, NodesOf
      <4>2. Lift(k, n) \in Nodes[v]
        BY <2>1, <4>1, NodesBelow
      <4>3. Lift(k, n) \in Nodes[w]
        BY <1>1, <4>2 DEF Extends
      <4> QED
        BY <2>1, <4>1, <4>3, NodesBelow
    <3>2. OnlyIn(v, w) = {}
      <4>1. ASSUME NEW k \in DOMAIN v.fields PROVE k \in DOMAIN w.fields
        <5>1. Top(v.fields[k]) \in Nodes[v.fields[k]]
          BY <2>1, FieldOf, TopOf
        <5> QED
          BY <3>1, <5>1
      <4> QED
        BY <4>1 DEF OnlyIn
    <3>3. ASSUME NEW k \in Shared(v, w), NEW c \in Walk(v.fields[k], w.fields[k])
          PROVE  c.kind = "added"
      <4>1. Extends(v.fields[k], w.fields[k])
        BY <2>1, <3>1 DEF Extends, Shared
      <4>2. v.fields[k] \in S /\ w.fields[k] \in Values
        BY <1>1, <2>1, FieldOf
      <4> QED
        BY <4>1, <4>2
    <3> HIDE DEF S
    <3>4. \/ d.kind = "removed" /\ \E k \in OnlyIn(v, w) :
               d = SpecChange(k, "removed", v.fields[k], None)
          \/ d.kind = "added"
          \/ \E k \in Shared(v, w) : \E c \in Walk(v.fields[k], w.fields[k]) : d.kind = c.kind
      BY <2>1, ChangesBelow
    <3> QED
      BY <3>2, <3>3, <3>4
  <2>2. CASE ~(IsObject(v) /\ IsObject(w))
    <3>1. Top(v) \in Nodes[w]
      BY <1>1, TopOf DEF Extends
    <3>2. Top(v) = Top(w)
      BY <3>1, TopOf
    <3>3. Plain[v] = Plain[w]
      BY <2>2, <3>2, TopOf
    <3>4. Walk(v, w) = {}
      BY <2>2, <3>3, WalkOf DEF Replacement
    <3> QED
      BY <1>1, <3>4
  <2> QED
    BY <2>1, <2>2
<1>2. \A v \in Values : (\A u \in Values : Depth[u] < Depth[v] => u \in S) => v \in S
  BY <1>1
<1>3. Values \subseteq S
  <2>1. Depth \in [Values -> Nat]
    BY ValuesAssumption
  <2> HIDE DEF S
  <2> QED
    BY ONLY <1>2, <2>1, RankInduction
<1> QED
  BY <1>3

(* Where the diff removes nothing, what was there is still there, or lies  *)
(* under something that a change put in the place of an object.            *)
ReplacedBy(before, after, m) ==
  \E c \in Walk(before, after) :
    /\ c.kind = "changed" /\ c.path = m.path
    /\ IsObject(c.before) /\ ~IsObject(m.value) /\ m.value = Plain[c.after]
Remains(before, after, n) ==
  \/ n.at \in Places(after)
  \/ \E m \in Nodes[after] : IsPrefix(m.at, n.at) /\ ReplacedBy(before, after, m)
AllRemains(before, after) == \A n \in Nodes[before] : Remains(before, after, n)

LEMMA NothingRemovedRemains ==
  ASSUME NEW before \in Values, NEW after \in Values,
         \A c \in Walk(before, after) : c.kind # "removed"
  PROVE  AllRemains(before, after)
<1> DEFINE S == {v \in Values : \A w \in Values :
                   (\A c \in Walk(v, w) : c.kind # "removed") => AllRemains(v, w)}
<1>1. ASSUME NEW v \in Values, \A u \in Values : Depth[u] < Depth[v] => u \in S,
             NEW w \in Values, \A c \in Walk(v, w) : c.kind # "removed"
      PROVE  AllRemains(v, w)
  <2>1. \A u \in Values : <<>> \in Places(u)
    BY TopOf DEF Places
  <2>2. CASE IsObject(v) /\ IsObject(w)
    <3>1. OnlyIn(v, w) = {}
      BY <1>1, <2>2, ChangesBelow
    <3>2. ASSUME NEW k \in Shared(v, w) PROVE AllRemains(v.fields[k], w.fields[k])
      <4>1. \A c \in Walk(v.fields[k], w.fields[k]) : c.kind # "removed"
        BY <1>1, <2>2, ChangesBelow
      <4>2. v.fields[k] \in S /\ w.fields[k] \in Values
        BY <1>1, <2>2, FieldOf
      <4> QED
        BY <4>1, <4>2
    <3> HIDE DEF S
    <3>3. ASSUME NEW n \in Nodes[v] PROVE Remains(v, w, n)
      <4>1. CASE n = Top(v)
        <5>1. n.at = <<>>
          BY <4>1, TopOf
        <5> QED
          BY <2>1, <5>1 DEF Remains
      <4>2. CASE n # Top(v)
        <5>1. PICK k \in DOMAIN v.fields : \E u \in Nodes[v.fields[k]] :
                k \in Seq(STRING) /\ u \in AllNodes /\ n = Lift(k, u)
          BY <2>2, <4>2, NodesBelow
        <5>2. PICK u \in Nodes[v.fields[k]] :
                k \in Seq(STRING) /\ u \in AllNodes /\ n = Lift(k, u)
          BY <5>1
        <5>3. k \in Shared(v, w) /\ k \in DOMAIN w.fields /\ w.fields[k] \in Values
          BY <2>2, <3>1, FieldOf DEF OnlyIn, Shared
        <5>4. n.at = <<k>> \o u.at /\ u.at \in Address
          BY <5>2, LiftOf
        <5>5. Remains(v.fields[k], w.fields[k], u)
          BY <3>2, <5>3 DEF AllRemains
        <5>6. CASE u.at \in Places(w.fields[k])
          <6>1. <<k>> \o u.at \in Places(w)
            BY <2>2, <5>2, <5>3, <5>4, <5>6, PlacesBelow
          <6> QED
            BY <5>4, <6>1 DEF Remains
        <5>7. CASE \E m \in Nodes[w.fields[k]] :
                     IsPrefix(m.at, u.at) /\ ReplacedBy(v.fields[k], w.fields[k], m)
          <6>1. PICK m \in Nodes[w.fields[k]] :
                  IsPrefix(m.at, u.at) /\ ReplacedBy(v.fields[k], w.fields[k], m)
            BY <5>7
          <6>2. m \in AllNodes
            BY <5>3, NodesOf
          <6>3. /\ Lift(k, m) \in Nodes[w] /\ Lift(k, m).value = m.value
                /\ Lift(k, m).at = <<k>> \o m.at /\ m.at \in Address
                /\ Lift(k, m).path = k \o m.path
            BY <2>2, <5>2, <5>3, <6>2, NodesBelow, LiftOf
          <6>4. \A x, y \in Address : IsPrefix(x, y) => IsPrefix(<<k>> \o x, <<k>> \o y)
            BY <5>2, FrontOrder
          <6>5. IsPrefix(<<k>> \o m.at, <<k>> \o u.at)
            BY <5>4, <6>1, <6>3, <6>4, Zenon
          <6>6. IsPrefix(Lift(k, m).at, n.at)
            BY <5>4, <6>3, <6>5
          <6>7. ReplacedBy(v, w, Lift(k, m))
            <7>1. PICK c \in Walk(v.fields[k], w.fields[k]) :
                    /\ c.kind = "changed" /\ c.path = m.path
                    /\ IsObject(c.before) /\ ~IsObject(m.value) /\ m.value = Plain[c.after]
              BY <6>1 DEF ReplacedBy
            <7>2. \E d \in Walk(v, w) :
                    d.kind = c.kind /\ d.path = k \o c.path
                    /\ d.before = c.before /\ d.after = c.after
              <8>1. \A a \in Walk(v.fields[k], w.fields[k]) : \E d \in Walk(v, w) :
                      d.kind = a.kind /\ d.path = k \o a.path
                      /\ d.before = a.before /\ d.after = a.after
                BY <2>2, <5>3, ChangesBelow
              <8> QED
                BY <8>1, Zenon
            <7>3. PICK d \in Walk(v, w) :
                    d.kind = c.kind /\ d.path = k \o c.path
                    /\ d.before = c.before /\ d.after = c.after
              BY <7>2, Zenon
            <7> QED
              BY <6>3, <7>1, <7>3 DEF ReplacedBy
          <6> QED
            BY <6>3, <6>6, <6>7 DEF Remains
        <5> QED
          BY <5>5, <5>6, <5>7 DEF Remains
      <4> QED
        BY <4>1, <4>2
    <3> QED
      BY <3>3 DEF AllRemains
  <2>3. CASE ~IsObject(v)
    <3>1. Nodes[v] = {Top(v)} /\ Top(v).at = <<>>
      BY <2>3, TopOf
    <3> QED
      BY <2>1, <3>1 DEF AllRemains, Remains
  <2>4. CASE IsObject(v) /\ ~IsObject(w)
    <3>1. /\ Top(w) \in Nodes[w] /\ Top(w).at = <<>> /\ Top(w).path = <<>>
          /\ Top(w).value = Plain[w] /\ Plain[w].kind = w.kind
      BY <2>4, TopOf, ValuesAssumption
    <3>2. ASSUME NEW n \in Nodes[v] PROVE IsPrefix(<<>>, n.at)
      <4>1. n \in AllNodes
        BY NodesOf
      <4>2. n.at \in Address /\ <<>> \in Seq(STRING)
        BY <4>1 DEF AllNodes, Address
      <4> QED
        BY <4>2, FrontOrder
    <3>3. Walk(v, w) = {SpecChange(<<>>, "changed", v, w)}
      <4>1. Plain[v] # Plain[w]
        BY <2>4, ValuesAssumption DEF IsObject
      <4> QED
        BY <2>4, <4>1, WalkOf DEF Replacement
    <3>4. ReplacedBy(v, w, Top(w))
      BY <2>4, <3>1, <3>3 DEF ReplacedBy, SpecChange, IsObject
    <3> HIDE DEF S
    <3> QED
      BY <3>1, <3>2, <3>4 DEF AllRemains, Remains
  <2> QED
    BY <2>2, <2>3, <2>4
<1>2. \A v \in Values : (\A u \in Values : Depth[u] < Depth[v] => u \in S) => v \in S
  BY <1>1
<1>3. Values \subseteq S
  <2>1. Depth \in [Values -> Nat]
    BY ValuesAssumption
  <2> HIDE DEF S
  <2> QED
    BY ONLY <1>2, <2>1, RankInduction
<1> QED
  BY <1>3

(* So a change that breaks nothing keeps everything, except what null      *)
(* replaces and what is no part of the contract.                           *)
LEMMA NothingBrokenKeeps ==
  ASSUME NEW before \in Values, NEW after \in Values,
         \A c \in Walk(before, after) : ~Breaks(c)
  PROVE  Keeps(before, after)
<1>1. AllRemains(before, after)
  BY NothingRemovedRemains DEF Breaks
<1>2. ASSUME NEW m \in Nodes[after], ReplacedBy(before, after, m)
      PROVE  Replaces(m)
  <2>1. PICK c \in Walk(before, after) :
          /\ c.kind = "changed" /\ c.path = m.path
          /\ IsObject(c.before) /\ ~IsObject(m.value) /\ m.value = Plain[c.after]
    BY <1>2 DEF ReplacedBy
  <2>2. c.before # None
    BY <2>1 DEF IsObject, None, Scalar
  <2>3. OfContract(m.path) => c.after = None
    <3>1. ~RestrictsContract(c)
      BY DEF Breaks
    <3> QED
      BY <2>1, <2>2, <3>1 DEF RestrictsContract
  <2>4. Shape(None) = Plain[None]
    BY DEF Shape, IsObject, None, Scalar
  <2> QED
    BY <2>1, <2>3, <2>4 DEF Replaces
<1>3. ASSUME NEW p \in Places(before)
      PROVE  p \in Places(after) \/ \E n \in Nodes[after] : IsPrefix(n.at, p) /\ Replaces(n)
  <2>1. PICK n \in Nodes[before] : p = n.at
    BY DEF Places
  <2>2. Remains(before, after, n)
    BY <1>1 DEF AllRemains
  <2> QED
    BY <1>2, <2>1, <2>2 DEF Remains
<1> QED
  BY <1>3 DEF Keeps

-----------------------------------------------------------------------------
(* What the client holds comes from the service: an event is the           *)
(* classified diff of two documents, and a job's status is the one for its *)
(* event.                                                                  *)
EventOK ==
  event # Nothing =>
    /\ event.before \in Documents /\ event.after \in Documents
    /\ event.id = "change"
    /\ event.changes = DiffOpenApi(event.before, event.after)
    /\ event.changes # {}
    /\ event.change_type = TypeOf(event.changes)
    /\ event.endpoints = AffectedEndpoints(event.changes)
NewsOK == news # Nothing => news.id = "news"
JobOK ==
  job # Nothing /\ job.event = "change" =>
    event # Nothing /\ job.status = StatusFor(event)
AnswerOK == answer.status = 204 => Alike(answer.about[1], answer.about[2])

EventsInv == EventOK /\ NewsOK /\ JobOK /\ AnswerOK

LEMMA DocumentsAreValues ==
  ASSUME NEW d \in Documents
  PROVE  d \in Values /\ IsObject(d)
BY IngestionAssumption

LEMMA EventsInitially == Init => EventsInv
BY DEF Init, EventsInv, EventOK, NewsOK, JobOK, AnswerOK, Status

LEMMA EventsStep == EventsInv /\ [Next]_vars => EventsInv'
<1> SUFFICES ASSUME EventsInv, [Next]_vars PROVE EventsInv'
  OBVIOUS
<1> USE DEF EventsInv
<1>1. CASE IngestOpenApi
  <2>1. PICK before \in Documents, after \in Documents, vendor \in Vendors :
          IF DiffOpenApi(before, after) = {}
          THEN /\ answer' = [status |-> 204, about |-> <<before, after>>]
               /\ UNCHANGED event
          ELSE /\ event' = [id |-> "change", vendor |-> vendor,
                            before |-> before, after |-> after,
                            changes |-> DiffOpenApi(before, after),
                            change_type |-> TypeOf(DiffOpenApi(before, after)),
                            endpoints |-> AffectedEndpoints(DiffOpenApi(before, after)),
                            fields |-> AffectedFields(DiffOpenApi(before, after))]
               /\ answer' = Status(200)
    BY <1>1 DEF IngestOpenApi
  <2>2. event = Nothing /\ UNCHANGED <<news, job>>
    BY <1>1 DEF IngestOpenApi
  <2>3. CASE DiffOpenApi(before, after) = {}
    <3>1. Alike(before, after)
      BY <2>3, DocumentsAreValues, NoChangeMeansAlike DEF DiffOpenApi, Alike
    <3> QED
      BY <2>1, <2>2, <2>3, <3>1 DEF EventOK, NewsOK, JobOK, AnswerOK
  <2>4. CASE DiffOpenApi(before, after) # {}
    <3>1. EventOK'
      BY <2>1, <2>4 DEF EventOK
    <3>2. AnswerOK'
      BY <2>1, <2>4 DEF AnswerOK, Status
    <3> QED
      BY <2>2, <3>1, <3>2 DEF NewsOK, JobOK
  <2> QED
    BY <2>3, <2>4
<1>2. CASE IngestVendorEvent
  <2>1. NewsOK'
    BY <1>2 DEF IngestVendorEvent, NewsOK
  <2> QED
    BY <1>2, <2>1 DEF IngestVendorEvent, EventOK, JobOK, AnswerOK, Status
<1>3. CASE IngestRepositorySnapshot
  BY <1>3 DEF IngestRepositorySnapshot, EventOK, NewsOK, JobOK, AnswerOK, Status
<1>4. CASE AnalyzeBlastRadius
  BY <1>4 DEF AnalyzeBlastRadius, EventOK, NewsOK, JobOK, AnswerOK, Status
<1>5. CASE CreateJob
  <2>1. PICK ev \in Events, dry_run \in BOOLEAN : CreateRemediationJob(ev, dry_run)
    BY <1>5 DEF CreateJob
  <2>2. JobOK'
    BY <1>5, <2>1 DEF CreateJob, CreateRemediationJob, JobOK, NewsOK, EventOK, Events
  <2>3. AnswerOK'
    BY <2>1 DEF CreateRemediationJob, AnswerOK, Status
  <2> QED
    BY <1>5, <2>2, <2>3 DEF CreateJob, EventOK, NewsOK
<1>6. CASE UNCHANGED vars
  BY <1>6 DEF vars, EventOK, NewsOK, JobOK, AnswerOK
<1> QED
  BY <1>1, <1>2, <1>3, <1>4, <1>5, <1>6 DEF Next

LEMMA EventsInvariant == Spec => []EventsInv
<1> QED
  BY EventsInitially, EventsStep, PTL DEF Spec

(* For any two documents: the changes that are reported are the topmost    *)
(* places where they differ, with what happened there, and nothing is      *)
(* answered as unchanged that is not (diff_openapi).                       *)
THEOREM IngestionDiffCoversExactly == Spec => []DiffCoversExactly
<1>1. EventsInv => DiffCoversExactly
  <2> SUFFICES ASSUME EventsInv, event # Nothing
               PROVE  {<<c.path, c.kind>> : c \in event.changes} =
                        {<<n.path, KindAt(n.at, event.before, event.after)>> :
                           n \in Topmost(Differing(event.before, event.after))}
    BY DEF EventsInv, AnswerOK, DiffCoversExactly
  <2>1. /\ event.before \in Values /\ event.after \in Values
        /\ event.changes = Walk(event.before, event.after)
    BY DocumentsAreValues DEF EventsInv, EventOK, DiffOpenApi
  <2> QED
    BY <2>1, WalkIsExact DEF Reported, Expected
<1> QED
  BY <1>1, EventsInvariant, PTL

(* For any two documents: a change that only adds, and deprecates nothing, *)
(* waits for an approval, and one that takes something away does not       *)
(* (classify_openapi_changes and create_remediation_job).                  *)
THEOREM IngestionHeldIfPureExtension == Spec => []HeldIfPureExtension
<1>1. EventsInv => HeldIfPureExtension
  <2> SUFFICES ASSUME EventsInv, job # Nothing, job.event = "change"
               PROVE  /\ Extends(event.before, event.after)
                         /\ ~(\E c \in event.changes : Deprecates(c))
                           => job.status = "awaiting-approval"
                      /\ job.status = "awaiting-approval" =>
                           Keeps(event.before, event.after)
    BY DEF HeldIfPureExtension
  <2>1. /\ event.before \in Values /\ event.after \in Values
        /\ event.changes = Walk(event.before, event.after)
        /\ event.changes # {}
        /\ job.status = StatusFor(event)
        /\ event.change_type = TypeOf(event.changes)
    BY DocumentsAreValues DEF EventsInv, EventOK, JobOK, DiffOpenApi
  <2>2. ASSUME Extends(event.before, event.after),
               ~(\E c \in event.changes : Deprecates(c))
        PROVE  job.status = "awaiting-approval"
    <3>1. \A c \in event.changes : c.kind = "added"
      BY <2>1, <2>2, ExtensionOnlyAdds
    <3>2. \A c \in event.changes : ~Breaks(c)
      BY <3>1 DEF Breaks, RestrictsContract
    <3>3. TypeOf(event.changes) = "new-feature"
      BY <2>1, <2>2, <3>1, <3>2 DEF TypeOf
    <3> QED
      BY <2>1, <3>3 DEF StatusFor
  <2>3. ASSUME job.status = "awaiting-approval"
        PROVE  Keeps(event.before, event.after)
    <3>1. TypeOf(event.changes) = "new-feature"
      BY <2>1, <2>3 DEF StatusFor
    <3>2. \A c \in event.changes : ~Breaks(c)
      BY <3>1 DEF TypeOf
    <3> QED
      BY <2>1, <3>2, NothingBrokenKeeps
  <2> QED
    BY <2>2, <2>3
<1> QED
  BY <1>1, EventsInvariant, PTL

(* A walk along a sequence: H[<<r, i>>] is what becomes of r at place i.   *)
WalkAlong(f, N, b, H) == [i \in 0 .. N |-> IF i = 0 THEN b ELSE H[<<f[i - 1], i>>]]
Walkable(N, R, b, H) == \E f \in [0 .. N -> R] : f = WalkAlong(f, N, b, H)

LEMMA WalksAlong ==
  ASSUME NEW N \in Nat, NEW R, NEW b \in R, NEW H \in [R \X (1 .. N) -> R]
  PROVE  Walkable(N, R, b, H)
<1> DEFINE D == 0 .. N
           rank == [i \in D |-> i]
           G == [f \in [D -> R] |-> WalkAlong(f, N, b, H)]
<1>1. rank \in [D -> Nat]
  OBVIOUS
<1>2. ASSUME NEW f \in [D -> R] PROVE WalkAlong(f, N, b, H) \in [D -> R]
  <2>1. ASSUME NEW i \in D
        PROVE  (IF i = 0 THEN b ELSE H[<<f[i - 1], i>>]) \in R
    <3>1. CASE i # 0
      <4>1. i - 1 \in D /\ i \in 1 .. N
        BY <3>1
      <4>2. <<f[i - 1], i>> \in R \X (1 .. N)
        BY <4>1
      <4> QED
        BY <3>1, <4>2
    <3> QED
      BY <3>1
  <2> QED
    BY <2>1 DEF WalkAlong
<1>3. G \in [[D -> R] -> [D -> R]]
  BY <1>2
<1>4. Descending(G, D, R, rank)
  <2>1. ASSUME NEW f \in [D -> R] PROVE G[f] = WalkAlong(f, N, b, H)
    OBVIOUS
  <2>2. ASSUME NEW f \in [D -> R], NEW g \in [D -> R], NEW x \in D,
               \A y \in D : rank[y] < rank[x] => f[y] = g[y]
        PROVE  WalkAlong(f, N, b, H)[x] = WalkAlong(g, N, b, H)[x]
    <3>1. x # 0 => x - 1 \in D /\ rank[x - 1] < rank[x]
      OBVIOUS
    <3>2. x # 0 => f[x - 1] = g[x - 1]
      BY <2>2, <3>1
    <3> QED
      BY <3>2 DEF WalkAlong
  <2> HIDE DEF D, rank, G
  <2>3. ASSUME NEW f \in [D -> R], NEW g \in [D -> R], NEW x \in D,
               \A y \in D : rank[y] < rank[x] => f[y] = g[y]
        PROVE  G[f][x] = G[g][x]
    <3>1. WalkAlong(f, N, b, H)[x] = WalkAlong(g, N, b, H)[x]
      BY <2>2, <2>3
    <3> QED
      BY <2>1, <3>1
  <2> QED
    BY <2>3 DEF Descending
<1>5. Solvable(G, D, R)
  <2> HIDE DEF D, rank, G
  <2> QED
    BY ONLY <1>1, <1>3, <1>4, b \in R, Recursion
<1> QED
  BY <1>5 DEF Solvable, Walkable

(* The segment before the first slash                                      *)
Blank == ""

(* The names between the slashes, once backslashes are slashes             *)
LEMMA FlatType ==
  ASSUME NEW n \in Nat, NEW seqs \in [1 .. n -> Seq(STRING)]
  PROVE  FlattenSeq(seqs) \in Seq(STRING)
<1> DEFINE By(f) == [i \in 1 .. n |-> IF i = 1 THEN seqs[i] ELSE f[i - 1] \o seqs[i]]
           flat == CHOOSE f : f = By(f)
           R == Seq(STRING)
           H == [x \in R \X (1 .. n) |-> IF x[2] = 1 THEN seqs[1] ELSE x[1] \o seqs[x[2]]]
<1>1. Len(seqs) = n
  OBVIOUS
<1>2. CASE n = 0
  <2>1. FlattenSeq(seqs) = seqs
    BY <1>1, <1>2 DEF FlattenSeq
  <2>2. seqs \in [1 .. 0 -> STRING]
    BY <1>2
  <2> QED
    BY <2>1, <2>2
<1>3. CASE n # 0
  <2>1. FlattenSeq(seqs) = flat[n]
    BY <1>1, <1>3, Zenon DEF FlattenSeq
  <2>2. \A i \in 1 .. n : seqs[i] \in R
    OBVIOUS
  <2>3. H \in [R \X (1 .. n) -> R]
    <3>1. ASSUME NEW x \in R \X (1 .. n)
          PROVE  (IF x[2] = 1 THEN seqs[1] ELSE x[1] \o seqs[x[2]]) \in R
      <4>1. x[1] \in R /\ seqs[x[2]] \in R
        BY <2>2
      <4>2. x[1] \o seqs[x[2]] \in R
        BY <4>1, ConcatProperties
      <4> QED
        BY <4>1, <4>2
    <3> QED
      BY <3>1
  <2>4. n \in Nat /\ <<>> \in R
    OBVIOUS
  <2>5. PICK f \in [0 .. n -> R] : f = WalkAlong(f, n, <<>>, H)
    <3> HIDE DEF R, H
    <3>1. Walkable(n, R, <<>>, H)
      BY ONLY <2>3, <2>4, WalksAlong
    <3> QED
      BY <3>1 DEF Walkable
  <2>6. ASSUME NEW i \in 1 .. n
        PROVE  f[i] = IF i = 1 THEN seqs[i] ELSE f[i - 1] \o seqs[i]
    <3>1. i - 1 \in 0 .. n /\ i \in 0 .. n /\ i # 0
      OBVIOUS
    <3>2. f[i] = H[<<f[i - 1], i>>]
      BY <2>5, <3>1 DEF WalkAlong
    <3>3. <<f[i - 1], i>> \in R \X (1 .. n)
      BY <3>1
    <3> QED
      BY <3>2, <3>3
  <2> DEFINE g == [i \in 1 .. n |-> f[i]]
  <2>7. g = By(g)
    <3>1. ASSUME NEW i \in 1 .. n, i # 1 PROVE g[i - 1] = f[i - 1]
      <4>1. i - 1 \in 1 .. n
        BY <3>1
      <4> QED
        BY <4>1
    <3> QED
      BY <2>6, <3>1
  <2>8. flat = By(flat)
    BY <2>7, Zenon
  <2> HIDE DEF flat, g
  <2>9. \A i \in 1 .. n : flat[i] = IF i = 1 THEN seqs[i] ELSE flat[i - 1] \o seqs[i]
    BY <2>8
  <2> DEFINE S == {i \in Nat : i + 1 <= n => flat[i + 1] \in R}
  <2>10. 0 \in S
    BY <2>2, <2>9
  <2>11. ASSUME NEW i \in Nat, i \in S PROVE i + 1 \in S
    <3> SUFFICES ASSUME (i + 1) + 1 <= n PROVE flat[(i + 1) + 1] \in R
      OBVIOUS
    <3>1. (i + 1) + 1 \in 1 .. n /\ (i + 1) + 1 # 1 /\ ((i + 1) + 1) - 1 = i + 1 /\ i + 1 <= n
      OBVIOUS
    <3>2. flat[i + 1] \in R /\ seqs[(i + 1) + 1] \in R
      BY <2>2, <2>11, <3>1
    <3>3. flat[(i + 1) + 1] = flat[i + 1] \o seqs[(i + 1) + 1]
      BY <2>9, <3>1
    <3> QED
      BY <3>2, <3>3, ConcatProperties
  <2>12. Nat \subseteq S
    <3> HIDE DEF S
    <3> QED
      BY <2>10, <2>11, Induction
  <2>13. n - 1 \in Nat /\ (n - 1) + 1 = n
    BY <1>3
  <2>14. flat[(n - 1) + 1] \in R
    <3>1. n - 1 \in S
      <4> HIDE DEF S
      <4> QED
        BY <2>12, <2>13
    <3> QED
      BY <2>13, <3>1
  <2> QED
    BY <2>1, <2>13, <2>14
<1> QED
  BY <1>2, <1>3

LEMMA SlashedType ==
  ASSUME NEW path \in Seq(STRING)
  PROVE  Slashed(path) \in Seq(STRING)
<1> DEFINE parts == [i \in 1 .. Len(path) |->
                       IF path[i] \in DOMAIN Pieces THEN Pieces[path[i]] ELSE <<path[i]>>]
<1>1. Len(path) \in Nat
  OBVIOUS
<1>2. parts \in [1 .. Len(path) -> Seq(STRING)]
  <2>1. ASSUME NEW i \in 1 .. Len(path)
        PROVE  (IF path[i] \in DOMAIN Pieces THEN Pieces[path[i]] ELSE <<path[i]>>) \in Seq(STRING)
    <3>1. path[i] \in STRING
      BY ElementOfSeq
    <3>2. <<path[i]>> \in Seq(STRING)
      BY <3>1
    <3>3. path[i] \in DOMAIN Pieces => Pieces[path[i]] \in Seq(STRING)
      BY IngestionAssumption
    <3> QED
      BY <3>2, <3>3
  <2> QED
    BY <2>1
<1> HIDE DEF parts
<1>3. FlattenSeq(parts) \in Seq(STRING)
  BY ONLY <1>1, <1>2, FlatType
<1> QED
  BY <1>3 DEF Slashed, parts

LEMMA AbsoluteIs == \A p : Absolute(p) <=> p # <<>> /\ p[1] = Blank
BY Zenon DEF Absolute, Blank

FromRoot(d) == d \in Seq(STRING) /\ d # <<>> /\ d[1] = Blank

LEMMA FirstName ==
  ASSUME NEW S, NEW b \in S
  PROVE  /\ <<b>> \in Seq(S) /\ <<b>> # <<>> /\ <<b>>[1] = b
         /\ <<b, b>> \in Seq(S) /\ <<b, b>> # <<>> /\ <<b, b>>[1] = b
OBVIOUS

LEMMA LeadingIs ==
  ASSUME NEW p \in Seq(STRING)
  PROVE  /\ Leading(p) \in Seq(STRING)
         /\ ~Absolute(p) => Leading(p) = <<>>
         /\ Absolute(p) => FromRoot(Leading(p))
<1> DEFINE Double == Len(p) > 2 /\ p[2] = Blank /\ (Len(p) > 3 => p[3] # Blank)
<1>1. Leading(p) = IF ~Absolute(p) THEN <<>>
                   ELSE IF Double THEN <<Blank, Blank>> ELSE <<Blank>>
  BY Zenon DEF Leading, Blank
<1>2. ASSUME p # <<>>, p[1] = Blank
      PROVE  FromRoot(<<Blank>>) /\ FromRoot(<<Blank, Blank>>)
  <2>1. 1 \in 1 .. Len(p)
    BY <1>2
  <2>2. p[1] \in STRING
    BY <2>1, ElementOfSeq
  <2>3. FromRoot(<<p[1]>>) /\ FromRoot(<<p[1], p[1]>>)
    BY <1>2, <2>2, FirstName, Zenon DEF FromRoot
  <2> QED
    BY <1>2, <2>3, Zenon
<1>3. Absolute(p) => FromRoot(<<Blank>>) /\ FromRoot(<<Blank, Blank>>)
  BY <1>2, AbsoluteIs, Zenon
<1>4. <<>> \in Seq(STRING) /\ \A d : FromRoot(d) => d \in Seq(STRING)
  BY DEF FromRoot
<1> HIDE DEF Double
<1> QED
  BY <1>1, <1>3, <1>4, Zenon

Steps(path) ==
  CHOOSE done : done = [i \in 0 .. Len(path) |->
                          IF i = 0 THEN Leading(path) ELSE Enter(done[i - 1], path[i])]

LEMMA EnterType ==
  ASSUME NEW done \in Seq(STRING), NEW s \in STRING
  PROVE  /\ Enter(done, s) \in Seq(STRING)
         /\ done # <<>> =>
              /\ Front(done) \in Seq(STRING) /\ Len(Front(done)) = Len(done) - 1
              /\ \A n \in 1 .. Len(done) - 1 : Front(done)[n] = done[n]
              /\ Last(done) = done[Len(done)]
<1>1. Append(done, s) \in Seq(STRING)
  BY AppendProperties
<1>2. ASSUME done # <<>>
      PROVE  /\ Front(done) \in Seq(STRING) /\ Len(Front(done)) = Len(done) - 1
             /\ \A n \in 1 .. Len(done) - 1 : Front(done)[n] = done[n]
  <2>1. Len(done) \in Nat \ {0}
    BY <1>2
  <2>2. \A i \in 1 .. Len(done) - 1 : done[i] \in STRING
    OBVIOUS
  <2> QED
    <3>1. 1 \in Int /\ Len(done) - 1 \in Int
      BY <2>1
    <3>2. /\ SubSeq(done, 1, Len(done) - 1) \in Seq(STRING)
          /\ Len(SubSeq(done, 1, Len(done) - 1)) =
               IF 1 <= Len(done) - 1 THEN Len(done) - 1 - 1 + 1 ELSE 0
          /\ \A n \in 1 .. Len(done) - 1 - 1 + 1 :
               SubSeq(done, 1, Len(done) - 1)[n] = done[1 + n - 1]
      BY ONLY <2>2, <3>1, SubSeqProperties
    <3>3. \A n \in 1 .. Len(done) - 1 : 1 + n - 1 = n /\ n \in 1 .. Len(done) - 1 - 1 + 1
      BY <2>1
    <3>4. Len(done) - 1 = IF 1 <= Len(done) - 1 THEN Len(done) - 1 - 1 + 1 ELSE 0
      BY <2>1
    <3> QED
      BY ONLY <3>2, <3>3, <3>4 DEF Front
<1>3. Enter(done, s) \in {done, Append(done, s)} \/ (done # <<>> /\ Enter(done, s) = Front(done))
  BY DEF Enter
<1> QED
  BY <1>1, <1>2, <1>3 DEF Last

LEMMA StepsOf ==
  ASSUME NEW path \in Seq(STRING)
  PROVE  /\ Steps(path)[0] = Leading(path)
         /\ \A i \in 0 .. Len(path) - 1 :
              Steps(path)[i + 1] = Enter(Steps(path)[i], path[i + 1])
<1> DEFINE N == Len(path)
           R == Seq(STRING)
           H == [x \in R \X (1 .. N) |-> Enter(x[1], path[x[2]])]
           By(done) == [i \in 0 .. Len(path) |->
                          IF i = 0 THEN Leading(path) ELSE Enter(done[i - 1], path[i])]
<1>1. N \in Nat /\ Leading(path) \in R
  BY LeadingIs
<1>2. H \in [R \X (1 .. N) -> R]
  <2>1. ASSUME NEW x \in R \X (1 .. N) PROVE Enter(x[1], path[x[2]]) \in R
    <3>1. x[1] \in Seq(STRING) /\ path[x[2]] \in STRING
      BY ElementOfSeq
    <3> QED
      BY <3>1, EnterType
  <2> QED
    BY <2>1
<1>3. PICK f \in [0 .. N -> R] : f = WalkAlong(f, N, Leading(path), H)
  <2> HIDE DEF N, R, H
  <2>1. Walkable(N, R, Leading(path), H)
    BY ONLY <1>1, <1>2, WalksAlong
  <2> QED
    BY <2>1 DEF Walkable
<1>4. f = By(f)
  <2>1. ASSUME NEW i \in 0 .. N, i # 0 PROVE H[<<f[i - 1], i>>] = Enter(f[i - 1], path[i])
    <3>1. i - 1 \in 0 .. N /\ i \in 1 .. N
      BY <2>1
    <3> HIDE DEF N
    <3>2. <<f[i - 1], i>> \in R \X (1 .. N)
      BY <3>1
    <3> QED
      BY <3>2
  <2> QED
    BY <1>3, <2>1 DEF WalkAlong
<1>5. Steps(path) = By(Steps(path))
  BY <1>4, Zenon DEF Steps
<1>6. Steps(path) = By(Steps(path)) =>
        /\ Steps(path)[0] = Leading(path)
        /\ \A i \in 0 .. Len(path) - 1 :
             Steps(path)[i + 1] = Enter(Steps(path)[i], path[i + 1])
  <2> DEFINE g == Steps(path)
  <2> HIDE DEF g
  <2>1. ASSUME g = By(g)
        PROVE  g[0] = Leading(path) /\ \A i \in 0 .. Len(path) - 1 : g[i + 1] = Enter(g[i], path[i + 1])
    <3>1. \A i \in 0 .. Len(path) : By(g)[i] = IF i = 0 THEN Leading(path) ELSE Enter(g[i - 1], path[i])
      OBVIOUS
    <3>2. g[0] = Leading(path)
      BY <1>1, <2>1, <3>1
    <3>3. ASSUME NEW i \in 0 .. Len(path) - 1 PROVE g[i + 1] = Enter(g[i], path[i + 1])
      <4>1. i + 1 \in 0 .. Len(path) /\ i + 1 # 0 /\ (i + 1) - 1 = i
        BY <1>1
      <4> HIDE DEF By
      <4> QED
        BY <2>1, <3>1, <4>1
    <3> QED
      BY <3>2, <3>3
  <2> QED
    BY <2>1 DEF g
<1> QED
  BY <1>5, <1>6

(* Going one segment further.                                              *)
IsName(s) == s \notin {"", ".", ".."}
Lead(s) == IF IsName(s) THEN 1 ELSE IF s = ".." THEN -1 ELSE 0

LEMMA UpIsNoName == \A s : s = ".." => ~IsName(s)
BY Zenon DEF IsName

LEMMA CountNext ==
  ASSUME NEW P, NEW i \in Nat, NEW j \in Nat, i <= j + 1
  PROVE  /\ Cardinality((i .. j) \cap P) \in Nat
         /\ Cardinality((i .. j + 1) \cap P) =
              Cardinality((i .. j) \cap P) + IF j + 1 \in P THEN 1 ELSE 0
         /\ Cardinality((j + 1 .. j) \cap P) = 0
<1> DEFINE S == (i .. j) \cap P
           T == (i .. j + 1) \cap P
<1>1. IsFiniteSet(S) /\ Cardinality(S) \in Nat
  <2>1. IsFiniteSet(i .. j)
    BY FS_Interval
  <2>2. S \in SUBSET (i .. j)
    OBVIOUS
  <2>3. IsFiniteSet(S)
    BY <2>1, <2>2, FS_Subset
  <2> QED
    BY <2>3, FS_CardinalityType
<1>4. Cardinality((j + 1 .. j) \cap P) = 0
  <2>1. (j + 1 .. j) \cap P = {}
    OBVIOUS
  <2> QED
    BY <2>1, FS_EmptySet
<1>2. CASE j + 1 \in P
  <2>1. T = S \cup {j + 1} /\ j + 1 \notin S
    BY <1>2
  <2> HIDE DEF S, T
  <2>2. Cardinality(S \cup {j + 1}) = Cardinality(S) + 1
    BY <1>1, <2>1, FS_AddElement
  <2>3. Cardinality(T) = Cardinality(S) + IF j + 1 \in P THEN 1 ELSE 0
    BY <1>2, <2>1, <2>2
  <2> QED
    BY ONLY <1>1, <1>4, <2>3 DEF S, T
<1>3. CASE j + 1 \notin P
  <2>1. T = S
    BY <1>3
  <2> HIDE DEF S, T
  <2>2. Cardinality(T) = Cardinality(S) + IF j + 1 \in P THEN 1 ELSE 0
    BY <1>1, <1>3, <2>1
  <2> QED
    BY ONLY <1>1, <1>4, <2>2 DEF S, T
<1> QED
  BY <1>1, <1>2, <1>3, <1>4

LEMMA DescentNext ==
  ASSUME NEW path, NEW i \in Nat, NEW j \in Nat, i <= j + 1
  PROVE  /\ Descent(path, i, j) \in Int
         /\ Descent(path, i, j + 1) = Descent(path, i, j) + Lead(path[j + 1])
         /\ Descent(path, j + 1, j) = 0
<1> DEFINE N == {k \in Nat : IsName(path[k])}
           U == {k \in Nat : path[k] = ".."}
           n(a, b) == Cardinality((a .. b) \cap N)
           u(a, b) == Cardinality((a .. b) \cap U)
<1>1. \A a, b \in Nat : Descent(path, a, b) = n(a, b) - u(a, b)
  <2>1. ASSUME NEW a \in Nat, NEW b \in Nat
        PROVE  Descent(path, a, b) = n(a, b) - u(a, b)
    <3>1. {k \in a .. b : IsName(path[k])} = (a .. b) \cap N
      OBVIOUS
    <3>2. {k \in a .. b : path[k] = ".."} = (a .. b) \cap U
      OBVIOUS
    <3>3. Descent(path, a, b) =
            Cardinality({k \in a .. b : IsName(path[k])})
              - Cardinality({k \in a .. b : path[k] = ".."})
      BY Zenon DEF Descent, IsName
    <3> QED
      BY <3>1, <3>2, <3>3
  <2> QED
    BY <2>1
<1>2. /\ n(i, j) \in Nat /\ n(i, j + 1) = n(i, j) + (IF j + 1 \in N THEN 1 ELSE 0)
      /\ n(j + 1, j) = 0
  <2> HIDE DEF N
  <2> QED
    BY CountNext
<1>3. /\ u(i, j) \in Nat /\ u(i, j + 1) = u(i, j) + (IF j + 1 \in U THEN 1 ELSE 0)
      /\ u(j + 1, j) = 0
  <2> HIDE DEF U
  <2> QED
    BY CountNext
<1>4. Lead(path[j + 1]) = (IF j + 1 \in N THEN 1 ELSE 0) - (IF j + 1 \in U THEN 1 ELSE 0)
  BY UpIsNoName DEF Lead
<1>5. j + 1 \in Nat
  OBVIOUS
<1> HIDE DEF N, U, n, u
<1> QED
  BY <1>1, <1>2, <1>3, <1>4, <1>5

(* A set of numbers in order is any increasing enumeration of it.          *)
Enumerates(s, m, K) ==
  /\ s \in [1 .. m -> K]
  /\ \A a, b \in 1 .. m : a < b => s[a] < s[b]
  /\ \A k \in K : \E n \in 1 .. m : s[n] = k

LEMMA EnumerationCounts ==
  ASSUME NEW m \in Nat, NEW K \in SUBSET Nat, NEW s, Enumerates(s, m, K)
  PROVE  Cardinality(K) = m
<1>1. s \in [1 .. m -> K] /\ \A k \in K : \E n \in 1 .. m : s[n] = k
  BY DEF Enumerates
<1>2. \A a, b \in 1 .. m : s[a] = s[b] => a = b
  <2>1. ASSUME NEW a \in 1 .. m, NEW b \in 1 .. m, s[a] = s[b] PROVE a = b
    <3>1. s[a] \in Nat /\ s[b] \in Nat
      BY <1>1
    <3>2. (a < b => s[a] < s[b]) /\ (b < a => s[b] < s[a])
      BY DEF Enumerates
    <3> QED
      BY <2>1, <3>1, <3>2
  <2> QED
    BY <2>1
<1>3. s \in Bijection(1 .. m, K)
  BY <1>1, <1>2 DEF Bijection, Injection, Surjection, IsInjective
<1>4. ExistsBijection(1 .. m, K)
  BY <1>3 DEF ExistsBijection
<1> QED
  BY ONLY m \in Nat, <1>4, FS_CountingElements

LEMMA EnumerationIsInOrder ==
  ASSUME NEW m \in Nat, NEW K \in SUBSET Nat, NEW s, Enumerates(s, m, K)
  PROVE  InOrder(K, <) = [n \in 1 .. m |-> s[n]]
<1>1. s \in [1 .. m -> K] /\ \A k \in K : \E n \in 1 .. m : s[n] = k
  BY DEF Enumerates
<1>2. ASSUME NEW n \in 1 .. m PROVE Cardinality({y \in K : y < s[n]}) = n - 1
  <2> DEFINE L == {y \in K : y < s[n]}
             t == [a \in 1 .. n - 1 |-> s[a]]
  <2>1. n - 1 \in Nat /\ \A a \in 1 .. n - 1 : a \in 1 .. m /\ a < n
    OBVIOUS
  <2>0. L \in SUBSET Nat
    OBVIOUS
  <2>2. t \in [1 .. n - 1 -> L]
    <3>1. \A a \in 1 .. n - 1 : s[a] \in K /\ s[a] < s[n]
      BY <1>1, <2>1 DEF Enumerates
    <3> QED
      BY <3>1
  <2>3. \A a, b \in 1 .. n - 1 : a < b => t[a] < t[b]
    BY <2>1 DEF Enumerates
  <2>4. ASSUME NEW k \in L PROVE \E a \in 1 .. n - 1 : t[a] = k
    <3>1. PICK a \in 1 .. m : s[a] = k
      BY <1>1
    <3>2. s[n] \in Nat /\ s[a] \in Nat /\ s[a] < s[n]
      BY <1>1, <3>1
    <3>3. ~(n < a) /\ n # a
      BY <3>2 DEF Enumerates
    <3>4. a \in 1 .. n - 1
      BY <3>3
    <3> QED
      BY <3>1, <3>4
  <2>5. Enumerates(t, n - 1, L)
    <3> HIDE DEF t, L
    <3> QED
      BY <2>2, <2>3, <2>4 DEF Enumerates
  <2> HIDE DEF t, L
  <2>6. Cardinality(L) = n - 1
    BY ONLY <2>0, <2>1, <2>5, EnumerationCounts
  <2> QED
    BY <2>6 DEF L
<1>3. Cardinality(K) = m
  BY EnumerationCounts
<1>4. ASSUME NEW n \in 1 .. m
      PROVE  (CHOOSE x \in K : Cardinality({y \in K : y < x}) = n - 1) = s[n]
  <2>1. s[n] \in K /\ Cardinality({y \in K : y < s[n]}) = n - 1
    BY <1>1, <1>2
  <2>2. ASSUME NEW x \in K, Cardinality({y \in K : y < x}) = n - 1 PROVE x = s[n]
    <3>1. PICK a \in 1 .. m : s[a] = x
      BY <1>1
    <3>2. a - 1 = n - 1
      BY <1>2, <2>2, <3>1
    <3> QED
      BY <3>1, <3>2
  <2> QED
    BY <2>1, <2>2
<1> QED
  BY <1>3, <1>4 DEF InOrder

(* Within the root, what is done after i segments is the names that are    *)
(* kept of them, in order; outside, it begins with "..".                   *)
InsideTo(path, i) == \A j \in 1 .. i : Descent(path, 1, j) >= 0
KeptAt(path, i) ==
  {k \in 1 .. i : /\ IsName(path[k])
                  /\ \A j \in k + 1 .. i : Descent(path, k + 1, j) >= 0}
LedBy(path, i, d, s) ==
  /\ Enumerates(s, Len(d), KeptAt(path, i))
  /\ Descent(path, 1, i) = Len(d)
  /\ \A n \in 1 .. Len(d) :
       d[n] = path[s[n]] /\ Descent(path, s[n] + 1, i) = Len(d) - n
Led(path, i, d) == \E s : LedBy(path, i, d, s)

LEMMA KeptNext ==
  ASSUME NEW path, NEW i \in Nat
  PROVE  /\ \A k \in 1 .. i :
              k \in KeptAt(path, i + 1) <=>
                /\ k \in KeptAt(path, i)
                /\ Descent(path, k + 1, i) + Lead(path[i + 1]) >= 0
         /\ i + 1 \in KeptAt(path, i + 1) <=> IsName(path[i + 1])
         /\ KeptAt(path, i) \subseteq 1 .. i
         /\ \A k \in KeptAt(path, i) :
              IsName(path[k]) /\ Descent(path, k + 1, i) \in Nat
<1>1. ASSUME NEW k \in 1 .. i
      PROVE  /\ Descent(path, k + 1, i + 1) = Descent(path, k + 1, i) + Lead(path[i + 1])
             /\ Descent(path, k + 1, i) \in Int
  <2>1. k + 1 \in Nat /\ k + 1 <= i + 1
    OBVIOUS
  <2> QED
    BY <2>1, DescentNext
<1>2. ASSUME NEW k \in KeptAt(path, i)
      PROVE  k \in 1 .. i /\ IsName(path[k]) /\ Descent(path, k + 1, i) \in Nat
  <2>1. k \in 1 .. i /\ IsName(path[k]) /\ \A j \in k + 1 .. i : Descent(path, k + 1, j) >= 0
    BY DEF KeptAt
  <2>2. CASE k = i
    <3>1. 1 \in Nat /\ 1 <= i + 1 /\ i + 1 \in Nat
      OBVIOUS
    <3>2. Descent(path, i + 1, i) = 0
      BY <3>1, DescentNext
    <3> QED
      BY <2>1, <2>2, <3>2
  <2>3. CASE k # i
    <3>1. i \in k + 1 .. i
      BY <2>1, <2>3
    <3> QED
      BY <1>1, <2>1, <3>1
  <2> QED
    BY <2>2, <2>3
<1>3. ASSUME NEW k \in 1 .. i
      PROVE  k \in KeptAt(path, i + 1) <=>
                k \in KeptAt(path, i) /\ Descent(path, k + 1, i + 1) >= 0
  <2>1. k \in 1 .. i + 1 /\ i + 1 \in k + 1 .. i + 1
    OBVIOUS
  <2>2. \A j : j \in k + 1 .. i + 1 <=> j \in k + 1 .. i \/ j = i + 1
    OBVIOUS
  <2> QED
    BY <2>1, <2>2 DEF KeptAt
<1>4. i + 1 \in KeptAt(path, i + 1) <=> IsName(path[i + 1])
  BY DEF KeptAt
<1> QED
  BY <1>1, <1>2, <1>3, <1>4

LEMMA LedStart ==
  ASSUME NEW path
  PROVE  Led(path, 0, <<>>)
<1>1. KeptAt(path, 0) = {}
  BY DEF KeptAt
<1>2. Descent(path, 1, 0) = 0
  <2>1. \A j \in Nat : 0 <= j + 1 => Descent(path, j + 1, j) = 0
    BY DescentNext, 0 \in Nat
  <2> QED
    BY <2>1
<1> DEFINE none == [n \in 1 .. 0 |-> 0]
<1>3. Enumerates(none, 0, {})
  BY DEF Enumerates
<1>4. Len(<<>>) = 0
  OBVIOUS
<1> HIDE DEF none
<1>5. LedBy(path, 0, <<>>, none)
  BY <1>1, <1>2, <1>3, <1>4 DEF LedBy
<1> QED
  BY <1>5 DEF Led

LEMMA LedName ==
  ASSUME NEW path, NEW i \in Nat, NEW d \in Seq(STRING), Led(path, i, d),
         path[i + 1] \in STRING, IsName(path[i + 1])
  PROVE  Led(path, i + 1, Append(d, path[i + 1]))
<1> DEFINE m == Len(d)
           e == Append(d, path[i + 1])
<1>1. PICK s : LedBy(path, i, d, s)
  BY DEF Led
<1>2. /\ m \in Nat /\ Len(e) = m + 1 /\ e[m + 1] = path[i + 1]
      /\ \A n \in 1 .. m : e[n] = d[n]
  BY AppendProperties
<1>3. Lead(path[i + 1]) = 1
  BY DEF Lead
<1> DEFINE t == [n \in 1 .. m + 1 |-> IF n = m + 1 THEN i + 1 ELSE s[n]]
<1>4. \A n \in 1 .. m : s[n] \in KeptAt(path, i) /\ s[n] \in 1 .. i
  BY <1>1, KeptNext DEF LedBy, Enumerates
<1>5. \A n \in 1 .. m + 1 : n = m + 1 \/ n \in 1 .. m
  BY <1>2
<1>6. t[m + 1] = i + 1 /\ \A n \in 1 .. m : t[n] = s[n]
  BY <1>2
<1>7. \A k : k \in KeptAt(path, i + 1) <=> k \in KeptAt(path, i) \/ k = i + 1
  <2>1. \A k \in 1 .. i : k \in KeptAt(path, i + 1) <=> k \in KeptAt(path, i)
    <3>1. \A k \in 1 .. i :
            k \in KeptAt(path, i + 1) <=>
              /\ k \in KeptAt(path, i)
              /\ Descent(path, k + 1, i) + Lead(path[i + 1]) >= 0
      BY KeptNext
    <3>2. \A k \in KeptAt(path, i) : Descent(path, k + 1, i) \in Nat
      BY KeptNext
    <3> QED
      BY <1>3, <3>1, <3>2
  <2>2. KeptAt(path, i + 1) \subseteq 1 .. i + 1 /\ KeptAt(path, i) \subseteq 1 .. i
    BY DEF KeptAt
  <2>3. \A k \in 1 .. i + 1 : k \in 1 .. i \/ k = i + 1
    OBVIOUS
  <2>4. i + 1 \in KeptAt(path, i + 1)
    BY KeptNext
  <2> QED
    BY <2>1, <2>2, <2>3, <2>4
<1>8. Enumerates(t, m + 1, KeptAt(path, i + 1))
  <2>1. t \in [1 .. m + 1 -> KeptAt(path, i + 1)]
    BY <1>4, <1>5, <1>7
  <2> HIDE DEF t
  <2>2. ASSUME NEW a \in 1 .. m + 1, NEW b \in 1 .. m + 1, a < b PROVE t[a] < t[b]
    <3>1. a \in 1 .. m
      BY <1>2, <2>2
    <3>2. CASE b = m + 1
      BY <1>4, <1>6, <3>1, <3>2
    <3>3. CASE b \in 1 .. m
      BY <1>1, <1>6, <2>2, <3>1, <3>3 DEF LedBy, Enumerates
    <3> QED
      BY <1>5, <3>2, <3>3
  <2>3. ASSUME NEW k \in KeptAt(path, i + 1) PROVE \E n \in 1 .. m + 1 : t[n] = k
    <3>1. CASE k = i + 1
      BY <1>2, <1>6, <3>1
    <3>2. CASE k \in KeptAt(path, i)
      <4>1. PICK n \in 1 .. m : s[n] = k
        BY <1>1, <3>2 DEF LedBy, Enumerates
      <4>2. n \in 1 .. m + 1
        BY <1>2
      <4> QED
        BY <1>6, <4>1, <4>2
    <3> QED
      BY <1>7, <3>1, <3>2
  <2> QED
    BY <2>1, <2>2, <2>3 DEF Enumerates
<1> HIDE DEF t
<1>9. ASSUME NEW n \in 1 .. m + 1
      PROVE  e[n] = path[t[n]] /\ Descent(path, t[n] + 1, i + 1) = (m + 1) - n
  <2>1. CASE n = m + 1
    <3>1. \A j \in Nat : 0 <= j + 1 => Descent(path, j + 1, j) = 0
      BY DescentNext, 0 \in Nat
    <3>2. Descent(path, i + 1 + 1, i + 1) = 0
      BY <3>1, i + 1 \in Nat, 0 <= i + 1 + 1
    <3> QED
      BY <1>2, <1>6, <2>1, <3>2
  <2>2. CASE n \in 1 .. m
    <3>1. /\ s[n] + 1 \in Nat /\ s[n] + 1 <= i + 1 /\ t[n] = s[n]
          /\ Descent(path, s[n] + 1, i) = m - n /\ d[n] = path[s[n]]
      BY <1>1, <1>4, <1>6, <2>2 DEF LedBy
    <3>2. Descent(path, s[n] + 1, i + 1) = Descent(path, s[n] + 1, i) + Lead(path[i + 1])
      BY <3>1, DescentNext
    <3> QED
      BY <1>2, <1>3, <2>2, <3>1, <3>2
  <2> QED
    BY <1>5, <2>1, <2>2
<1>10. Descent(path, 1, i + 1) = m + 1
  <2>1. 1 \in Nat /\ 1 <= i + 1
    OBVIOUS
  <2>2. Descent(path, 1, i + 1) = Descent(path, 1, i) + Lead(path[i + 1])
    BY <2>1, DescentNext
  <2> QED
    BY <1>1, <1>3, <2>2 DEF LedBy
<1> HIDE DEF e, m
<1>11. LedBy(path, i + 1, e, t)
  BY <1>2, <1>8, <1>9, <1>10 DEF LedBy
<1> QED
  BY <1>11 DEF Led, e

LEMMA LedUp ==
  ASSUME NEW path, NEW i \in Nat, NEW d \in Seq(STRING), Led(path, i, d),
         path[i + 1] \in STRING, path[i + 1] = "..", d # <<>>
  PROVE  Led(path, i + 1, Front(d))
<1> DEFINE m == Len(d)
           e == Front(d)
<1>1. PICK s : LedBy(path, i, d, s)
  BY DEF Led
<1>2. m \in Nat /\ m > 0 /\ Len(e) = m - 1 /\ \A n \in 1 .. m - 1 : e[n] = d[n]
  <2>1. Len(e) = m - 1 /\ \A n \in 1 .. m - 1 : e[n] = d[n]
    BY EnterType
  <2>2. m \in Nat /\ m > 0
    OBVIOUS
  <2> QED
    BY <2>1, <2>2
<1>3. Lead(path[i + 1]) = -1 /\ ~IsName(path[i + 1])
  BY UpIsNoName DEF Lead
<1> DEFINE t == [n \in 1 .. m - 1 |-> s[n]]
<1>4. \A n \in 1 .. m : s[n] \in KeptAt(path, i) /\ s[n] \in 1 .. i
  BY <1>1, KeptNext DEF LedBy, Enumerates
<1>5. \A n \in 1 .. m - 1 : n \in 1 .. m /\ t[n] = s[n]
  BY <1>2
<1>6. \A n \in 1 .. m : s[n] \in KeptAt(path, i + 1) <=> n \in 1 .. m - 1
  <2>1. ASSUME NEW n \in 1 .. m PROVE s[n] \in KeptAt(path, i + 1) <=> n \in 1 .. m - 1
    <3>1. s[n] \in KeptAt(path, i + 1) <=>
            s[n] \in KeptAt(path, i) /\ Descent(path, s[n] + 1, i) + Lead(path[i + 1]) >= 0
      BY <1>4, KeptNext
    <3>2. Descent(path, s[n] + 1, i) = m - n
      BY <1>1 DEF LedBy
    <3> QED
      BY <1>2, <1>3, <1>4, <3>1, <3>2
  <2> QED
    BY <2>1
<1>7. Enumerates(t, m - 1, KeptAt(path, i + 1))
  <2>1. t \in [1 .. m - 1 -> KeptAt(path, i + 1)]
    BY <1>5, <1>6
  <2> HIDE DEF t
  <2>2. \A a, b \in 1 .. m - 1 : a < b => t[a] < t[b]
    BY <1>1, <1>5 DEF LedBy, Enumerates
  <2>3. ASSUME NEW k \in KeptAt(path, i + 1) PROVE \E n \in 1 .. m - 1 : t[n] = k
    <3>1. k \in 1 .. i + 1 /\ IsName(path[k])
      BY DEF KeptAt
    <3>2. k \in 1 .. i
      BY <1>3, <3>1
    <3>3. k \in KeptAt(path, i)
      BY <3>2, KeptNext
    <3>4. PICK n \in 1 .. m : s[n] = k
      BY <1>1, <3>3 DEF LedBy, Enumerates
    <3> QED
      BY <1>5, <1>6, <3>4
  <2> QED
    BY <2>1, <2>2, <2>3 DEF Enumerates
<1> HIDE DEF t
<1>8. ASSUME NEW n \in 1 .. m - 1
      PROVE  e[n] = path[t[n]] /\ Descent(path, t[n] + 1, i + 1) = (m - 1) - n
  <2>1. /\ s[n] + 1 \in Nat /\ s[n] + 1 <= i + 1 /\ t[n] = s[n]
        /\ Descent(path, s[n] + 1, i) = m - n /\ d[n] = path[s[n]]
    BY <1>1, <1>4, <1>5 DEF LedBy
  <2>2. Descent(path, s[n] + 1, i + 1) = Descent(path, s[n] + 1, i) + Lead(path[i + 1])
    BY <2>1, DescentNext
  <2> QED
    BY <1>2, <1>3, <2>1, <2>2
<1>9. Descent(path, 1, i + 1) = m - 1
  <2>1. 1 \in Nat /\ 1 <= i + 1
    OBVIOUS
  <2>2. Descent(path, 1, i + 1) = Descent(path, 1, i) + Lead(path[i + 1])
    BY <2>1, DescentNext
  <2> QED
    BY <1>1, <1>2, <1>3, <2>2 DEF LedBy
<1> HIDE DEF e, m
<1>10. LedBy(path, i + 1, e, t)
  BY <1>2, <1>7, <1>8, <1>9 DEF LedBy
<1> QED
  BY <1>10 DEF Led, e

LEMMA LedSame ==
  ASSUME NEW path, NEW i \in Nat, NEW d \in Seq(STRING), Led(path, i, d),
         ~IsName(path[i + 1]), path[i + 1] # ".."
  PROVE  Led(path, i + 1, d)
<1>1. PICK s : LedBy(path, i, d, s)
  BY DEF Led
<1>2. Lead(path[i + 1]) = 0 /\ Len(d) \in Nat
  BY DEF Lead
<1>3. \A n \in 1 .. Len(d) : s[n] \in KeptAt(path, i) /\ s[n] \in 1 .. i
  BY <1>1, KeptNext DEF LedBy, Enumerates
<1>4. KeptAt(path, i + 1) = KeptAt(path, i)
  <2>1. \A k \in 1 .. i :
          k \in KeptAt(path, i + 1) <=>
            /\ k \in KeptAt(path, i)
            /\ Descent(path, k + 1, i) + Lead(path[i + 1]) >= 0
    BY KeptNext
  <2>2. \A k \in KeptAt(path, i) : Descent(path, k + 1, i) \in Nat
    BY KeptNext
  <2>3. \A k \in 1 .. i : k \in KeptAt(path, i + 1) <=> k \in KeptAt(path, i)
    BY <1>2, <2>1, <2>2
  <2>4. KeptAt(path, i + 1) \subseteq 1 .. i + 1 /\ KeptAt(path, i) \subseteq 1 .. i
    BY DEF KeptAt
  <2>5. i + 1 \notin KeptAt(path, i + 1)
    BY KeptNext
  <2>6. \A k \in 1 .. i + 1 : k \in 1 .. i \/ k = i + 1
    OBVIOUS
  <2> QED
    BY <2>3, <2>4, <2>5, <2>6
<1>5. ASSUME NEW n \in 1 .. Len(d)
      PROVE  d[n] = path[s[n]] /\ Descent(path, s[n] + 1, i + 1) = Len(d) - n
  <2>1. /\ s[n] + 1 \in Nat /\ s[n] + 1 <= i + 1
        /\ Descent(path, s[n] + 1, i) = Len(d) - n /\ d[n] = path[s[n]]
    BY <1>1, <1>3 DEF LedBy
  <2>2. Descent(path, s[n] + 1, i + 1) = Descent(path, s[n] + 1, i) + Lead(path[i + 1])
    BY <2>1, DescentNext
  <2> QED
    BY <1>2, <2>1, <2>2
<1>6. Descent(path, 1, i + 1) = Len(d)
  <2>1. 1 \in Nat /\ 1 <= i + 1
    OBVIOUS
  <2>2. Descent(path, 1, i + 1) = Descent(path, 1, i) + Lead(path[i + 1])
    BY <2>1, DescentNext
  <2> QED
    BY <1>1, <1>2, <2>2 DEF LedBy
<1>7. LedBy(path, i + 1, d, s)
  BY <1>1, <1>4, <1>5, <1>6 DEF LedBy
<1> QED
  BY <1>7 DEF Led

Walked(path, i, d) ==
  IF InsideTo(path, i) THEN Led(path, i, d) ELSE d # <<>> /\ d[1] = ".."

LEMMA WalkedStep ==
  ASSUME NEW path, NEW i \in Nat, NEW d \in Seq(STRING), path[i + 1] \in STRING,
         Walked(path, i, d)
  PROVE  Walked(path, i + 1, Enter(d, path[i + 1]))
<1> DEFINE x == path[i + 1]
<1>1. InsideTo(path, i + 1) <=> InsideTo(path, i) /\ Descent(path, 1, i + 1) >= 0
  <2>1. i + 1 \in 1 .. i + 1 /\ \A j : j \in 1 .. i + 1 <=> j \in 1 .. i \/ j = i + 1
    OBVIOUS
  <2> QED
    BY <2>1 DEF InsideTo
<1>2. Descent(path, 1, i + 1) = Descent(path, 1, i) + Lead(x)
  <2>1. 1 \in Nat /\ 1 <= i + 1
    OBVIOUS
  <2> QED
    BY <2>1, DescentNext
<1>3. /\ IsName(x) => Enter(d, x) = Append(d, x)
      /\ x = ".." /\ d # <<>> /\ IsName(Last(d)) => Enter(d, x) = Front(d)
      /\ x = ".." /\ d = <<>> => Enter(d, x) = Append(d, x)
      /\ Enter(d, x) \in {d, Append(d, x)} \/ (Enter(d, x) = Front(d) /\ Last(d) # "..")
      /\ ~IsName(x) /\ x # ".." => Enter(d, x) = d
  BY Zenon DEF Enter, IsName
<1>6. Append(d, x) # <<>> /\ \A n \in 1 .. Len(d) : Append(d, x)[n] = d[n]
  BY AppendProperties
<1> HIDE DEF x
<1>4. ASSUME InsideTo(path, i) PROVE Walked(path, i + 1, Enter(d, x))
  <2>1. Led(path, i, d)
    BY <1>4 DEF Walked
  <2>2. Descent(path, 1, i) = Len(d) /\ Len(d) \in Nat
    BY <2>1 DEF Led, LedBy
  <2>3. CASE IsName(x)
    <3>1. Lead(x) = 1
      BY <2>3 DEF Lead
    <3>2. InsideTo(path, i + 1)
      BY <1>1, <1>2, <1>4, <2>2, <3>1
    <3>3. Led(path, i + 1, Append(d, x))
      BY <2>1, <2>3, LedName DEF x
    <3> QED
      BY <1>3, <2>3, <3>2, <3>3 DEF Walked
  <2>4. CASE ~IsName(x) /\ x # ".."
    <3>1. Lead(x) = 0
      BY <2>4 DEF Lead
    <3>2. InsideTo(path, i + 1)
      BY <1>1, <1>2, <1>4, <2>2, <3>1
    <3>3. Led(path, i + 1, d)
      BY <2>1, <2>4, LedSame DEF x
    <3> QED
      BY <1>3, <2>4, <3>2, <3>3 DEF Walked
  <2>5. CASE x = ".." /\ d # <<>>
    <3>1. Lead(x) = -1
      BY <2>5, UpIsNoName DEF Lead
    <3>2. Len(d) > 0
      BY <2>5
    <3>3. InsideTo(path, i + 1)
      BY <1>1, <1>2, <1>4, <2>2, <3>1, <3>2
    <3>4. Led(path, i + 1, Front(d))
      BY <2>1, <2>5, LedUp DEF x
    <3>5. IsName(Last(d))
      <4>1. PICK s : LedBy(path, i, d, s)
        BY <2>1 DEF Led
      <4>2. Len(d) \in 1 .. Len(d)
        BY <2>2, <3>2
      <4>3. s[Len(d)] \in KeptAt(path, i) /\ d[Len(d)] = path[s[Len(d)]]
        BY <4>1, <4>2 DEF LedBy, Enumerates
      <4>4. IsName(d[Len(d)])
        BY <4>3, KeptNext
      <4> QED
        BY <4>4 DEF Last
    <3> QED
      BY <1>3, <2>5, <3>3, <3>4, <3>5 DEF Walked
  <2>6. CASE x = ".." /\ d = <<>>
    <3>1. Lead(x) = -1 /\ Len(d) = 0
      BY <2>6, UpIsNoName DEF Lead
    <3>2. ~InsideTo(path, i + 1)
      BY <1>1, <1>2, <2>2, <3>1
    <3>3. Enter(d, x) = Append(d, x)
      BY <1>3, <2>6
    <3>4. Append(d, x) # <<>> /\ Append(d, x)[1] = x
      BY <2>6
    <3> QED
      BY <2>6, <3>2, <3>3, <3>4 DEF Walked
  <2> QED
    BY <2>3, <2>4, <2>5, <2>6, UpIsNoName
<1>5. ASSUME ~InsideTo(path, i) PROVE Walked(path, i + 1, Enter(d, x))
  <2>1. d # <<>> /\ d[1] = ".." /\ ~InsideTo(path, i + 1)
    BY <1>1, <1>5 DEF Walked
  <2>2. Len(d) \in Nat /\ Len(d) > 0 /\ x \in STRING
    BY <2>1 DEF x
  <2>3. Append(d, x) # <<>> /\ Append(d, x)[1] = d[1]
    <3>1. 1 \in 1 .. Len(d)
      BY <2>2
    <3> QED
      BY <1>6, <3>1
  <2>4. ASSUME Last(d) # ".." PROVE Front(d) # <<>> /\ Front(d)[1] = d[1]
    <3>1. Len(d) > 1
      BY <2>1, <2>2, <2>4 DEF Last
    <3>2. Len(Front(d)) = Len(d) - 1 /\ \A n \in 1 .. Len(d) - 1 : Front(d)[n] = d[n]
      BY <2>1, <2>2, EnterType
    <3>3. Len(Front(d)) > 0 /\ Front(d)[1] = d[1]
      BY <2>2, <3>1, <3>2
    <3> QED
      BY <3>3
  <2>5. Enter(d, x) \in {d, Append(d, x)} \/ (Enter(d, x) = Front(d) /\ Last(d) # "..")
    BY <1>3
  <2>6. Enter(d, x) # <<>> /\ Enter(d, x)[1] = ".."
    BY <2>1, <2>3, <2>4, <2>5
  <2> QED
    BY <2>1, <2>6 DEF Walked
<1> QED
  BY <1>4, <1>5 DEF x

LEMMA StepsWalked ==
  ASSUME NEW path \in Seq(STRING), ~Absolute(path)
  PROVE  \A i \in 0 .. Len(path) :
           Steps(path)[i] \in Seq(STRING) /\ Walked(path, i, Steps(path)[i])
<1> DEFINE S == {i \in Nat : i <= Len(path) =>
                   Steps(path)[i] \in Seq(STRING) /\ Walked(path, i, Steps(path)[i])}
<1>1. 0 \in S
  <2>1. Steps(path)[0] = <<>> /\ <<>> \in Seq(STRING)
    BY StepsOf, LeadingIs
  <2>2. InsideTo(path, 0)
    BY DEF InsideTo
  <2>3. Walked(path, 0, <<>>)
    BY <2>2, LedStart DEF Walked
  <2> QED
    BY <2>1, <2>3
<1>2. ASSUME NEW i \in Nat, i \in S PROVE i + 1 \in S
  <2> SUFFICES ASSUME i + 1 <= Len(path)
               PROVE  /\ Steps(path)[i + 1] \in Seq(STRING)
                      /\ Walked(path, i + 1, Steps(path)[i + 1])
    OBVIOUS
  <2>1. Len(path) \in Nat /\ i <= Len(path) /\ i \in 0 .. Len(path) - 1 /\ i + 1 \in 1 .. Len(path)
    OBVIOUS
  <2>2. path[i + 1] \in STRING
    BY <2>1, ElementOfSeq
  <2>3. Steps(path)[i] \in Seq(STRING) /\ Walked(path, i, Steps(path)[i])
    BY <1>2, <2>1
  <2>4. Steps(path)[i + 1] = Enter(Steps(path)[i], path[i + 1])
    BY <2>1, StepsOf
  <2>5. Enter(Steps(path)[i], path[i + 1]) \in Seq(STRING)
    BY <2>2, <2>3, EnterType
  <2>6. Walked(path, i + 1, Enter(Steps(path)[i], path[i + 1]))
    BY ONLY i \in Nat, <2>2, <2>3, WalkedStep
  <2> QED
    BY <2>4, <2>5, <2>6
<1>3. Nat \subseteq S
  <2> HIDE DEF S
  <2> QED
    BY <1>1, <1>2, Induction
<1> QED
  BY <1>3

(* A path that begins with a slash keeps it.                               *)
LEMMA FirstStays ==
  ASSUME NEW S, NEW d \in Seq(S), d # <<>>, NEW x \in S
  PROVE  /\ Append(d, x) \in Seq(S) /\ Append(d, x) # <<>> /\ Append(d, x)[1] = d[1]
         /\ Last(d) # d[1] =>
              Front(d) \in Seq(S) /\ Front(d) # <<>> /\ Front(d)[1] = d[1]
<1>1. Len(d) \in Nat /\ Len(d) > 0 /\ 1 \in 1 .. Len(d)
  OBVIOUS
<1>2. Append(d, x) \in Seq(S) /\ Append(d, x) # <<>> /\ Append(d, x)[1] = d[1]
  BY <1>1, AppendProperties
<1>3. ASSUME Last(d) # d[1]
      PROVE  Front(d) \in Seq(S) /\ Front(d) # <<>> /\ Front(d)[1] = d[1]
  <2>1. Len(d) > 1
    BY <1>1, <1>3 DEF Last
  <2>2. 1 \in 1 .. Len(d) - 1
    BY <1>1, <2>1
  <2>3. \A i \in 1 .. Len(d) - 1 : d[i] \in S
    BY <1>1
  <2>4. 1 \in Int /\ Len(d) - 1 \in Int
    BY <1>1
  <2>5. /\ Front(d) \in Seq(S)
        /\ Len(Front(d)) = IF 1 <= Len(d) - 1 THEN Len(d) - 1 - 1 + 1 ELSE 0
        /\ \A n \in 1 .. Len(d) - 1 - 1 + 1 : Front(d)[n] = d[1 + n - 1]
    BY ONLY <2>3, <2>4, SubSeqProperties DEF Front
  <2>6. 1 \in 1 .. Len(d) - 1 - 1 + 1 /\ 1 + 1 - 1 = 1
    BY <1>1, <2>1
  <2>7. Front(d)[1] = d[1] /\ Len(Front(d)) # 0
    BY <1>1, <2>1, <2>5, <2>6
  <2> QED
    BY <2>5, <2>7
<1> QED
  BY <1>2, <1>3

LEMMA EnterFromRoot ==
  ASSUME NEW d, FromRoot(d), NEW x \in STRING
  PROVE  FromRoot(Enter(d, x))
<1>1. Enter(d, x) = IF x \in {Blank, "."} THEN d
                    ELSE IF x # ".." \/ d = <<>> \/ Last(d) = ".." THEN Append(d, x)
                    ELSE IF Last(d) = Blank THEN d
                    ELSE Front(d)
  BY Zenon DEF Enter, Blank
<1>2. FromRoot(Append(d, x)) /\ (Last(d) # Blank => FromRoot(Front(d)))
  BY FirstStays, Zenon DEF FromRoot
<1> QED
  BY <1>1, <1>2, Zenon

LEMMA StepsFromRoot ==
  ASSUME NEW path \in Seq(STRING), Absolute(path)
  PROVE  \A i \in 0 .. Len(path) : FromRoot(Steps(path)[i])
<1> DEFINE S == {i \in Nat : i <= Len(path) => FromRoot(Steps(path)[i])}
<1>1. 0 \in S
  BY StepsOf, LeadingIs
<1>2. ASSUME NEW i \in Nat, i \in S PROVE i + 1 \in S
  <2> SUFFICES ASSUME i + 1 <= Len(path) PROVE FromRoot(Steps(path)[i + 1])
    OBVIOUS
  <2>1. Len(path) \in Nat /\ i <= Len(path) /\ i \in 0 .. Len(path) - 1 /\ i + 1 \in 1 .. Len(path)
    OBVIOUS
  <2>2. path[i + 1] \in STRING
    BY <2>1, ElementOfSeq
  <2>3. FromRoot(Steps(path)[i])
    BY <1>2, <2>1
  <2>4. Steps(path)[i + 1] = Enter(Steps(path)[i], path[i + 1])
    BY <2>1, StepsOf
  <2> QED
    BY <2>2, <2>3, <2>4, EnterFromRoot, Zenon
<1>3. Nat \subseteq S
  <2> HIDE DEF S
  <2> QED
    BY <1>1, <1>2, Induction
<1> QED
  BY <1>3

LEMMA NormPathIs ==
  ASSUME NEW path \in Seq(STRING)
  PROVE  /\ NormPath(path) = Steps(Slashed(path))[Len(Slashed(path))]
         /\ NormPath(path) \in Seq(STRING)
         /\ Absolute(Slashed(path)) => Absolute(NormPath(path))
<1> DEFINE p == Slashed(path)
<1>1. NormPath(path) = Steps(p)[Len(p)]
  BY Zenon DEF NormPath, Steps
<1>2. p \in Seq(STRING)
  BY SlashedType
<1> HIDE DEF p
<1>4. Len(p) \in 0 .. Len(p)
  BY <1>2
<1>5. CASE Absolute(p)
  <2>1. FromRoot(Steps(p)[Len(p)])
    BY <1>2, <1>4, <1>5, StepsFromRoot
  <2> QED
    BY <1>1, <2>1, AbsoluteIs DEF FromRoot, p
<1>6. CASE ~Absolute(p)
  BY <1>1, <1>2, <1>4, <1>6, StepsWalked DEF p
<1> QED
  BY <1>5, <1>6

(* validate_relative_path: a relative path that it accepts does not leave  *)
(* the root on its way, and what it returns is where the path leads.       *)
LEMMA ValidPathIsInside ==
  ASSUME NEW given_path \in Seq(STRING), ValidPath(given_path),
         NEW path, path = Slashed(given_path), ~Absolute(path)
  PROVE  /\ \A j \in 1 .. Len(path) : Descent(path, 1, j) >= 0
         /\ NormPath(given_path) = Location(path)
         /\ ~Absolute(NormPath(given_path))
<1> DEFINE N == Len(path)
           d == NormPath(given_path)
<1>0. path \in Seq(STRING)
  BY SlashedType
<1>1. N \in Nat /\ d \in Seq(STRING) /\ Walked(path, N, d)
  <2>1. N \in Nat /\ N \in 0 .. N
    BY <1>0
  <2>2. d = Steps(path)[N]
    BY NormPathIs
  <2>3. Steps(path)[N] \in Seq(STRING) /\ Walked(path, N, Steps(path)[N])
    BY <1>0, <2>1, StepsWalked
  <2> HIDE DEF N, d
  <2> QED
    BY <2>1, <2>2, <2>3
<1>2. d # <<>> /\ d[1] # ".."
  BY DEF ValidPath
<1>3. InsideTo(path, N) /\ Led(path, N, d)
  <2> HIDE DEF N, d
  <2> QED
    BY <1>1, <1>2 DEF Walked
<1>4. PICK s : LedBy(path, N, d, s)
  BY <1>3 DEF Led
<1>5. KeptAt(path, N) = Kept(path)
  BY Zenon DEF KeptAt, Kept, IsName
<1> DEFINE K == Kept(path)
<1>6. K \in SUBSET Nat
  <2>1. KeptAt(path, N) \subseteq 1 .. N
    BY DEF KeptAt
  <2> QED
    BY <1>1, <1>5, <2>1
<1>7. Enumerates(s, Len(d), K) /\ \A n \in 1 .. Len(d) : d[n] = path[s[n]]
  BY <1>4, <1>5 DEF LedBy
<1>8. Len(d) \in Nat
  BY <1>1
<1> HIDE DEF K, d
<1>9. Cardinality(K) = Len(d) /\ InOrder(K, <) = [n \in 1 .. Len(d) |-> s[n]]
  BY ONLY <1>6, <1>7, <1>8, EnumerationCounts, EnumerationIsInOrder
<1>10. Location(path) = [n \in 1 .. Len(d) |-> d[n]]
  <2>1. Location(path) = [n \in 1 .. Cardinality(K) |-> path[InOrder(K, <)[n]]]
    BY Zenon DEF Location, K
  <2>2. \A n \in 1 .. Len(d) : InOrder(K, <)[n] = s[n]
    BY <1>9
  <2>3. [n \in 1 .. Len(d) |-> path[InOrder(K, <)[n]]] = [n \in 1 .. Len(d) |-> d[n]]
    BY <1>7, <2>2
  <2> QED
    BY <1>9, <2>1, <2>3, Zenon
<1>11. [n \in 1 .. Len(d) |-> d[n]] = d
  BY <1>1
<1>12. ~Absolute(d)
  <2>1. 1 \in 1 .. Len(d)
    BY <1>1, <1>2, <1>8
  <2>2. s[1] \in KeptAt(path, N) /\ d[1] = path[s[1]]
    BY <1>4, <2>1 DEF LedBy, Enumerates
  <2>3. IsName(d[1])
    BY <1>1, <2>2, KeptNext DEF KeptAt
  <2>4. d[1] # Blank
    BY <2>3, Zenon DEF IsName, Blank
  <2> QED
    BY <2>4, AbsoluteIs
<1> QED
  BY <1>3, <1>10, <1>11, <1>12 DEF InsideTo, d

-----------------------------------------------------------------------------
(* A snapshot, file by file.                                               *)
LEMMA NormalType ==
  ASSUME NEW file \in SourceFiles
  PROVE  /\ Normal(file) \in SourceFiles
         /\ Normal(file).path = NormPath(file.path)
         /\ file.path \in Seq(STRING)
<1>1. file.path \in Seq(STRING)
  BY DEF SourceFiles
<1>2. NormPath(file.path) \in Seq(STRING)
  BY <1>1, NormPathIs
<1> QED
  BY <1>1, <1>2 DEF Normal, SourceFiles

Distinct(dict) ==
  \A m, n \in 1 .. Len(dict) : dict[m].path = dict[n].path => m = n
Holds(dict, file) == \E n \in 1 .. Len(dict) : dict[n] = file

LEMMA StoreOf ==
  ASSUME NEW dict \in Seq(SourceFiles), NEW file \in SourceFiles
  PROVE  /\ Store(dict, file) \in Seq(SourceFiles)
         /\ Distinct(dict) => Distinct(Store(dict, file))
         /\ Holds(Store(dict, file), file)
         /\ \A g \in SourceFiles : Holds(dict, g) /\ g.path # file.path
              => Holds(Store(dict, file), g)
         /\ \A g : Holds(Store(dict, file), g) => g = file \/ Holds(dict, g)
<1> DEFINE same == {i \in 1 .. Len(dict) : dict[i].path = file.path}
<1>1. CASE same = {}
  <2> DEFINE e == Append(dict, file)
  <2>1. Store(dict, file) = e
    BY <1>1 DEF Store
  <2>2. /\ e \in Seq(SourceFiles) /\ Len(e) = Len(dict) + 1 /\ e[Len(dict) + 1] = file
        /\ \A n \in 1 .. Len(dict) : e[n] = dict[n]
    BY AppendProperties
  <2>3. Len(dict) \in Nat
    OBVIOUS
  <2>4. \A n \in 1 .. Len(e) : n = Len(e) \/ n \in 1 .. Len(dict)
    BY <2>2, <2>3
  <2>5. \A n \in 1 .. Len(dict) : dict[n].path # file.path
    BY <1>1
  <2> HIDE DEF e, same
  <2>6. Distinct(dict) => Distinct(e)
    BY <2>2, <2>3, <2>4, <2>5 DEF Distinct
  <2>7. Len(e) \in 1 .. Len(e) /\ \A n \in 1 .. Len(dict) : n \in 1 .. Len(e)
    BY <2>2, <2>3
  <2>8. Holds(e, file) /\ \A g : Holds(dict, g) => Holds(e, g)
    BY <2>2, <2>7 DEF Holds
  <2>9. \A g : Holds(e, g) => g = file \/ Holds(dict, g)
    BY <2>2, <2>4 DEF Holds
  <2> QED
    BY <2>1, <2>2, <2>6, <2>8, <2>9
<1>2. CASE same # {}
  <2> DEFINE e == [i \in 1 .. Len(dict) |-> IF i \in same THEN file ELSE dict[i]]
  <2>1. Store(dict, file) = e
    BY <1>2 DEF Store
  <2>2. \A n \in 1 .. Len(dict) :
          e[n] \in SourceFiles /\ e[n] = IF dict[n].path = file.path THEN file ELSE dict[n]
    <3>1. \A n \in 1 .. Len(dict) : dict[n] \in SourceFiles
      BY ElementOfSeq
    <3> QED
      BY <3>1
  <2>3. Len(dict) \in Nat
    OBVIOUS
  <2>4. e \in Seq(SourceFiles) /\ Len(e) = Len(dict)
    <3>1. e \in [1 .. Len(dict) -> SourceFiles]
      BY <2>2
    <3> HIDE DEF e
    <3> QED
      BY ONLY <2>3, <3>1, IsASeq, LenProperties
  <2>5. PICK k \in 1 .. Len(dict) : dict[k].path = file.path
    BY <1>2
  <2> HIDE DEF e, same
  <2>6. \A n \in 1 .. Len(dict) : e[n].path = dict[n].path
    BY <2>2
  <2>7. Distinct(dict) => Distinct(e)
    BY <2>4, <2>6 DEF Distinct
  <2>8. Holds(e, file)
    BY <2>2, <2>4, <2>5 DEF Holds
  <2>9. \A g \in SourceFiles : Holds(dict, g) /\ g.path # file.path => Holds(e, g)
    BY <2>2, <2>4 DEF Holds
  <2>10. \A g : Holds(e, g) => g = file \/ Holds(dict, g)
    BY <2>2, <2>4 DEF Holds
  <2> QED
    BY <2>1, <2>4, <2>7, <2>8, <2>9, <2>10
<1> QED
  BY <1>1, <1>2

Stores(dict, globs) ==
  CHOOSE done : done = [i \in 0 .. Len(dict) |->
                          IF i = 0 THEN <<>> ELSE StoreTaken(done[i - 1], Normal(dict[i]), globs)]

LEMMA StoresOf ==
  ASSUME NEW dict \in Seq(SourceFiles), NEW globs
  PROVE  /\ Stores(dict, globs)[0] = <<>>
         /\ \A i \in 0 .. Len(dict) - 1 :
              Stores(dict, globs)[i + 1] = StoreTaken(Stores(dict, globs)[i], Normal(dict[i + 1]), globs)
         /\ Normalized(dict, globs) = Stores(dict, globs)[Len(dict)]
<1> DEFINE N == Len(dict)
           R == Seq(SourceFiles)
           H == [x \in R \X (1 .. N) |-> StoreTaken(x[1], Normal(dict[x[2]]), globs)]
           By(done) == [i \in 0 .. Len(dict) |->
                          IF i = 0 THEN <<>> ELSE StoreTaken(done[i - 1], Normal(dict[i]), globs)]
<1>1. N \in Nat /\ <<>> \in R
  OBVIOUS
<1>2. H \in [R \X (1 .. N) -> R]
  <2>1. ASSUME NEW x \in R \X (1 .. N) PROVE StoreTaken(x[1], Normal(dict[x[2]]), globs) \in R
    <3>1. x[1] \in R /\ dict[x[2]] \in SourceFiles
      BY ElementOfSeq
    <3> QED
      BY <3>1, NormalType, StoreOf DEF StoreTaken
  <2> QED
    BY <2>1
<1>3. PICK f \in [0 .. N -> R] : f = WalkAlong(f, N, <<>>, H)
  <2> HIDE DEF N, R, H
  <2>1. Walkable(N, R, <<>>, H)
    BY ONLY <1>1, <1>2, WalksAlong
  <2> QED
    BY <2>1 DEF Walkable
<1>4. f = By(f)
  <2>1. ASSUME NEW i \in 0 .. N, i # 0
        PROVE  H[<<f[i - 1], i>>] = StoreTaken(f[i - 1], Normal(dict[i]), globs)
    <3>1. i - 1 \in 0 .. N /\ i \in 1 .. N
      BY <2>1
    <3> HIDE DEF N
    <3>2. <<f[i - 1], i>> \in R \X (1 .. N)
      BY <3>1
    <3> QED
      BY <3>2
  <2> QED
    BY <1>3, <2>1 DEF WalkAlong
<1>5. Stores(dict, globs) = By(Stores(dict, globs))
  BY <1>4, Zenon DEF Stores
<1>6. Stores(dict, globs) = By(Stores(dict, globs)) =>
        /\ Stores(dict, globs)[0] = <<>>
        /\ \A i \in 0 .. Len(dict) - 1 :
             Stores(dict, globs)[i + 1] = StoreTaken(Stores(dict, globs)[i], Normal(dict[i + 1]), globs)
  <2> DEFINE g == Stores(dict, globs)
  <2> HIDE DEF g
  <2>1. ASSUME g = By(g)
        PROVE  /\ g[0] = <<>>
               /\ \A i \in 0 .. Len(dict) - 1 : g[i + 1] = StoreTaken(g[i], Normal(dict[i + 1]), globs)
    <3>1. \A i \in 0 .. Len(dict) :
            By(g)[i] = IF i = 0 THEN <<>> ELSE StoreTaken(g[i - 1], Normal(dict[i]), globs)
      OBVIOUS
    <3>2. g[0] = <<>>
      BY <1>1, <2>1, <3>1
    <3>3. ASSUME NEW i \in 0 .. Len(dict) - 1
          PROVE  g[i + 1] = StoreTaken(g[i], Normal(dict[i + 1]), globs)
      <4>1. i + 1 \in 0 .. Len(dict) /\ i + 1 # 0 /\ (i + 1) - 1 = i
        BY <1>1
      <4> HIDE DEF By
      <4> QED
        BY <2>1, <3>1, <4>1
    <3> QED
      BY <3>2, <3>3
  <2> QED
    BY <2>1 DEF g
<1>7. Normalized(dict, globs) = Stores(dict, globs)[Len(dict)]
  BY Zenon DEF Normalized, Stores
<1> QED
  BY <1>5, <1>6, <1>7

(* After i files: one file per path that the globs take, the last of it.   *)
LastOfIts(dict, j, i) ==
  \A k \in j + 1 .. i : NormPath(dict[k].path) # NormPath(dict[j].path)
Stored(dict, i, done, globs) ==
  /\ done \in Seq(SourceFiles) /\ Distinct(done)
  /\ \A j \in 1 .. i :
       LastOfIts(dict, j, i) /\ Takes(globs, NormPath(dict[j].path))
         => Holds(done, Normal(dict[j]))
  /\ \A g : Holds(done, g)
       => \E j \in 1 .. i : g = Normal(dict[j]) /\ Takes(globs, NormPath(dict[j].path))

LEMMA StoresStored ==
  ASSUME NEW dict \in Seq(SourceFiles), NEW globs
  PROVE  Stored(dict, Len(dict), Normalized(dict, globs), globs)
<1> DEFINE S == {i \in Nat : i <= Len(dict) => Stored(dict, i, Stores(dict, globs)[i], globs)}
<1>1. 0 \in S
  <2>1. Stored(dict, 0, <<>>, globs)
    BY DEF Stored, Distinct, Holds
  <2> QED
    BY <2>1, StoresOf
<1>2. ASSUME NEW i \in Nat, i \in S PROVE i + 1 \in S
  <2> SUFFICES ASSUME i + 1 <= Len(dict) PROVE Stored(dict, i + 1, Stores(dict, globs)[i + 1], globs)
    OBVIOUS
  <2> DEFINE d == Stores(dict, globs)[i]
             file == Normal(dict[i + 1])
             e == StoreTaken(d, file, globs)
  <2>1. Len(dict) \in Nat /\ i <= Len(dict) /\ i \in 0 .. Len(dict) - 1 /\ i + 1 \in 1 .. Len(dict)
    OBVIOUS
  <2>2. \A j \in 1 .. i + 1 : j \in 1 .. Len(dict) /\ dict[j] \in SourceFiles
    <3>1. \A j \in 1 .. i + 1 : j \in 1 .. Len(dict)
      BY <2>1
    <3> QED
      BY <3>1, ElementOfSeq
  <2>3. /\ \A j \in 1 .. i + 1 : Normal(dict[j]) \in SourceFiles
        /\ \A j \in 1 .. i + 1 : Normal(dict[j]).path = NormPath(dict[j].path)
    BY <2>2, NormalType
  <2>4. Stored(dict, i, d, globs)
    BY <1>2, <2>1
  <2>5. Stores(dict, globs)[i + 1] = e
    BY <2>1, StoresOf
  <2>6. file \in SourceFiles /\ d \in Seq(SourceFiles)
    BY <2>3, <2>4 DEF Stored
  <2> HIDE DEF d
  <2> DEFINE taken == Takes(globs, NormPath(dict[i + 1].path))
  <2>7. e = IF taken THEN Store(d, file) ELSE d
    <3>1. file.path = NormPath(dict[i + 1].path)
      BY <2>1, <2>3
    <3> HIDE DEF file
    <3> QED
      BY <3>1 DEF StoreTaken
  <2>8. /\ e \in Seq(SourceFiles) /\ Distinct(e)
        /\ taken => Holds(e, file)
        /\ \A g \in SourceFiles : Holds(d, g) /\ g.path # file.path => Holds(e, g)
        /\ \A g : Holds(e, g) => (taken /\ g = file) \/ Holds(d, g)
    <3> HIDE DEF file, e, taken
    <3>1. CASE taken
      BY <2>4, <2>6, <2>7, <3>1, StoreOf DEF Stored
    <3>2. CASE ~taken
      BY <2>4, <2>6, <2>7, <3>2 DEF Stored
    <3> QED
      BY <3>1, <3>2
  <2> HIDE DEF e
  <2>9. ASSUME NEW j \in 1 .. i + 1, LastOfIts(dict, j, i + 1),
               Takes(globs, NormPath(dict[j].path))
        PROVE  Holds(e, Normal(dict[j]))
    <3>1. CASE j = i + 1
      BY <2>8, <2>9, <3>1
    <3>2. CASE j # i + 1
      <4>1. j \in 1 .. i /\ i + 1 \in j + 1 .. i + 1 /\ \A k \in j + 1 .. i : k \in j + 1 .. i + 1
        BY <3>2
      <4>2. LastOfIts(dict, j, i) /\ NormPath(dict[i + 1].path) # NormPath(dict[j].path)
        BY <2>9, <4>1 DEF LastOfIts
      <4>3. Holds(d, Normal(dict[j]))
        BY <2>4, <2>9, <4>1, <4>2 DEF Stored
      <4>4. Normal(dict[j]) \in SourceFiles /\ Normal(dict[j]).path # file.path
        BY <2>1, <2>3, <4>2
      <4> HIDE DEF file
      <4> QED
        BY <2>8, <4>3, <4>4
    <3> QED
      BY <3>1, <3>2
  <2>10. ASSUME NEW g, Holds(e, g)
         PROVE  \E j \in 1 .. i + 1 : g = Normal(dict[j]) /\ Takes(globs, NormPath(dict[j].path))
    <3>1. CASE taken /\ g = file
      <4>1. i + 1 \in 1 .. i + 1
        OBVIOUS
      <4> QED
        BY <3>1, <4>1
    <3>2. CASE Holds(d, g)
      <4>1. PICK j \in 1 .. i : g = Normal(dict[j]) /\ Takes(globs, NormPath(dict[j].path))
        BY <2>4, <3>2 DEF Stored
      <4>2. j \in 1 .. i + 1
        OBVIOUS
      <4> QED
        BY <4>1, <4>2
    <3> QED
      BY <2>8, <2>10, <3>1, <3>2
  <2> QED
    BY <2>5, <2>8, <2>9, <2>10 DEF Stored
<1>3. Nat \subseteq S
  <2> HIDE DEF S
  <2> QED
    BY <1>1, <1>2, Induction
<1>4. Len(dict) \in S
  <2> HIDE DEF S
  <2>1. Len(dict) \in Nat
    OBVIOUS
  <2> QED
    BY <1>3, <2>1
<1> QED
  BY <1>4, StoresOf

(* The files are the client's, or the last snapshot of valid ones.         *)
Globs == GlobLists \cup {NoGlobs}
FilesInv ==
  /\ given \in Repositories
  /\ included \in Globs \cup {Nothing}
  /\ included = Nothing => files = given
  /\ included # Nothing =>
       /\ \A i \in 1 .. Len(given) : ValidPath(given[i].path)
       /\ files = Normalized(given, included)

LEMMA FilesInvariant == Spec => []FilesInv
<1>1. Init => FilesInv
  BY DEF Init, FilesInv
<1>2. FilesInv /\ [Next]_vars => FilesInv'
  <2> SUFFICES ASSUME FilesInv, [Next]_vars
               PROVE  FilesInv'
    OBVIOUS
  <2>1. CASE IngestRepositorySnapshot
    <3>1. CASE UNCHANGED <<given, files, included>>
      BY <3>1 DEF FilesInv
    <3>2. CASE /\ \A i \in 1 .. Len(given) : ValidPath(given[i].path)
               /\ included' \in Globs
               /\ files' = Normalized(given, included')
               /\ given' = given
      <4>1. included' # Nothing
        BY <3>2, IngestionAssumption DEF Globs
      <4> QED
        BY <3>2, <4>1 DEF FilesInv
    <3> QED
      BY <2>1, <3>1, <3>2 DEF IngestRepositorySnapshot, Globs
  <2>2. CASE UNCHANGED <<given, files, included>>
    BY <2>2 DEF FilesInv
  <2> QED
    BY <2>1, <2>2 DEF Next, vars, IngestOpenApi, IngestVendorEvent, AnalyzeBlastRadius, CreateJob
<1> QED
  BY <1>1, <1>2, PTL DEF Spec

LEMMA RepositoryFiles ==
  ASSUME NEW r \in Repositories
  PROVE  /\ r \in Seq(SourceFiles)
         /\ \A i \in 1 .. Len(r) : r[i] \in SourceFiles /\ r[i].path \in Seq(STRING)
<1>1. r \in Seq(SourceFiles)
  BY IngestionAssumption
<1>2. \A i \in 1 .. Len(r) : r[i] \in SourceFiles
  BY <1>1, ElementOfSeq
<1> QED
  BY <1>1, <1>2, NormalType

(* For any files with any paths that do not begin with a backslash, and    *)
(* any globs: a snapshot has each of them that the globs take at the place *)
(* its path leads to, which is inside the root all the way, and of several *)
(* names for one place the later content (build_repository_snapshot).      *)
THEOREM IngestionSnapshotStaysInside == Spec => []SnapshotStaysInside
<1>1. FilesInv => SnapshotStaysInside
  <2> SUFFICES ASSUME FilesInv, included # Nothing
               PROVE  SnapshotStaysInside
    BY DEF SnapshotStaysInside
  <2> DEFINE N == Len(given)
             place(i) == Location(Slashed(given[i].path))
             moved(i) == [given[i] EXCEPT !.path = place(i)]
             norm(i) == NormPath(given[i].path)
             relative == {i \in 1 .. N : ~Absolute(Slashed(given[i].path))}
  <2>1. given \in Seq(SourceFiles) /\ \A i \in 1 .. N :
          given[i] \in SourceFiles /\ given[i].path \in Seq(STRING)
    BY RepositoryFiles DEF FilesInv
  <2>2. files = Normalized(given, included) /\ \A i \in 1 .. N : ValidPath(given[i].path)
    BY DEF FilesInv
  <2>3. Stored(given, N, files, included)
    BY <2>1, <2>2, StoresStored
  <2>4. \A i \in relative :
          /\ \A j \in 1 .. Len(Slashed(given[i].path)) :
               Descent(Slashed(given[i].path), 1, j) >= 0
          /\ norm(i) = place(i)
          /\ ~Absolute(norm(i))
    <3> SUFFICES ASSUME NEW i \in relative
                 PROVE  /\ \A j \in 1 .. Len(Slashed(given[i].path)) :
                             Descent(Slashed(given[i].path), 1, j) >= 0
                        /\ norm(i) = place(i)
                        /\ ~Absolute(norm(i))
      OBVIOUS
    <3>1. given[i].path \in Seq(STRING) /\ ValidPath(given[i].path) /\ ~Absolute(Slashed(given[i].path))
      BY <2>1, <2>2
    <3> QED
      BY <3>1, ValidPathIsInside
  <2>5. \A i \in 1 .. N : i \notin relative => Absolute(norm(i))
    BY <2>1, NormPathIs
  <2>6. \A i \in relative : Normal(given[i]) = moved(i)
    BY <2>4 DEF Normal
  <2>7. ASSUME NEW i \in relative, Takes(included, place(i)),
               \A j \in relative : j > i => place(j) # place(i)
        PROVE  \E n \in 1 .. Len(files) : files[n] = moved(i)
    <3>1. ASSUME NEW k \in i + 1 .. N PROVE norm(k) # norm(i)
      <4>1. k \in 1 .. N /\ k > i
        OBVIOUS
      <4> HIDE DEF norm, place, relative
      <4> QED
        BY <2>4, <2>5, <2>7, <4>1
    <3>2. LastOfIts(given, i, N)
      BY <3>1 DEF LastOfIts
    <3>3. Holds(files, Normal(given[i]))
      BY <2>3, <2>4, <2>7, <3>2 DEF Stored
    <3> QED
      BY <2>6, <3>3 DEF Holds
  <2>8. ASSUME NEW n \in 1 .. Len(files), ~Absolute(files[n].path)
        PROVE  \E i \in relative : files[n] = moved(i) /\ Takes(included, place(i))
    <3>1. Holds(files, files[n])
      BY DEF Holds
    <3>2. PICK i \in 1 .. N : files[n] = Normal(given[i]) /\ Takes(included, norm(i))
      BY <2>3, <3>1 DEF Stored
    <3>3. files[n].path = norm(i)
      BY <2>1, <3>2, NormalType
    <3>4. i \in relative
      BY <2>5, <2>8, <3>3
    <3> HIDE DEF norm, place, relative, moved
    <3> QED
      BY <2>4, <2>6, <3>2, <3>4
  <2>9. IsInjective([n \in 1 .. Len(files) |-> files[n].path])
    BY <2>3 DEF Stored, Distinct, IsInjective
  <2>10. \A n \in 1 .. Len(files) :
           \/ Absolute(files[n].path)
           \/ \E i \in relative : files[n] = moved(i) /\ Takes(included, place(i))
    BY <2>8
  <2>11. \A i \in {k \in relative : /\ Takes(included, place(k))
                                    /\ \A j \in relative : j > k => place(j) # place(k)} :
           \E n \in 1 .. Len(files) : files[n] = moved(i)
    BY <2>7
  <2> HIDE DEF relative, moved, place
  <2>12. \A i \in relative : \A j \in 1 .. Len(Slashed(given[i].path)) :
           Descent(Slashed(given[i].path), 1, j) >= 0
    BY <2>4
  <2> QED
    BY <2>9, <2>10, <2>11, <2>12, Zenon DEF SnapshotStaysInside, relative, moved, place
<1> QED
  BY <1>1, FilesInvariant, PTL

-----------------------------------------------------------------------------
(* Sorting a finite set: in a strict total order R, every element has its  *)
(* own number of elements below it, and every number below the size occurs.*)
Strict(S, R) ==
  /\ \A x \in S : <<x, x>> \notin R
  /\ \A x, y, z \in S : <<x, y>> \in R /\ <<y, z>> \in R => <<x, z>> \in R
  /\ \A x, y \in S : x = y \/ <<x, y>> \in R \/ <<y, x>> \in R
LowerSet(S, R, x) == {y \in S : <<y, x>> \in R}
Height(S, R) == [x \in S |-> Cardinality(LowerSet(S, R, x))]

LEMMA HeightGrows ==
  ASSUME NEW S, NEW R, IsFiniteSet(S), Strict(S, R)
  PROVE  /\ Height(S, R) \in [S -> 0 .. Cardinality(S) - 1]
         /\ \A x, y \in S : Height(S, R)[x] = Height(S, R)[y] => x = y
<1>1. Cardinality(S) \in Nat
  BY FS_CardinalityType
<1>2. ASSUME NEW x \in S
      PROVE  /\ IsFiniteSet(LowerSet(S, R, x))
             /\ Cardinality(LowerSet(S, R, x)) \in 0 .. Cardinality(S) - 1
             /\ Height(S, R)[x] = Cardinality(LowerSet(S, R, x))
  <2> DEFINE L == LowerSet(S, R, x)
  <2>1. L \in SUBSET S /\ x \notin L
    BY DEF LowerSet, Strict
  <2> HIDE DEF L
  <2>2. IsFiniteSet(L) /\ Cardinality(L) <= Cardinality(S) /\ Cardinality(S) # Cardinality(L)
    BY <2>1, FS_Subset
  <2>3. Cardinality(L) \in Nat
    BY <2>2, FS_CardinalityType
  <2>4. Cardinality(L) \in 0 .. Cardinality(S) - 1
    BY <1>1, <2>2, <2>3
  <2> QED
    BY <2>2, <2>4 DEF L, Height
<1>3. ASSUME NEW x \in S, NEW y \in S, <<x, y>> \in R
      PROVE  Height(S, R)[x] # Height(S, R)[y]
  <2>1. LowerSet(S, R, x) \in SUBSET LowerSet(S, R, y)
    BY <1>3 DEF LowerSet, Strict
  <2>2. x \in LowerSet(S, R, y) /\ x \notin LowerSet(S, R, x)
    BY <1>3 DEF LowerSet, Strict
  <2>3. LowerSet(S, R, y) # LowerSet(S, R, x)
    BY <2>2
  <2>4. Cardinality(LowerSet(S, R, y)) # Cardinality(LowerSet(S, R, x))
    BY <1>2, <2>1, <2>3, FS_Subset
  <2> QED
    BY <1>2, <2>4
<1>4. Height(S, R) \in [S -> 0 .. Cardinality(S) - 1]
  BY <1>2 DEF Height
<1>5. \A x, y \in S : x = y \/ <<x, y>> \in R \/ <<y, x>> \in R
  BY DEF Strict
<1> QED
  BY <1>3, <1>4, <1>5

LEMMA HeightReaches ==
  ASSUME NEW S, NEW R, IsFiniteSet(S), Strict(S, R)
  PROVE  \A n \in 1 .. Cardinality(S) : \E x \in S : Height(S, R)[x] = n - 1
<1> DEFINE h == Height(S, R)
           T == 0 .. Cardinality(S) - 1
<1>1. Cardinality(S) \in Nat
  BY FS_CardinalityType
<1>2. h \in [S -> T] /\ \A x, y \in S : h[x] = h[y] => x = y
  BY HeightGrows
<1>3. IsFiniteSet(T) /\ Cardinality(T) = Cardinality(S)
  BY <1>1, FS_Interval
<1> HIDE DEF h, T
<1>4. h \in Injection(S, T)
  BY <1>2 DEF Injection, IsInjective
<1>5. h \in Surjection(S, T)
  BY <1>3, <1>4, FS_Injection
<1>6. \A n \in 1 .. Cardinality(S) : n - 1 \in T
  BY <1>1 DEF T
<1> QED
  BY <1>5, <1>6 DEF Surjection, h

(* Two sets in the same order have the same heights.                       *)
LEMMA HeightKept ==
  ASSUME NEW S, NEW R, NEW T, NEW Q, IsFiniteSet(S),
         NEW f \in Bijection(T, S),
         \A p, q \in T : <<p, q>> \in Q <=> <<f[p], f[q]>> \in R
  PROVE  /\ IsFiniteSet(T) /\ Cardinality(T) = Cardinality(S)
         /\ \A p \in T : Height(S, R)[f[p]] = Height(T, Q)[p]
<1>1. /\ f \in [T -> S] /\ \A p, q \in T : f[p] = f[q] => p = q
      /\ \A x \in S : \E p \in T : f[p] = x
  BY DEF Bijection, Injection, Surjection, IsInjective
<1>2. f \in Injection(T, S) /\ f \in Surjection(T, S)
  BY DEF Bijection
<1>3. IsFiniteSet(T) /\ Cardinality(T) = Cardinality(S)
  BY <1>2, FS_Injection
<1>4. ASSUME NEW p \in T PROVE Height(S, R)[f[p]] = Height(T, Q)[p]
  <2> DEFINE A == LowerSet(T, Q, p)
             B == LowerSet(S, R, f[p])
             g == [q \in A |-> f[q]]
  <2>1. g \in [A -> B]
    BY <1>1 DEF LowerSet
  <2>2. \A a, b \in A : g[a] = g[b] => a = b
    BY <1>1 DEF LowerSet
  <2>3. ASSUME NEW x \in B PROVE \E q \in A : g[q] = x
    <3>1. x \in S /\ <<x, f[p]>> \in R
      BY DEF LowerSet
    <3>2. PICK q \in T : f[q] = x
      BY <1>1, <3>1
    <3>3. q \in A
      BY <3>1, <3>2 DEF LowerSet
    <3> QED
      BY <3>2, <3>3
  <2>4. A \in SUBSET T
    BY DEF LowerSet
  <2>5. Height(S, R)[f[p]] = Cardinality(B) /\ Height(T, Q)[p] = Cardinality(A)
    BY <1>1 DEF Height
  <2> HIDE DEF A, B, g
  <2>6. IsFiniteSet(A)
    BY <1>3, <2>4, FS_Subset
  <2>7. g \in Surjection(A, B) /\ g \in Injection(A, B)
    BY <2>1, <2>2, <2>3 DEF Surjection, Injection, IsInjective
  <2>8. Cardinality(B) = Cardinality(A)
    BY <2>6, <2>7, FS_Surjection
  <2> QED
    BY <2>5, <2>8
<1> QED
  BY <1>3, <1>4

(* The call sites in their order.  The files of a report have distinct     *)
(* paths, all of them known.                                               *)
Usable(dict) ==
  /\ dict \in Seq(SourceFiles) /\ Distinct(dict)
  /\ \A i \in 1 .. Len(dict) : \E n \in 1 .. Len(PathOrder) : PathOrder[n] = dict[i].path
IsSite(dict, ev, globs, i, l) ==
  /\ Candidate(dict[i], globs) /\ dict[i].ext = "js"
  /\ Matches(dict[i], dict[i].lines[l], ev)
IsPlace(dict, p) ==
  p = <<p[1], p[2]>> /\ p[1] \in 1 .. Len(dict) /\ p[2] \in 1 .. Len(dict[p[1]].lines)

LEMMA SitePlacesOf ==
  ASSUME NEW dict, NEW ev, NEW globs
  PROVE  /\ \A i \in 1 .. Len(dict) : \A l \in 1 .. Len(dict[i].lines) :
              <<i, l>> \in SitePlaces(dict, ev, globs) <=> IsSite(dict, ev, globs, i, l)
         /\ \A p \in SitePlaces(dict, ev, globs) :
              IsPlace(dict, p) /\ IsSite(dict, ev, globs, p[1], p[2])
<1> DEFINE All == UNION {{i} \X (1 .. Len(dict[i].lines)) : i \in 1 .. Len(dict)}
<1>1. ASSUME NEW i \in 1 .. Len(dict), NEW l \in 1 .. Len(dict[i].lines)
      PROVE  <<i, l>> \in All
  <2>1. <<i, l>> \in {i} \X (1 .. Len(dict[i].lines))
    OBVIOUS
  <2> QED
    BY <2>1
<1>2. ASSUME NEW p \in All PROVE IsPlace(dict, p)
  <2>1. PICK i \in 1 .. Len(dict) : p \in {i} \X (1 .. Len(dict[i].lines))
    OBVIOUS
  <2>2. p = <<p[1], p[2]>> /\ p[1] = i /\ p[2] \in 1 .. Len(dict[i].lines)
    BY <2>1
  <2> QED
    BY <2>2 DEF IsPlace
<1>3. SitePlaces(dict, ev, globs) = {p \in All : IsSite(dict, ev, globs, p[1], p[2])}
  BY Zenon DEF SitePlaces, IsSite
<1> HIDE DEF All
<1> QED
  BY <1>1, <1>2, <1>3

LEMMA SitePlacesFinite ==
  ASSUME NEW dict \in Seq(SourceFiles), NEW ev, NEW globs
  PROVE  IsFiniteSet(SitePlaces(dict, ev, globs))
<1> DEFINE N == Len(dict)
           row == [i \in 1 .. N |-> {i} \X (1 .. Len(dict[i].lines))]
           rows == {{i} \X (1 .. Len(dict[i].lines)) : i \in 1 .. N}
<1>1. row \in Surjection(1 .. N, rows)
  BY DEF Surjection
<1>2. N \in Nat
  OBVIOUS
<1>3. IsFiniteSet(1 .. N)
  BY <1>2, FS_Interval
<1>4. IsFiniteSet(rows)
  <2> HIDE DEF row, rows
  <2> QED
    BY <1>1, <1>3, FS_Surjection
<1>5. ASSUME NEW r \in rows PROVE IsFiniteSet(r)
  <2>1. PICK i \in 1 .. N : r = {i} \X (1 .. Len(dict[i].lines))
    OBVIOUS
  <2>2. dict[i] \in SourceFiles
    BY ElementOfSeq
  <2>3. dict[i].lines \in Seq(Lines)
    BY <2>2 DEF SourceFiles
  <2> DEFINE m == Len(dict[i].lines)
  <2>4. m \in Int
    BY <2>3, LenProperties
  <2> HIDE DEF m
  <2>5. IsFiniteSet(1 .. m)
    BY ONLY <2>4, FS_Interval
  <2>6. IsFiniteSet({i})
    BY FS_Singleton
  <2> QED
    BY <2>1, <2>5, <2>6, FS_Product DEF m
<1>6. IsFiniteSet(UNION rows)
  <2> HIDE DEF rows
  <2> QED
    BY <1>4, <1>5, FS_UNION
<1>7. SitePlaces(dict, ev, globs) \in SUBSET UNION rows
  BY DEF SitePlaces
<1> HIDE DEF rows
<1> QED
  BY <1>6, <1>7, FS_Subset

LEMMA ConfidenceType ==
  ASSUME NEW file, NEW line, NEW ev
  PROVE  Confidence(file, line, ev) \in Int
<1> DEFINE x == 65 + (IF file.imports THEN 10 ELSE 0) + (IF EndpointHit(line, ev) THEN 20 ELSE 0)
<1>1. x \in Int
  OBVIOUS
<1> HIDE DEF x
<1>2. \E y \in {99, x} : \A z \in {99, x} : y <= z
  BY <1>1
<1>3. Min({99, x}) \in {99, x}
  BY <1>2 DEF Min
<1> QED
  BY <1>1, <1>3 DEF Confidence, x

Key(dict, ev, p) == Rank(SiteAt(dict, ev, p))
Lexical(a, b) ==
  \/ a[1] < b[1]
  \/ a[1] = b[1] /\ a[2] < b[2]
  \/ a[1] = b[1] /\ a[2] = b[2] /\ a[3] < b[3]
  \/ a[1] = b[1] /\ a[2] = b[2] /\ a[3] = b[3] /\ a[4] < b[4]

LEMMA KeyOf ==
  ASSUME NEW dict, Usable(dict), NEW ev, NEW p, IsPlace(dict, p)
  PROVE  /\ Key(dict, ev, p)[1] \in Int /\ Key(dict, ev, p)[2] \in Int
         /\ Key(dict, ev, p)[3] \in Int /\ Key(dict, ev, p)[4] = p[2] /\ p[2] \in Int
         /\ PathOrder[Key(dict, ev, p)[3]] = dict[p[1]].path
<1> DEFINE s == SiteAt(dict, ev, p)
           path == dict[p[1]].path
<1>1. s.file = path /\ s.line = p[2] /\ s.confidence \in Int
  BY ConfidenceType DEF SiteAt
<1>2. /\ Rank(s)[1] = (IF s.exact THEN 0 ELSE 1)
      /\ Rank(s)[2] = 100 - s.confidence
      /\ Rank(s)[3] = Position(s.file) /\ Rank(s)[4] = s.line
  BY DEF Rank
<1>3. Position(path) \in 1 .. Len(PathOrder) /\ PathOrder[Position(path)] = path
  BY DEF Usable, IsPlace, Position
<1>4. Len(PathOrder) \in Nat /\ p[2] \in Int
  <2>1. Len(PathOrder) \in Nat
    BY PathOrderAssumption, LenProperties
  <2>2. dict[p[1]] \in SourceFiles
    BY ElementOfSeq DEF Usable, IsPlace
  <2>3. dict[p[1]].lines \in Seq(Lines)
    BY <2>2 DEF SourceFiles
  <2>4. Len(dict[p[1]].lines) \in Nat
    BY <2>3, LenProperties
  <2> QED
    BY <2>1, <2>4 DEF IsPlace
<1> HIDE DEF s, path
<1>5. Rank(s)[1] \in Int /\ Rank(s)[2] \in Int
  BY <1>1, <1>2
<1> QED
  BY <1>1, <1>2, <1>3, <1>4, <1>5 DEF Key, s, path

LEMMA BeforeIsLexical ==
  ASSUME NEW s, NEW t
  PROVE  Before(s, t) <=> Lexical(Rank(s), Rank(t))
<1> DEFINE a == Rank(s)
           b == Rank(t)
<1> HIDE DEF a, b
<1>1. Before(s, t) <=> \E i \in 1 .. 4 : a[i] < b[i] /\ \A j \in 1 .. i - 1 : a[j] = b[j]
  BY DEF Before, a, b
<1>2. 1 .. 4 = {1, 2, 3, 4}
  OBVIOUS
<1>3. 1 .. 1 - 1 = {} /\ 1 .. 2 - 1 = {1} /\ 1 .. 3 - 1 = {1, 2} /\ 1 .. 4 - 1 = {1, 2, 3}
  OBVIOUS
<1>4. (\E i \in {1, 2, 3, 4} : a[i] < b[i] /\ \A j \in 1 .. i - 1 : a[j] = b[j]) <=>
        \/ a[1] < b[1] /\ \A j \in 1 .. 1 - 1 : a[j] = b[j]
        \/ a[2] < b[2] /\ \A j \in 1 .. 2 - 1 : a[j] = b[j]
        \/ a[3] < b[3] /\ \A j \in 1 .. 3 - 1 : a[j] = b[j]
        \/ a[4] < b[4] /\ \A j \in 1 .. 4 - 1 : a[j] = b[j]
  OBVIOUS
<1> QED
  BY <1>1, <1>2, <1>3, <1>4 DEF Lexical, a, b

OrderOf(dict, ev, globs) ==
  {x \in SitePlaces(dict, ev, globs) \X SitePlaces(dict, ev, globs) :
     Outranks(dict, ev, x[1], x[2])}

LEMMA KeysDiffer ==
  ASSUME NEW dict, Usable(dict), NEW ev, NEW p, NEW q, IsPlace(dict, p), IsPlace(dict, q),
         Key(dict, ev, p)[3] = Key(dict, ev, q)[3], Key(dict, ev, p)[4] = Key(dict, ev, q)[4]
  PROVE  p = q
<1>1. p[2] = q[2] /\ dict[p[1]].path = dict[q[1]].path
  BY KeyOf
<1>2. p[1] = q[1]
  BY <1>1 DEF Usable, Distinct, IsPlace
<1> QED
  BY <1>1, <1>2 DEF IsPlace

LEMMA OutranksIsLexical ==
  ASSUME NEW dict, Usable(dict), NEW ev, NEW p, NEW q, IsPlace(dict, p), IsPlace(dict, q)
  PROVE  Outranks(dict, ev, p, q) <=> Lexical(Key(dict, ev, p), Key(dict, ev, q))
<1> DEFINE a == Key(dict, ev, p)
           b == Key(dict, ev, q)
<1>1. Outranks(dict, ev, p, q) <=>
        \/ Lexical(a, b)
        \/ ~Lexical(b, a) /\ (p[1] < q[1] \/ (p[1] = q[1] /\ p[2] < q[2]))
  BY BeforeIsLexical DEF Outranks, Key
<1>2. /\ a[1] \in Int /\ a[2] \in Int /\ a[3] \in Int /\ a[4] \in Int
      /\ b[1] \in Int /\ b[2] \in Int /\ b[3] \in Int /\ b[4] \in Int
      /\ p[2] = a[4] /\ q[2] = b[4]
  BY KeyOf
<1>3. a[3] = b[3] /\ a[4] = b[4] => p = q
  BY KeysDiffer
<1>4. p[1] \in Int /\ q[1] \in Int
  <2>1. Len(dict) \in Nat
    BY LenProperties DEF Usable
  <2> QED
    BY <2>1 DEF IsPlace
<1> HIDE DEF a, b
<1>5. ~Lexical(a, b) /\ ~Lexical(b, a) => p = q
  BY <1>2, <1>3 DEF Lexical
<1>6. p = q => ~(p[1] < q[1]) /\ ~(p[2] < q[2])
  BY <1>2, <1>4
<1> QED
  BY <1>1, <1>5, <1>6 DEF a, b

LEMMA SitesAreOrdered ==
  ASSUME NEW dict, Usable(dict), NEW ev, NEW globs
  PROVE  Strict(SitePlaces(dict, ev, globs), OrderOf(dict, ev, globs))
<1> DEFINE P == SitePlaces(dict, ev, globs)
           k == [p \in P |-> Key(dict, ev, p)]
<1>1. \A p \in P : IsPlace(dict, p)
  BY SitePlacesOf
<1>2. \A p, q \in P : <<p, q>> \in OrderOf(dict, ev, globs) <=> Lexical(k[p], k[q])
  BY <1>1, OutranksIsLexical DEF OrderOf
<1>3. \A p \in P : k[p][1] \in Int /\ k[p][2] \in Int /\ k[p][3] \in Int /\ k[p][4] \in Int
  BY <1>1, KeyOf
<1>4. \A p, q \in P : k[p][3] = k[q][3] /\ k[p][4] = k[q][4] => p = q
  BY <1>1, KeysDiffer
<1> HIDE DEF P, k
<1>5. \A p \in P : ~Lexical(k[p], k[p])
  BY <1>3 DEF Lexical
<1>6. ASSUME NEW x \in P, NEW y \in P, NEW z \in P, Lexical(k[x], k[y]), Lexical(k[y], k[z])
      PROVE  Lexical(k[x], k[z])
  BY <1>3, <1>6 DEF Lexical
<1>7. ASSUME NEW x \in P, NEW y \in P
      PROVE  x = y \/ Lexical(k[x], k[y]) \/ Lexical(k[y], k[x])
  <2>1. /\ k[x][1] \in Int /\ k[x][2] \in Int /\ k[x][3] \in Int /\ k[x][4] \in Int
        /\ k[y][1] \in Int /\ k[y][2] \in Int /\ k[y][3] \in Int /\ k[y][4] \in Int
    BY <1>3
  <2>2. k[x][3] = k[y][3] /\ k[x][4] = k[y][4] => x = y
    BY <1>4
  <2> QED
    BY <2>1, <2>2 DEF Lexical
<1>8. Strict(P, OrderOf(dict, ev, globs))
  BY <1>2, <1>5, <1>6, <1>7 DEF Strict
<1> QED
  BY <1>8 DEF P

(* The nth call site is the one with n - 1 others before it.               *)
RanksBy(dict, ev, globs, place) ==
  LET P == SitePlaces(dict, ev, globs)
  IN  /\ place \in [1 .. Cardinality(P) -> P]
      /\ \A n \in 1 .. Cardinality(P) : Height(P, OrderOf(dict, ev, globs))[place[n]] = n - 1
      /\ Ranked(dict, ev, globs) =
           [n \in 1 .. Cardinality(P) |-> SiteAt(dict, ev, place[n])]

LEMMA RankedOf ==
  ASSUME NEW dict, Usable(dict), NEW ev, NEW globs
  PROVE  \E place : RanksBy(dict, ev, globs, place)
<1> DEFINE P == SitePlaces(dict, ev, globs)
           R == OrderOf(dict, ev, globs)
           place == [n \in 1 .. Cardinality(P) |->
                       CHOOSE x \in P : Cardinality({y \in P : Outranks(dict, ev, y, x)}) = n - 1]
<1>1. IsFiniteSet(P)
  BY SitePlacesFinite DEF Usable
<1>2. Strict(P, R)
  BY SitesAreOrdered
<1>3. ASSUME NEW x \in P
      PROVE  Height(P, R)[x] = Cardinality({y \in P : Outranks(dict, ev, y, x)})
  <2>1. LowerSet(P, R, x) = {y \in P : Outranks(dict, ev, y, x)}
    BY DEF LowerSet, OrderOf
  <2> HIDE DEF P, R
  <2> QED
    BY <2>1 DEF Height
<1>4. Ranked(dict, ev, globs) = [n \in 1 .. Cardinality(P) |-> SiteAt(dict, ev, place[n])]
  <2>1. DOMAIN place = 1 .. Cardinality(P)
    OBVIOUS
  <2>2. Ranked(dict, ev, globs) = [n \in DOMAIN place |-> SiteAt(dict, ev, place[n])]
    BY Zenon DEF Ranked, InOrder
  <2> QED
    BY <2>1, <2>2
<1>5. ASSUME NEW n \in 1 .. Cardinality(P)
      PROVE  place[n] \in P /\ Height(P, R)[place[n]] = n - 1
  <2>1. \E x \in P : Height(P, R)[x] = n - 1
    BY <1>1, <1>2, HeightReaches
  <2>2. \E x \in P : Cardinality({y \in P : Outranks(dict, ev, y, x)}) = n - 1
    BY <1>3, <2>1
  <2>3. place[n] = CHOOSE x \in P : Cardinality({y \in P : Outranks(dict, ev, y, x)}) = n - 1
    OBVIOUS
  <2> HIDE DEF P, R, place
  <2>4. place[n] \in P /\ Cardinality({y \in P : Outranks(dict, ev, y, place[n])}) = n - 1
    BY <2>2, <2>3, Zenon
  <2> QED
    BY <1>3, <2>4
<1>6. place \in [1 .. Cardinality(P) -> P]
  <2>1. \A n \in 1 .. Cardinality(P) : place[n] \in P
    BY <1>5
  <2> QED
    BY <2>1
<1> HIDE DEF place
<1>7. RanksBy(dict, ev, globs, place)
  BY <1>4, <1>5, <1>6 DEF RanksBy
<1> QED
  BY <1>7

(* The same files in another order have the same call sites in the same    *)
(* order.                                                                  *)
LEMMA RankedIgnoresOrder ==
  ASSUME NEW dict, Usable(dict), NEW ev, NEW globs,
         NEW order \in [1 .. Len(dict) -> 1 .. Len(dict)], IsInjective(order)
  PROVE  Ranked([i \in 1 .. Len(dict) |-> dict[order[i]]], ev, globs) =
           Ranked(dict, ev, globs)
<1> DEFINE N == Len(dict)
           G == [i \in 1 .. N |-> dict[order[i]]]
           P == SitePlaces(dict, ev, globs)
           Q == SitePlaces(G, ev, globs)
           f == [p \in Q |-> <<order[p[1]], p[2]>>]
<1>1. N \in Nat /\ \A i \in 1 .. N : dict[i] \in SourceFiles
  BY LenProperties, ElementOfSeq DEF Usable
<1>2. /\ G \in Seq(SourceFiles) /\ Len(G) = N
      /\ \A i \in 1 .. N : order[i] \in 1 .. N /\ G[i] = dict[order[i]]
  <2>1. G \in [1 .. N -> SourceFiles]
    BY <1>1
  <2> HIDE DEF N
  <2>2. G \in Seq(SourceFiles) /\ Len(G) = N
    BY <1>1, <2>1
  <2> QED
    BY <2>2 DEF N
<1>3. \A i, j \in 1 .. N : order[i] = order[j] => i = j
  BY DEF IsInjective
<1>4. \A j \in 1 .. N : \E i \in 1 .. N : order[i] = j
  <2>1. order \in Injection(1 .. N, 1 .. N)
    BY DEF Injection
  <2> HIDE DEF N
  <2>2. IsFiniteSet(1 .. N)
    BY <1>1, FS_Interval
  <2>3. order \in Surjection(1 .. N, 1 .. N)
    BY <2>1, <2>2, FS_Injection
  <2> QED
    BY <2>3 DEF Surjection
<1> HIDE DEF G, N
<1>5. Usable(G)
  <2>1. /\ \A m, n \in 1 .. N : dict[m].path = dict[n].path => m = n
        /\ \A i \in 1 .. N : \E n \in 1 .. Len(PathOrder) : PathOrder[n] = dict[i].path
    BY DEF Usable, Distinct, N
  <2>2. ASSUME NEW m \in 1 .. N, NEW n \in 1 .. N, G[m].path = G[n].path PROVE m = n
    <3>1. /\ order[m] \in 1 .. N /\ order[n] \in 1 .. N
          /\ G[m] = dict[order[m]] /\ G[n] = dict[order[n]]
      BY ONLY <1>2, m \in 1 .. N, n \in 1 .. N
    <3>2. order[m] = order[n]
      BY ONLY <2>1, <2>2, <3>1
    <3> QED
      BY <1>3, <3>2
  <2>3. ASSUME NEW i \in 1 .. N PROVE \E n \in 1 .. Len(PathOrder) : PathOrder[n] = G[i].path
    <3>1. order[i] \in 1 .. N /\ G[i] = dict[order[i]]
      BY ONLY <1>2, i \in 1 .. N
    <3> QED
      BY <2>1, <3>1, Zenon
  <2> QED
    BY ONLY <1>2, <2>2, <2>3 DEF Usable, Distinct
<1>6. \A p \in Q : IsPlace(G, p) /\ IsSite(G, ev, globs, p[1], p[2])
  BY SitePlacesOf
<1>7. \A p \in P : IsPlace(dict, p) /\ IsSite(dict, ev, globs, p[1], p[2])
  BY SitePlacesOf
<1>8. ASSUME NEW i \in 1 .. N, NEW l
      PROVE  /\ IsSite(G, ev, globs, i, l) <=> IsSite(dict, ev, globs, order[i], l)
             /\ G[i].lines = dict[order[i]].lines
             /\ SiteAt(G, ev, <<i, l>>) = SiteAt(dict, ev, <<order[i], l>>)
  BY <1>2 DEF IsSite, SiteAt
<1>9. ASSUME NEW p \in Q
      PROVE  /\ p[1] \in 1 .. N /\ p = <<p[1], p[2]>> /\ f[p] \in P
             /\ f[p] = <<order[p[1]], p[2]>> /\ IsPlace(dict, f[p])
             /\ SiteAt(G, ev, p) = SiteAt(dict, ev, f[p])
  <2>1. p[1] \in 1 .. N /\ p = <<p[1], p[2]>> /\ p[2] \in 1 .. Len(dict[order[p[1]]].lines)
    BY <1>2, <1>6 DEF IsPlace
  <2>2. IsSite(dict, ev, globs, order[p[1]], p[2])
    BY <1>6, <1>8, <2>1
  <2>3. order[p[1]] \in 1 .. Len(dict)
    BY <1>2, <2>1 DEF N
  <2>4. <<order[p[1]], p[2]>> \in P
    BY <2>1, <2>2, <2>3, SitePlacesOf
  <2>5. f[p] = <<order[p[1]], p[2]>>
    OBVIOUS
  <2> HIDE DEF f, P, Q
  <2>6. SiteAt(G, ev, p) = SiteAt(dict, ev, f[p])
    BY <1>8, <2>1, <2>5
  <2> QED
    BY <1>7, <2>1, <2>4, <2>5, <2>6
<1> HIDE DEF f
<1>10. f \in Bijection(Q, P)
  <2>1. f \in [Q -> P]
    BY <1>9 DEF f
  <2>2. ASSUME NEW p \in Q, NEW q \in Q, f[p] = f[q] PROVE p = q
    <3>1. order[p[1]] = order[q[1]] /\ p[2] = q[2]
      BY <1>9, <2>2
    <3> QED
      BY <1>3, <1>9, <3>1
  <2>3. ASSUME NEW x \in P PROVE \E p \in Q : f[p] = x
    <3>1. /\ x = <<x[1], x[2]>> /\ x[1] \in 1 .. N /\ x[2] \in 1 .. Len(dict[x[1]].lines)
          /\ IsSite(dict, ev, globs, x[1], x[2])
      BY <1>7 DEF IsPlace, N
    <3>2. PICK i \in 1 .. N : order[i] = x[1]
      BY <1>4, <3>1
    <3>3. i \in 1 .. Len(G) /\ x[2] \in 1 .. Len(G[i].lines) /\ IsSite(G, ev, globs, i, x[2])
      BY <1>2, <1>8, <3>1, <3>2
    <3>4. <<i, x[2]>> \in Q
      BY <3>3, SitePlacesOf
    <3>5. f[<<i, x[2]>>] = x
      BY <1>9, <3>1, <3>2, <3>4
    <3> QED
      BY <3>4, <3>5
  <2> HIDE DEF P, Q
  <2> QED
    BY <2>1, <2>2, <2>3 DEF Bijection, Injection, Surjection, IsInjective
<1>11. \A p, q \in Q : <<p, q>> \in OrderOf(G, ev, globs) <=>
                         <<f[p], f[q]>> \in OrderOf(dict, ev, globs)
  <2>1. ASSUME NEW p \in Q, NEW q \in Q
        PROVE  Outranks(G, ev, p, q) <=> Outranks(dict, ev, f[p], f[q])
    <3>1. Key(G, ev, p) = Key(dict, ev, f[p]) /\ Key(G, ev, q) = Key(dict, ev, f[q])
      BY <1>9 DEF Key
    <3>2. Outranks(G, ev, p, q) <=> Lexical(Key(G, ev, p), Key(G, ev, q))
      BY <1>5, <1>6, OutranksIsLexical
    <3>3. Outranks(dict, ev, f[p], f[q]) <=> Lexical(Key(dict, ev, f[p]), Key(dict, ev, f[q]))
      BY <1>9, OutranksIsLexical
    <3> QED
      BY <3>1, <3>2, <3>3
  <2> QED
    BY <1>9, <2>1 DEF OrderOf
<1> DEFINE R == OrderOf(dict, ev, globs)
           T == OrderOf(G, ev, globs)
<1>12. IsFiniteSet(P) /\ Strict(P, R)
  BY SitePlacesFinite, SitesAreOrdered DEF Usable
<1>13. PICK a : RanksBy(dict, ev, globs, a)
  BY RankedOf
<1>14. PICK b : RanksBy(G, ev, globs, b)
  BY <1>5, RankedOf
<1>15. /\ a \in [1 .. Cardinality(P) -> P]
       /\ \A n \in 1 .. Cardinality(P) : Height(P, R)[a[n]] = n - 1
       /\ Ranked(dict, ev, globs) = [n \in 1 .. Cardinality(P) |-> SiteAt(dict, ev, a[n])]
  BY <1>13 DEF RanksBy
<1>16. /\ b \in [1 .. Cardinality(Q) -> Q]
       /\ \A n \in 1 .. Cardinality(Q) : Height(Q, T)[b[n]] = n - 1
       /\ Ranked(G, ev, globs) = [n \in 1 .. Cardinality(Q) |-> SiteAt(G, ev, b[n])]
  BY <1>14 DEF RanksBy
<1> HIDE DEF P, Q, R, T
<1>17. Cardinality(Q) = Cardinality(P) /\ \A p \in Q : Height(P, R)[f[p]] = Height(Q, T)[p]
  BY <1>10, <1>11, <1>12, HeightKept DEF R, T
<1>18. ASSUME NEW n \in 1 .. Cardinality(P)
       PROVE  SiteAt(G, ev, b[n]) = SiteAt(dict, ev, a[n])
  <2>1. a[n] \in P /\ Height(P, R)[a[n]] = n - 1 /\ b[n] \in Q /\ Height(Q, T)[b[n]] = n - 1
    BY <1>15, <1>16, <1>17
  <2>2. f[b[n]] \in P /\ Height(P, R)[f[b[n]]] = n - 1
    BY <1>9, <1>17, <2>1
  <2>3. \A x, y \in P : Height(P, R)[x] = Height(P, R)[y] => x = y
    BY <1>12, HeightGrows
  <2>4. f[b[n]] = a[n]
    BY <2>1, <2>2, <2>3
  <2> QED
    BY <1>9, <2>1, <2>4
<1>19. Ranked(G, ev, globs) = Ranked(dict, ev, globs)
  BY <1>15, <1>16, <1>17, <1>18
<1> QED
  BY <1>19 DEF G, N

(* A report is the one of files as given or as in a snapshot, for an event *)
(* that the client still has.                                              *)
Sendable(dict) ==
  \/ dict = given
  \/ /\ \A i \in 1 .. Len(given) : ValidPath(given[i].path)
     /\ \E globs \in Globs : dict = Normalized(given, globs)
ReportInv ==
  report # Nothing =>
    /\ Sendable(report.files)
    /\ \E ev \in Events : report = BlastRadius(report.files, ev, report.globs)

LEMMA ReportInvariant == Spec => [](FilesInv /\ EventsInv /\ ReportInv)
<1>1. Init => ReportInv
  BY DEF Init, ReportInv
<1>2. ReportInv /\ FilesInv /\ [Next]_vars => ReportInv'
  <2> SUFFICES ASSUME ReportInv, FilesInv, [Next]_vars PROVE ReportInv'
    OBVIOUS
  <2>1. CASE AnalyzeBlastRadius
    <3>1. PICK ev \in Events, globs \in {"default", "*"} : report' = BlastRadius(files, ev, globs)
      BY <2>1 DEF AnalyzeBlastRadius
    <3>2. report'.files = files /\ report'.globs = globs
      BY <3>1 DEF BlastRadius
    <3>3. Sendable(files)' /\ files' = files
      BY <2>1 DEF Sendable, FilesInv, AnalyzeBlastRadius
    <3>4. Events' = Events
      BY <2>1 DEF AnalyzeBlastRadius, Events
    <3>5. Sendable(report.files)'
      BY <3>2, <3>3 DEF Sendable
    <3>6. \E e \in Events' : report' = BlastRadius(report'.files, e, report'.globs)
      BY <3>1, <3>2, <3>4
    <3> QED
      BY <3>5, <3>6 DEF ReportInv
  <2>2. CASE ~AnalyzeBlastRadius
    <3>1. UNCHANGED <<report, given>>
      BY <2>2 DEF Next, vars, IngestOpenApi, IngestVendorEvent, IngestRepositorySnapshot,
                  CreateJob
    <3>2. (event' = event \/ event = Nothing) /\ (news' = news \/ news = Nothing)
      BY <2>2 DEF Next, vars, IngestOpenApi, IngestVendorEvent, IngestRepositorySnapshot,
                  CreateJob
    <3>3. Events \subseteq Events'
      BY <3>2 DEF Events
    <3> QED
      BY <3>1, <3>3 DEF ReportInv, Sendable
  <2> QED
    BY <2>1, <2>2
<1> QED
  BY <1>1, <1>2, FilesInvariant, EventsInvariant, PTL DEF Spec

LEMMA SendableIsUsable ==
  ASSUME NEW dict, FilesInv, Sendable(dict)
  PROVE  Usable(dict)
<1>1. /\ given \in Seq(SourceFiles)
      /\ \A i \in 1 .. Len(given) : given[i] \in SourceFiles
  BY RepositoryFiles DEF FilesInv
<1>2. CASE dict = given
  <2>1. Distinct(given)
    BY IngestionAssumption DEF FilesInv, Distinct, IsInjective
  <2>2. \A i \in 1 .. Len(given) : \E n \in 1 .. Len(PathOrder) : PathOrder[n] = given[i].path
    BY PathOrderAssumption DEF FilesInv
  <2> QED
    BY <1>1, <1>2, <2>1, <2>2 DEF Usable
<1>3. CASE /\ \A i \in 1 .. Len(given) : ValidPath(given[i].path)
           /\ \E globs \in Globs : dict = Normalized(given, globs)
  <2>0. PICK globs \in Globs : dict = Normalized(given, globs)
    BY <1>3
  <2>1. Stored(given, Len(given), dict, globs)
    BY <1>1, <2>0, StoresStored
  <2>2. \A i \in 1 .. Len(given) :
          \E n \in 1 .. Len(PathOrder) : PathOrder[n] = NormPath(given[i].path)
    BY <1>3, PathOrderAssumption DEF FilesInv
  <2>3. ASSUME NEW i \in 1 .. Len(dict)
        PROVE  \E n \in 1 .. Len(PathOrder) : PathOrder[n] = dict[i].path
    <3>1. Holds(dict, dict[i])
      BY DEF Holds
    <3>2. PICK j \in 1 .. Len(given) : dict[i] = Normal(given[j])
      BY <2>1, <3>1 DEF Stored
    <3>3. dict[i].path = NormPath(given[j].path)
      BY <1>1, <3>2, NormalType
    <3> QED
      BY <2>2, <3>3
  <2> QED
    BY <2>1, <2>3 DEF Usable, Stored
<1> QED
  BY <1>2, <1>3 DEF Sendable

(* For any files, in any order, and any event: the call sites and their    *)
(* ranking are the same whatever order the files were sent in              *)
(* (build_blast_radius).                                                   *)
THEOREM IngestionReportIgnoresFileOrder == Spec => []ReportIgnoresFileOrder
<1>1. FilesInv /\ EventsInv /\ ReportInv => ReportIgnoresFileOrder
  <2> SUFFICES ASSUME FilesInv, EventsInv, ReportInv, report # Nothing
               PROVE  ReportIgnoresFileOrder
    BY DEF ReportIgnoresFileOrder
  <2> DEFINE dict == report.files
             ev == CHOOSE e \in Events : e.id = report.event
             N == 1 .. Len(dict)
  <2>1. Usable(dict)
    BY SendableIsUsable DEF ReportInv
  <2>2. PICK e \in Events : report = BlastRadius(dict, e, report.globs)
    BY DEF ReportInv
  <2>3. report.event = e.id /\ report.call_sites = Ranked(dict, e, report.globs)
    BY <2>2 DEF BlastRadius
  <2>4. \A x, y \in Events : x.id = y.id => x = y
    BY DEF Events, EventsInv, EventOK, NewsOK
  <2>5. ev = e
    BY <2>3, <2>4
  <2> HIDE DEF ev, dict
  <2>6. ASSUME NEW order \in [N -> N], IsInjective(order)
        PROVE  BlastRadius([i \in N |-> dict[order[i]]], ev, report.globs).call_sites
                 = report.call_sites
    <3>1. Ranked([i \in N |-> dict[order[i]]], ev, report.globs) = Ranked(dict, ev, report.globs)
      BY <2>1, <2>6, RankedIgnoresOrder
    <3> QED
      BY <2>3, <2>5, <3>1 DEF BlastRadius
  <2> QED
    BY <2>6 DEF ReportIgnoresFileOrder, ev, dict
<1> QED
  BY <1>1, ReportInvariant, PTL

-----------------------------------------------------------------------------
(* From a changed operation to the endpoint that the change is attributed  *)
(* to *)

LEMMA LeastExists ==
  ASSUME NEW S \in SUBSET Nat, NEW n \in S
  PROVE  Min(S) \in S /\ \A y \in S : Min(S) <= y
<1>1. PICK x \in S : \A y \in S : ~(<<y, x>> \in OpToRel(<, Nat))
  BY NatLessThanWellFounded, WFMin
<1>2. ASSUME NEW y \in S PROVE x <= y
  <2>1. y < x => <<y, x>> \in OpToRel(<, Nat)
    BY DEF OpToRel
  <2>2. ~(<<y, x>> \in OpToRel(<, Nat))
    BY <1>1
  <2>3. ~(y < x)
    BY <2>1, <2>2, Zenon
  <2> QED
    BY <2>3
<1> QED
  BY <1>2 DEF Min

(* A method in lower case is a method.                                     *)
LEMMA MethodsAreMethods == \A m \in HttpMethods : IsMethod(m)
BY LoweredAssumption, Zenon DEF IsMethod

LEMMA BlankIs ==
  /\ ~IsMethod(Blank) /\ Blank # "paths"
  /\ Root = <<Blank, Blank>>
  /\ \A segments :
       Joined(segments) = IF segments \in {<<>>, <<Blank>>} THEN Root ELSE segments
<1>1. ~IsMethod(Blank) /\ Blank # "paths"
  <2>1. Blank \notin HttpMethods /\ Blank # "paths"
    BY Zenon DEF HttpMethods, Blank
  <2>2. Lower(Blank) = Blank
    BY LoweredAssumption, Zenon DEF Blank
  <2> QED
    BY <2>1, <2>2, Zenon DEF IsMethod
<1>2. Root = <<Blank, Blank>>
  BY Zenon DEF Root, Blank
<1>3. \A segments :
        Joined(segments) = IF segments \in {<<>>, <<Blank>>} THEN Root ELSE segments
  BY Zenon DEF Joined, Blank
<1> QED
  BY <1>1, <1>2, <1>3

(* A path under paths is attributed to all that follows, if its value has  *)
(* a method, or to what comes before the first method, or to nothing.      *)
Part(s, k) == IF k = 1 THEN Root ELSE SubSeq(s, 1, k)
Attributed(s, endpoint) ==
  \E k \in 1 .. Len(s) - 1 :
    /\ endpoint = Part(s, k)
    /\ \A i \in 1 .. k : ~IsMethod(s[i])
LEMMA EndpointShape ==
  ASSUME <<"paths">> \in Seq(STRING), NEW s \in Seq(STRING), Len(s) > 1, s[1] = Blank,
         NEW value
  PROVE  LET endpoint == EndpointFromPath(<<"paths">> \o s, value)
         IN  /\ HasMethodKey(value) => endpoint = s
             /\ ~HasMethodKey(value) =>
                  \/ /\ endpoint = NoEndpoint
                     /\ \A i \in 1 .. Len(s) : ~IsMethod(s[i])
                  \/ Attributed(s, endpoint)
<1> DEFINE path == <<"paths">> \o s
           endpoint == EndpointFromPath(path, value)
           methods == {i \in 1 .. Len(s) : IsMethod(s[i])}
<1>1. Len(s) \in Nat
  OBVIOUS
<1>2. path \in Seq(STRING) /\ Len(path) = 1 + Len(s) /\ path[1] = "paths" /\ Tail(path) = s
  <2>1. Len(<<"paths">>) = 1 /\ <<"paths">>[1] = "paths"
    OBVIOUS
  <2>2. /\ path \in Seq(STRING) /\ Len(path) = 1 + Len(s)
        /\ \A i \in 1 .. 1 + Len(s) :
             path[i] = IF i <= 1 THEN <<"paths">>[i] ELSE s[i - 1]
    BY <2>1, ConcatProperties
  <2>3. path[1] = "paths"
    BY <1>1, <2>1, <2>2
  <2> HIDE DEF path
  <2>4. \A i \in 1 .. Len(s) : path[i + 1] = s[i]
    BY <1>1, <2>2
  <2>5. /\ Tail(path) \in Seq(STRING) /\ Len(Tail(path)) = Len(s)
        /\ \A i \in 1 .. Len(s) : Tail(path)[i] = path[i + 1]
    BY <1>1, <2>2
  <2>6. Tail(path) = s
    BY <2>4, <2>5, SeqEqual
  <2> QED
    BY <2>2, <2>3, <2>6
<1>3. endpoint = IF HasMethodKey(value) THEN s
                 ELSE IF methods # {} THEN Joined(SubSeq(s, 1, Min(methods) - 1))
                 ELSE NoEndpoint
  <2> HIDE DEF path
  <2>1. Len(<<"paths", Blank>>) = 2
    OBVIOUS
  <2>2. ~(Len(path) < 2) /\ path # <<"paths", Blank>>
    BY <1>1, <1>2, <2>1
  <2> QED
    BY <1>2, <2>2, Zenon DEF EndpointFromPath, Blank
<1> HIDE DEF path, endpoint
<1>4. ASSUME ~HasMethodKey(value), methods = {}
      PROVE  endpoint = NoEndpoint /\ \A i \in 1 .. Len(s) : ~IsMethod(s[i])
  BY <1>3, <1>4
<1>5. ASSUME ~HasMethodKey(value), methods # {}
      PROVE  Attributed(s, endpoint)
  <2> DEFINE k == Min(methods) - 1
  <2>1. Min(methods) \in methods /\ \A y \in methods : Min(methods) <= y
    <3>1. methods \in SUBSET Nat
      OBVIOUS
    <3> HIDE DEF methods
    <3> QED
      BY <1>5, <3>1, LeastExists
  <2>2. Min(methods) # 1
    BY <2>1, BlankIs
  <2>3. k \in 1 .. Len(s) - 1 /\ Min(methods) = k + 1
    BY <1>1, <2>1, <2>2
  <2>4. \A i \in 1 .. k : ~IsMethod(s[i])
    <3>1. ASSUME NEW i \in 1 .. k, i \in methods PROVE FALSE
      BY <2>1, <2>3, <3>1
    <3>2. \A i \in 1 .. k : i \in 1 .. Len(s)
      BY <1>1, <2>3
    <3> HIDE DEF k
    <3> QED
      BY <3>1, <3>2
  <2>5. endpoint = Joined(SubSeq(s, 1, k))
    BY <1>3, <1>5
  <2> HIDE DEF k
  <2>6. /\ SubSeq(s, 1, k) \in Seq(STRING) /\ Len(SubSeq(s, 1, k)) = k
        /\ \A i \in 1 .. k : SubSeq(s, 1, k)[i] = s[i]
    BY <1>1, <2>3
  <2>7. endpoint = Part(s, k)
    <3>1. CASE k = 1
      <4>1. <<Blank>> \in Seq(STRING) /\ Len(<<Blank>>) = 1 /\ <<Blank>>[1] = s[1]
        BY <1>1
      <4>2. SubSeq(s, 1, k) = <<Blank>>
        <5> DEFINE t == SubSeq(s, 1, k)
                   u == <<Blank>>
        <5>1. /\ t \in Seq(STRING) /\ u \in Seq(STRING) /\ Len(t) = Len(u)
              /\ \A i \in 1 .. Len(t) : t[i] = u[i]
          BY <2>6, <3>1, <4>1
        <5> HIDE DEF t, u
        <5>2. t = u
          BY <5>1, SeqEqual
        <5> QED
          BY <5>2 DEF t, u
      <4>3. Part(s, k) = Root
        BY <3>1 DEF Part
      <4>4. Joined(<<Blank>>) = Root
        BY BlankIs, Zenon
      <4> QED
        BY <2>5, <4>2, <4>3, <4>4, Zenon
    <3>2. CASE k # 1
      <4>1. Len(<<>>) = 0 /\ Len(<<Blank>>) = 1
        OBVIOUS
      <4>2. SubSeq(s, 1, k) # <<>> /\ SubSeq(s, 1, k) # <<Blank>>
        <5>1. Len(SubSeq(s, 1, k)) = k /\ k # 0
          BY <2>3, <2>6
        <5> QED
          BY <3>2, <4>1, <5>1, Zenon
      <4> QED
        BY <2>5, <3>2, <4>2, BlankIs, Zenon DEF Part
    <3> QED
      BY <3>1, <3>2
  <2> QED
    BY <2>3, <2>4, <2>7 DEF Attributed
<1> QED
  BY <1>3, <1>4, <1>5 DEF path, endpoint

(* The changes of one key                                                  *)
Amends(before, after, c, path) ==
  \E d \in Walk(before, after) :
    d.path = path /\ d.before = c.before /\ d.after = c.after
LEMMA ChangesAtKey ==
  ASSUME NEW before \in Values, NEW after \in Values,
         IsObject(before), IsObject(after), NEW k
  PROVE  /\ k \in OnlyIn(before, after) =>
              \E c \in Walk(before, after) :
                c.path = k /\ c.before = before.fields[k] /\ c.after = None
         /\ k \in OnlyIn(after, before) =>
              \E c \in Walk(before, after) :
                c.path = k /\ c.before = None /\ c.after = after.fields[k]
         /\ k \in Shared(before, after) =>
              \A c \in Walk(before.fields[k], after.fields[k]) :
                Amends(before, after, c, k \o c.path)
<1>1. Removed(before, after) \subseteq Walk(before, after)
      /\ Added(before, after) \subseteq Walk(before, after)
  BY WalkOf
<1>2. ASSUME k \in OnlyIn(before, after)
      PROVE  \E c \in Walk(before, after) :
               c.path = k /\ c.before = before.fields[k] /\ c.after = None
  <2> DEFINE c == SpecChange(k, "removed", before.fields[k], None)
  <2>1. c \in Walk(before, after)
    BY <1>1, <1>2 DEF Removed
  <2>2. c.path = k /\ c.before = before.fields[k] /\ c.after = None
    BY DEF SpecChange
  <2> QED
    BY <2>1, <2>2
<1>3. ASSUME k \in OnlyIn(after, before)
      PROVE  \E c \in Walk(before, after) :
               c.path = k /\ c.before = None /\ c.after = after.fields[k]
  <2> DEFINE c == SpecChange(k, "added", None, after.fields[k])
  <2>1. c \in Walk(before, after)
    BY <1>1, <1>3 DEF Added
  <2>2. c.path = k /\ c.before = None /\ c.after = after.fields[k]
    BY DEF SpecChange
  <2> QED
    BY <2>1, <2>2
<1>4. ASSUME k \in Shared(before, after), NEW c \in Walk(before.fields[k], after.fields[k])
      PROVE  Amends(before, after, c, k \o c.path)
  <2>1. \A j \in Shared(before, after) :
          \A b \in Walk(before.fields[j], after.fields[j]) :
            \E d \in Walk(before, after) :
              d.kind = b.kind /\ d.path = j \o b.path
              /\ d.before = b.before /\ d.after = b.after
    BY ChangesBelow, Zenon
  <2> QED
    BY <1>4, <2>1, Zenon DEF Amends
<1> QED
  BY <1>2, <1>3, <1>4

(* What is under paths in an OpenAPI document                              *)
Endpoints(doc) == doc.fields[<<"paths">>]
LEMMA EndpointsOf ==
  ASSUME NEW doc \in Values, IsObject(doc), WellFormed(doc)
  PROVE  /\ <<"paths">> \in DOMAIN doc.fields /\ <<"paths">> \in Seq(STRING)
         /\ \A k \in DOMAIN doc.fields : k[1] = "paths" => k = <<"paths">>
         /\ Endpoints(doc) \in Values /\ IsObject(Endpoints(doc))
         /\ \A e \in DOMAIN Endpoints(doc).fields :
              /\ e \in Seq(STRING) /\ Len(e) > 1 /\ e[1] = Blank
              /\ Endpoints(doc).fields[e] \in Values /\ IsObject(Endpoints(doc).fields[e])
<1>1. /\ <<"paths">> \in DOMAIN doc.fields
      /\ \A k \in DOMAIN doc.fields : k[1] = "paths" => k = <<"paths">>
      /\ IsObject(Endpoints(doc))
      /\ \A e \in DOMAIN Endpoints(doc).fields :
           Len(e) > 1 /\ e[1] = Blank /\ IsObject(Endpoints(doc).fields[e])
  BY Zenon DEF WellFormed, Endpoints, Blank
<1>2. <<"paths">> \in Seq(STRING) /\ Endpoints(doc) \in Values
  BY <1>1, Inside DEF Endpoints
<1>3. \A e \in DOMAIN Endpoints(doc).fields :
        e \in Seq(STRING) /\ Endpoints(doc).fields[e] \in Values
  BY <1>1, <1>2, Inside
<1> QED
  BY <1>1, <1>2, <1>3

(* All that an endpoint is put together from begins with a key of paths,   *)
(* and so with a slash.                                                    *)
LEMMA FollowedBy ==
  ASSUME NEW e \in Seq(STRING), NEW r \in Seq(STRING), Len(e) > 1
  PROVE  /\ e \o r \in Seq(STRING) /\ Len(e \o r) = Len(e) + Len(r)
         /\ \A i \in 1 .. Len(e) : (e \o r)[i] = e[i]
         /\ \A i \in 1 .. Len(r) : (e \o r)[Len(e) + i] = r[i]
<1>1. /\ e \o r \in Seq(STRING) /\ Len(e \o r) = Len(e) + Len(r)
      /\ \A i \in 1 .. Len(e) + Len(r) :
           (e \o r)[i] = IF i <= Len(e) THEN e[i] ELSE r[i - Len(e)]
  BY ConcatProperties
<1>2. Len(e) \in Nat /\ Len(r) \in Nat
  OBVIOUS
<1>3. ASSUME NEW i \in 1 .. Len(r) PROVE (e \o r)[Len(e) + i] = r[i]
  <2>1. /\ Len(e) + i \in 1 .. Len(e) + Len(r) /\ ~(Len(e) + i <= Len(e))
        /\ (Len(e) + i) - Len(e) = i
    BY <1>2
  <2> QED
    BY <1>1, <2>1
<1>4. \A i \in 1 .. Len(e) : (e \o r)[i] = e[i]
  BY <1>1, <1>2
<1> QED
  BY <1>1, <1>3, <1>4

(* Where an endpoint is taken from a path, it occurs in what the path      *)
(* begins with.                                                            *)
LEMMA OccursAtStart ==
  ASSUME NEW p, NEW q, Len(p) \in Nat, Len(q) \in Nat, Len(p) <= Len(q),
         \A j \in 1 .. Len(p) : p[j] = q[j] \/ (p[j] = Blank /\ j \in {1, Len(p)})
  PROVE  Occurs(p, q)
<1>1. 0 \in 0 .. Len(q) - Len(p)
  OBVIOUS
<1>2. ASSUME NEW j \in 1 .. Len(p)
      PROVE  p[j] = q[0 + j] \/ (p[j] = Blank /\ j \in {1, Len(p)})
  <2>1. 0 + j = j
    OBVIOUS
  <2> QED
    BY <2>1, Zenon
<1> QED
  BY <1>1, <1>2, Zenon DEF Occurs, Blank

LEMMA PartOf ==
  ASSUME NEW s \in Seq(STRING), Len(s) > 1, s[1] = Blank, NEW k \in 1 .. Len(s) - 1
  PROVE  /\ Len(Part(s, k)) > 1 /\ Part(s, k)[1] = Blank
         /\ \A q \in Seq(STRING) :
              Len(q) > 1 /\ k <= Len(q) /\ (\A i \in 1 .. k : q[i] = s[i]) =>
                Occurs(Part(s, k), q)
<1>1. Len(s) \in Nat
  OBVIOUS
<1>2. CASE k = 1
  <2>1. Len(<<Blank, Blank>>) = 2 /\ \A j \in 1 .. 2 : <<Blank, Blank>>[j] = Blank
    OBVIOUS
  <2>2. Part(s, k) = Root /\ Root = <<Blank, Blank>>
    BY <1>2, BlankIs DEF Part
  <2>3. Len(Part(s, k)) = 2 /\ \A j \in 1 .. 2 : Part(s, k)[j] = Blank
    BY <2>1, <2>2, Zenon
  <2>4. ASSUME NEW q \in Seq(STRING), Len(q) > 1 PROVE Occurs(Part(s, k), q)
    <3> HIDE DEF Part
    <3>1. /\ Len(Part(s, k)) \in Nat /\ Len(q) \in Nat /\ Len(Part(s, k)) <= Len(q)
          /\ \A j \in 1 .. Len(Part(s, k)) :
               Part(s, k)[j] = Blank /\ j \in {1, Len(Part(s, k))}
      BY <2>3, <2>4
    <3> QED
      BY <3>1, OccursAtStart
  <2> QED
    BY <2>3, <2>4
<1>3. CASE k # 1
  <2>1. Part(s, k) = SubSeq(s, 1, k)
    BY <1>3 DEF Part
  <2>2. /\ Len(Part(s, k)) = k /\ k \in Nat /\ k > 1
        /\ \A j \in 1 .. k : Part(s, k)[j] = s[j]
    BY <1>1, <1>3, <2>1
  <2>3. ASSUME NEW q \in Seq(STRING), k <= Len(q), \A i \in 1 .. k : q[i] = s[i]
        PROVE  Occurs(Part(s, k), q)
    <3> HIDE DEF Part
    <3>1. /\ Len(Part(s, k)) \in Nat /\ Len(q) \in Nat /\ Len(Part(s, k)) <= Len(q)
          /\ \A j \in 1 .. Len(Part(s, k)) : Part(s, k)[j] = q[j]
      BY <2>2, <2>3
    <3> QED
      BY <3>1, OccursAtStart, Zenon
  <2> QED
    BY <1>1, <2>2, <2>3
<1> QED
  BY <1>2, <1>3

(* Where a change is: at a key of one side, or below a key of both.        *)
LEMMA ChangeBegins ==
  ASSUME NEW before \in Values, NEW after \in Values,
         IsObject(before), IsObject(after), NEW c \in Walk(before, after)
  PROVE  \/ \E k \in OnlyIn(before, after) \cup OnlyIn(after, before) : c.path = k
         \/ \E k \in Shared(before, after) :
              \E b \in Walk(before.fields[k], after.fields[k]) : c.path = k \o b.path
<1>1. \A d \in Walk(before, after) :
        \/ d.kind = "removed" /\ \E k \in OnlyIn(before, after) :
             d = SpecChange(k, "removed", before.fields[k], None)
        \/ d.kind = "added" /\ \E k \in OnlyIn(after, before) :
             d = SpecChange(k, "added", None, after.fields[k])
        \/ \E k \in Shared(before, after) :
             \E b \in Walk(before.fields[k], after.fields[k]) :
               /\ d = [b EXCEPT !.path = k \o b.path]
               /\ d.kind = b.kind /\ d.path = k \o b.path
               /\ d.before = b.before /\ d.after = b.after
  BY ChangesBelow, Zenon
<1>2. \A k, kind, x, y : SpecChange(k, kind, x, y).path = k
  BY DEF SpecChange
<1>3. CASE \E k \in OnlyIn(before, after) :
             c = SpecChange(k, "removed", before.fields[k], None)
  BY <1>2, <1>3
<1>4. CASE \E k \in OnlyIn(after, before) :
             c = SpecChange(k, "added", None, after.fields[k])
  BY <1>2, <1>4
<1>5. CASE \E k \in Shared(before, after) :
             \E b \in Walk(before.fields[k], after.fields[k]) : c.path = k \o b.path
  BY <1>5, Zenon
<1> QED
  BY <1>1, <1>3, <1>4, <1>5, Zenon

(* Every change under paths begins with an endpoint.                       *)
Endpointed(v) ==
  /\ v \in Values /\ IsObject(v)
  /\ \A e \in DOMAIN v.fields : e \in Seq(STRING) /\ Len(e) > 1 /\ e[1] = Blank
LEMMA PathsBegin ==
  ASSUME NEW before, NEW after, Endpointed(before), Endpointed(after),
         NEW c \in Walk(before, after)
  PROVE  c.path \in Seq(STRING) /\ Len(c.path) > 1 /\ c.path[1] = Blank
<1>1. c \in Changes
  BY WalkOf DEF Endpointed
<1>2. PICK e \in DOMAIN before.fields \cup DOMAIN after.fields :
        c.path = e \/ \E r \in Seq(STRING) : c.path = e \o r
  <2>1. CASE \E k \in OnlyIn(before, after) \cup OnlyIn(after, before) : c.path = k
    BY <2>1 DEF OnlyIn
  <2>2. CASE \E k \in Shared(before, after) :
               \E b \in Walk(before.fields[k], after.fields[k]) : c.path = k \o b.path
    <3>1. PICK k \in Shared(before, after) :
            \E b \in Walk(before.fields[k], after.fields[k]) : c.path = k \o b.path
      BY <2>2
    <3>2. PICK b \in Walk(before.fields[k], after.fields[k]) : c.path = k \o b.path
      BY <3>1
    <3>3. Walk(before.fields[k], after.fields[k]) \subseteq Changes
      BY FieldOf, WalkOf DEF Endpointed
    <3>4. b.path \in Seq(STRING)
      BY <3>2, <3>3 DEF Changes
    <3> QED
      BY <3>2, <3>4 DEF Shared
  <2>3. /\ before \in Values /\ after \in Values /\ IsObject(before) /\ IsObject(after)
    BY DEF Endpointed
  <2> QED
    BY <2>1, <2>2, <2>3, ChangeBegins, Zenon
<1>3. e \in Seq(STRING) /\ Len(e) > 1 /\ e[1] = Blank
  BY DEF Endpointed
<1>4. CASE c.path = e
  BY <1>3, <1>4
<1>5. CASE \E r \in Seq(STRING) : c.path = e \o r
  <2>1. PICK r \in Seq(STRING) : c.path = e \o r
    BY <1>5
  <2>2. /\ e \o r \in Seq(STRING) /\ Len(e \o r) = Len(e) + Len(r)
        /\ \A i \in 1 .. Len(e) : (e \o r)[i] = e[i]
    BY <1>3, FollowedBy
  <2>3. Len(e) \in Nat /\ Len(r) \in Nat /\ 1 \in 1 .. Len(e)
    BY <1>3
  <2> HIDE DEF Endpointed
  <2> QED
    BY <1>3, <2>1, <2>2, <2>3
<1> QED
  BY <1>2, <1>4, <1>5

(* A change whose path begins with paths is under an endpoint.             *)
LEMMA ChangesUnderPaths ==
  ASSUME NEW before \in Values, NEW after \in Values,
         IsObject(before), IsObject(after), WellFormed(before), WellFormed(after),
         NEW c \in Walk(before, after), c.path[1] = "paths"
  PROVE  \E s \in Seq(STRING) :
           c.path = <<"paths">> \o s /\ Len(s) > 1 /\ s[1] = Blank
<1>1. /\ <<"paths">> \in Shared(before, after) /\ <<"paths">> \in Seq(STRING)
      /\ \A k \in DOMAIN before.fields \cup DOMAIN after.fields :
           k[1] = "paths" => k = <<"paths">>
      /\ Endpointed(Endpoints(before)) /\ Endpointed(Endpoints(after))
  BY EndpointsOf DEF Shared, Endpointed
<1>2. CASE \E k \in OnlyIn(before, after) \cup OnlyIn(after, before) : c.path = k
  <2>1. PICK k \in OnlyIn(before, after) \cup OnlyIn(after, before) : c.path = k
    BY <1>2
  <2>2. k = <<"paths">>
    BY <1>1, <2>1 DEF OnlyIn
  <2> QED
    BY <1>1, <2>2 DEF OnlyIn, Shared
<1>3. CASE \E k \in Shared(before, after) :
             \E b \in Walk(before.fields[k], after.fields[k]) : c.path = k \o b.path
  <2>1. PICK k \in Shared(before, after) :
          \E b \in Walk(before.fields[k], after.fields[k]) : c.path = k \o b.path
    BY <1>3
  <2>2. PICK b \in Walk(before.fields[k], after.fields[k]) : c.path = k \o b.path
    BY <2>1
  <2>3. Walk(before.fields[k], after.fields[k]) \subseteq Changes
    BY FieldOf, WalkOf
  <2>4. k \in Seq(STRING) /\ k # <<>> /\ b.path \in Seq(STRING)
    BY <2>2, <2>3, Inside DEF Changes, Shared
  <2>5. /\ Len(k \o b.path) = Len(k) + Len(b.path)
        /\ \A i \in 1 .. Len(k) + Len(b.path) :
             (k \o b.path)[i] = IF i <= Len(k) THEN k[i] ELSE b.path[i - Len(k)]
    BY <2>4, ConcatProperties
  <2>6. Len(k) \in Nat /\ Len(b.path) \in Nat /\ Len(k) # 0
    BY <2>4, EmptySeq
  <2>7. (k \o b.path)[1] = k[1]
    BY <2>5, <2>6
  <2>8. k = <<"paths">>
    BY <1>1, <2>2, <2>7 DEF Shared
  <2>9. b \in Walk(Endpoints(before), Endpoints(after))
    BY <2>2, <2>8 DEF Endpoints
  <2>10. Len(b.path) > 1 /\ b.path[1] = Blank
    BY <1>1, <2>9, PathsBegin
  <2> QED
    BY <2>2, <2>4, <2>8, <2>10
<1> QED
  BY <1>2, <1>3, ChangeBegins, Zenon

(* No affected endpoint is empty: each begins with a slash.                *)
LEMMA AffectedBegin ==
  ASSUME NEW before \in Values, NEW after \in Values,
         IsObject(before), IsObject(after), WellFormed(before), WellFormed(after),
         NEW endpoint \in AffectedEndpoints(Walk(before, after))
  PROVE  Len(endpoint) > 1 /\ endpoint[1] = Blank
<1>1. PICK c \in Walk(before, after) : endpoint = EndpointOf(c)
  BY DEF AffectedEndpoints
<1>2. endpoint # NoEndpoint
  BY DEF AffectedEndpoints
<1> DEFINE value == IF c.after # None THEN c.after ELSE c.before
<1>3. endpoint = EndpointFromPath(c.path, value)
  BY <1>1 DEF EndpointOf
<1> HIDE DEF value
<1>4. c.path[1] = "paths"
  BY <1>2, <1>3, Zenon DEF EndpointFromPath
<1>5. PICK s \in Seq(STRING) : c.path = <<"paths">> \o s /\ Len(s) > 1 /\ s[1] = Blank
  BY <1>4, ChangesUnderPaths
<1>6. <<"paths">> \in Seq(STRING)
  BY EndpointsOf
<1>7. endpoint = s \/ Attributed(s, endpoint)
  BY <1>2, <1>3, <1>5, <1>6, EndpointShape
<1>8. CASE Attributed(s, endpoint)
  BY <1>5, <1>8, PartOf DEF Attributed
<1> QED
  BY <1>5, <1>7, <1>8

(* A change of a key of paths, as a change of the document: what it is     *)
(* attributed to.                                                          *)
ValueOf(c) == IF c.after # None THEN c.after ELSE c.before
LEMMA PathsAmend ==
  ASSUME NEW before \in Values, NEW after \in Values,
         IsObject(before), IsObject(after), WellFormed(before), WellFormed(after),
         NEW c \in Walk(Endpoints(before), Endpoints(after))
  PROVE  \E d \in Walk(before, after) :
           /\ d.path = <<"paths">> \o c.path /\ ValueOf(d) = ValueOf(c)
           /\ EndpointOf(d) = EndpointFromPath(<<"paths">> \o c.path, ValueOf(c))
<1>1. <<"paths">> \in Shared(before, after)
  BY EndpointsOf DEF Shared
<1>2. Amends(before, after, c, <<"paths">> \o c.path)
  BY <1>1, ChangesAtKey DEF Endpoints
<1>3. PICK d \in Walk(before, after) :
        d.path = <<"paths">> \o c.path /\ d.before = c.before /\ d.after = c.after
  BY <1>2 DEF Amends
<1>4. ValueOf(d) = ValueOf(c)
  BY <1>3 DEF ValueOf
<1>5. EndpointOf(d) = EndpointFromPath(<<"paths">> \o c.path, ValueOf(c))
  BY <1>3, <1>4, Zenon DEF EndpointOf, ValueOf
<1> QED
  BY <1>3, <1>4, <1>5

(* A changed operation is attributed to an endpoint that occurs in its own *)
(* one, if the value of no change in it has a key that is a method.        *)
LEMMA ChangedIsAttributed ==
  ASSUME NEW before \in Values, NEW after \in Values,
         IsObject(before), IsObject(after), WellFormed(before), WellFormed(after),
         NEW q \in Seq(STRING), NEW m \in HttpMethods,
         ~Alike(Operation(before, q, m), Operation(after, q, m)),
         \A c \in Walk(before, after) :
           IsPrefix(<<"paths">> \o q \o <<m>>, c.path) => ~HasMethodKey(ValueOf(c))
  PROVE  \E p \in AffectedEndpoints(Walk(before, after)) : Occurs(p, q)
<1> DEFINE P == Endpoints(before)
           Q == Endpoints(after)
<1>1. /\ <<"paths">> \in Seq(STRING)
      /\ P \in Values /\ IsObject(P) /\ Q \in Values /\ IsObject(Q)
      /\ \A e \in DOMAIN P.fields :
           Len(e) > 1 /\ e[1] = Blank /\ P.fields[e] \in Values /\ IsObject(P.fields[e])
      /\ \A e \in DOMAIN Q.fields :
           Len(e) > 1 /\ e[1] = Blank /\ Q.fields[e] \in Values /\ IsObject(Q.fields[e])
  BY EndpointsOf
<1>2. /\ Operation(before, q, m) = Field(Field(P, q), <<m>>)
      /\ Operation(after, q, m) = Field(Field(Q, q), <<m>>)
      /\ Operation(before, q, m) # Operation(after, q, m)
  BY EndpointsOf DEF Operation, Field, Endpoints, Alike
<1>3. ~IsObject(None) /\ Field(None, <<m>>) = None
  BY DEF IsObject, None, Scalar, Field
<1> HIDE DEF P, Q
<1>4. ASSUME NEW x, x \in {P, Q}, q \in DOMAIN x.fields, NEW c \in Walk(P, Q), c.path = q,
             ValueOf(c) = x.fields[q], <<m>> \in DOMAIN x.fields[q].fields
      PROVE  \E p \in AffectedEndpoints(Walk(before, after)) : Occurs(p, q)
  <2>1. Len(q) > 1 /\ q[1] = Blank /\ IsObject(x.fields[q])
    BY <1>1, <1>4
  <2>2. HasMethodKey(x.fields[q])
    <3>1. IsMethod(m)
      BY MethodsAreMethods
    <3>2. <<m>> \in DOMAIN x.fields[q].fields /\ Len(<<m>>) = 1 /\ <<m>>[1] = m
      BY <1>4
    <3> QED
      BY <2>1, <3>1, <3>2, Zenon DEF HasMethodKey
  <2>3. PICK d \in Walk(before, after) :
          EndpointOf(d) = EndpointFromPath(<<"paths">> \o q, x.fields[q])
    BY <1>4, PathsAmend DEF P, Q
  <2>4. EndpointOf(d) = q
    BY <1>1, <2>1, <2>2, <2>3, EndpointShape
  <2>5. q \in AffectedEndpoints(Walk(before, after))
    BY <2>1, <2>3, <2>4 DEF AffectedEndpoints, NoEndpoint
  <2>6. Occurs(q, q)
    BY OccursAtStart
  <2> QED
    BY <2>5, <2>6
<1>5. CASE q \in OnlyIn(P, Q)
  <2>1. PICK c \in Walk(P, Q) : c.path = q /\ c.before = P.fields[q] /\ c.after = None
    BY <1>1, <1>5, ChangesAtKey
  <2>2. Field(P, q) = P.fields[q] /\ Field(Q, q) = None
    BY <1>1, <1>5 DEF Field, OnlyIn
  <2>3. <<m>> \in DOMAIN P.fields[q].fields
    BY <1>2, <1>3, <2>2 DEF Field
  <2>4. ValueOf(c) = P.fields[q]
    BY <2>1 DEF ValueOf
  <2> QED
    BY <1>4, <1>5, <2>1, <2>3, <2>4 DEF OnlyIn
<1>6. CASE q \in OnlyIn(Q, P)
  <2>1. PICK c \in Walk(P, Q) : c.path = q /\ c.before = None /\ c.after = Q.fields[q]
    BY <1>1, <1>6, ChangesAtKey
  <2>2. Field(Q, q) = Q.fields[q] /\ Field(P, q) = None
    BY <1>1, <1>6 DEF Field, OnlyIn
  <2>3. <<m>> \in DOMAIN Q.fields[q].fields
    BY <1>2, <1>3, <2>2 DEF Field
  <2>4. Q.fields[q] # None
    BY <1>1, <1>3, <1>6 DEF OnlyIn
  <2>5. ValueOf(c) = Q.fields[q]
    BY <2>1, <2>4 DEF ValueOf
  <2> QED
    BY <1>4, <1>6, <2>1, <2>3, <2>5 DEF OnlyIn
<1>7. CASE q \in Shared(P, Q)
  <2> DEFINE x == P.fields[q]
             y == Q.fields[q]
  <2>1. /\ x \in Values /\ IsObject(x) /\ y \in Values /\ IsObject(y)
        /\ Len(q) > 1 /\ q[1] = Blank
    BY <1>1, <1>7 DEF Shared
  <2>2. /\ Field(x, <<m>>) # Field(y, <<m>>)
        /\ ~Alike(Field(x, <<m>>), Field(y, <<m>>))
    <3>1. Field(P, q) = x /\ Field(Q, q) = y
      BY <1>1, <1>7 DEF Field, Shared
    <3> QED
      BY <1>2, <3>1
  <2> HIDE DEF x, y
  <2>3. PICK c \in Walk(x, y) : \E r \in Seq(STRING) : c.path = <<m>> \o r
    <3>1. CASE <<m>> \in OnlyIn(x, y) \cup OnlyIn(y, x)
      <4>1. PICK c \in Walk(x, y) : c.path = <<m>>
        BY <2>1, <3>1, ChangesAtKey
      <4>2. <<m>> \in Seq(STRING)
        BY <2>1, <3>1, Inside DEF OnlyIn
      <4>3. <<m>> = <<m>> \o <<>> /\ <<>> \in Seq(STRING)
        BY <4>2, ConcatEmptySeq
      <4> QED
        BY <4>1, <4>3
    <3>2. CASE <<m>> \in Shared(x, y)
      <4>1. ~Alike(x.fields[<<m>>], y.fields[<<m>>])
        BY <2>1, <2>2, <3>2 DEF Field, Shared
      <4>2. x.fields[<<m>>] \in Values /\ y.fields[<<m>>] \in Values
        BY <2>1, <3>2, Inside DEF Shared
      <4>3. PICK b \in Walk(x.fields[<<m>>], y.fields[<<m>>]) : TRUE
        BY <4>1, <4>2, NoChangeMeansAlike DEF Alike
      <4>4. b.path \in Seq(STRING)
        BY <4>2, <4>3, WalkOf DEF Changes
      <4>5. Amends(x, y, b, <<m>> \o b.path)
        BY <2>1, <3>2, <4>3, ChangesAtKey
      <4> QED
        BY <4>4, <4>5 DEF Amends
    <3>3. <<m>> \in OnlyIn(x, y) \cup OnlyIn(y, x) \cup Shared(x, y)
      BY <2>1, <2>2 DEF Field, OnlyIn, Shared
    <3> QED
      BY <3>1, <3>2, <3>3
  <2>4. PICK r \in Seq(STRING) : c.path = <<m>> \o r
    BY <2>3
  <2>5. <<m>> \in Seq(STRING)
    BY <2>1, <2>2, Inside DEF Field
  <2> DEFINE t == <<m>> \o r
             s == q \o t
  <2>6. /\ t \in Seq(STRING) /\ Len(t) = 1 + Len(r) /\ t[1] = m
        /\ Len(r) \in Nat
    <3>1. Len(<<m>>) = 1 /\ <<m>>[1] = m
      OBVIOUS
    <3>2. /\ t \in Seq(STRING) /\ Len(t) = 1 + Len(r)
          /\ \A i \in 1 .. 1 + Len(r) : t[i] = IF i <= 1 THEN <<m>>[i] ELSE r[i - 1]
      BY <2>5, <3>1, ConcatProperties
    <3>3. Len(r) \in Nat
      OBVIOUS
    <3> HIDE DEF t
    <3> QED
      BY <3>1, <3>2, <3>3
  <2>7. PICK b \in Walk(P, Q) : b.path = q \o c.path /\ ValueOf(b) = ValueOf(c)
    <3>1. Amends(P, Q, c, q \o c.path)
      BY <1>1, <1>7, <2>3, ChangesAtKey DEF x, y
    <3> QED
      BY <3>1 DEF Amends, ValueOf
  <2>8. PICK d \in Walk(before, after) :
          /\ d.path = <<"paths">> \o b.path /\ ValueOf(d) = ValueOf(b)
          /\ EndpointOf(d) = EndpointFromPath(<<"paths">> \o b.path, ValueOf(b))
    BY PathsAmend DEF P, Q
  <2>9. b.path = s
    BY <2>4, <2>7
  <2> HIDE DEF t
  <2>10. /\ s \in Seq(STRING) /\ Len(s) = Len(q) + Len(t)
         /\ \A i \in 1 .. Len(q) : s[i] = q[i]
         /\ s[Len(q) + 1] = m
    <3>1. /\ s \in Seq(STRING) /\ Len(s) = Len(q) + Len(t)
          /\ \A i \in 1 .. Len(q) : s[i] = q[i]
          /\ \A i \in 1 .. Len(t) : s[Len(q) + i] = t[i]
      BY <2>1, <2>6, FollowedBy
    <3>2. 1 \in 1 .. Len(t)
      BY <2>6
    <3> HIDE DEF s
    <3> QED
      BY <2>6, <3>1, <3>2
  <2>11. IsPrefix(<<"paths">> \o q \o <<m>>, d.path)
    <3> DEFINE u == <<"paths">> \o q
               w == u \o <<m>>
    <3>1. u \in Seq(STRING) /\ w \in Seq(STRING)
      BY <1>1, <2>5, ConcatProperties
    <3>2. d.path = w \o r
      <4>1. d.path = u \o t
        BY <1>1, <2>6, <2>8, <2>9, ConcatAssociative, SMTT(30)
      <4>2. w \o r = u \o t
        BY <2>5, <3>1, ConcatAssociative DEF t
      <4> QED
        BY <4>1, <4>2
    <3> HIDE DEF u, w
    <3>3. /\ w \o r \in Seq(STRING) /\ Len(w \o r) = Len(w) + Len(r)
          /\ \A i \in 1 .. Len(w) + Len(r) :
               (w \o r)[i] = IF i <= Len(w) THEN w[i] ELSE r[i - Len(w)]
      BY <3>1, ConcatProperties
    <3>4. Len(w) <= Len(w \o r) /\ \A i \in 1 .. Len(w) : w[i] = (w \o r)[i]
      BY <2>6, <3>1, <3>3
    <3>5. IsPrefix(w, w \o r)
      BY <3>1, <3>3, <3>4, PrefixMeans
    <3> QED
      BY <3>2, <3>5 DEF u, w
  <2>12. ~HasMethodKey(ValueOf(b))
    BY <2>8, <2>11
  <2> HIDE DEF s
  <2>13. Len(s) > 1 /\ s[1] = Blank /\ Len(q) + 1 \in 1 .. Len(s) /\ Len(q) \in Nat
    <3>1. Len(q) \in Nat /\ 1 \in 1 .. Len(q)
      BY <2>1
    <3>2. s[1] = q[1]
      BY <2>10, <3>1
    <3> QED
      BY <2>1, <2>6, <2>10, <3>1, <3>2
  <2>14. Attributed(s, EndpointOf(d))
    <3>1. \/ \A i \in 1 .. Len(s) : ~IsMethod(s[i])
          \/ Attributed(s, EndpointOf(d))
      BY <1>1, <2>8, <2>9, <2>10, <2>12, <2>13, EndpointShape
    <3> QED
      BY <1>1, <2>10, <2>13, <3>1, MethodsAreMethods
  <2>15. PICK k \in 1 .. Len(s) - 1 :
           EndpointOf(d) = Part(s, k) /\ \A i \in 1 .. k : ~IsMethod(s[i])
    BY <2>14 DEF Attributed
  <2>16. k <= Len(q)
    <3>1. ~(Len(q) + 1 \in 1 .. k)
      BY <1>1, <2>10, <2>15, MethodsAreMethods
    <3> QED
      BY <2>13, <3>1
  <2>17. Len(Part(s, k)) > 1 /\ Occurs(Part(s, k), q)
    <3>1. \A i \in 1 .. k : q[i] = s[i]
      BY <2>10, <2>13, <2>16
    <3> QED
      BY <2>1, <2>10, <2>13, <2>16, <3>1, PartOf
  <2>18. Part(s, k) \in AffectedEndpoints(Walk(before, after))
    BY <2>15, <2>17 DEF AffectedEndpoints, NoEndpoint
  <2> QED
    BY <2>17, <2>18
<1>8. q \in OnlyIn(P, Q) \cup OnlyIn(Q, P) \cup Shared(P, Q)
  BY <1>1, <1>2 DEF Field, OnlyIn, Shared
<1> QED
  BY <1>5, <1>6, <1>7, <1>8

(* Every place is somewhere in the ranking.                                *)
LEMMA SiteIsRanked ==
  ASSUME NEW dict, Usable(dict), NEW ev, NEW globs, NEW p \in SitePlaces(dict, ev, globs)
  PROVE  \E n \in 1 .. Len(Ranked(dict, ev, globs)) :
           Ranked(dict, ev, globs)[n] = SiteAt(dict, ev, p)
<1> DEFINE S == SitePlaces(dict, ev, globs)
           R == OrderOf(dict, ev, globs)
           N == Cardinality(S)
<1>1. IsFiniteSet(S) /\ Strict(S, R)
  BY SitePlacesFinite, SitesAreOrdered DEF Usable
<1>2. PICK place : RanksBy(dict, ev, globs, place)
  BY RankedOf
<1>3. /\ place \in [1 .. N -> S]
      /\ \A n \in 1 .. N : Height(S, R)[place[n]] = n - 1
      /\ Ranked(dict, ev, globs) = [n \in 1 .. N |-> SiteAt(dict, ev, place[n])]
  BY <1>2 DEF RanksBy
<1>4. N \in Nat
  BY <1>1, FS_CardinalityType
<1>5. p \in S
  OBVIOUS
<1> HIDE DEF S, R, N
<1>6. /\ Height(S, R) \in [S -> 0 .. N - 1]
      /\ \A x, y \in S : Height(S, R)[x] = Height(S, R)[y] => x = y
  BY <1>1, HeightGrows DEF N
<1> DEFINE n == Height(S, R)[p] + 1
<1>7. n \in 1 .. N /\ n - 1 = Height(S, R)[p]
  BY <1>4, <1>5, <1>6
<1> HIDE DEF n
<1>8. place[n] = p
  BY <1>3, <1>5, <1>6, <1>7
<1>9. Len(Ranked(dict, ev, globs)) = N
  BY <1>3, <1>4
<1> QED
  BY <1>3, <1>7, <1>8, <1>9

(* For any two OpenAPI documents and any files: a line that quotes an      *)
(* endpoint with a changed operation is among the call sites, and no       *)
(* affected endpoint is one that every line contains (_walk,               *)
(* _endpoint_from_path, match_typescript_javascript, build_blast_radius).  *)
THEOREM IngestionCallSitesFound == Spec => []CallSitesFound
<1>1. FilesInv /\ EventsInv /\ ReportInv => CallSitesFound
  <2> SUFFICES ASSUME FilesInv, EventsInv, ReportInv,
                      report # Nothing, report.event = "change",
                      WellFormed(event.before), WellFormed(event.after)
               PROVE  CallSitesFound
    BY DEF CallSitesFound
  <2> DEFINE dict == report.files
             globs == report.globs
  <2>1. Usable(dict)
    BY SendableIsUsable DEF ReportInv
  <2>2. PICK e \in Events : report = BlastRadius(dict, e, globs)
    BY DEF ReportInv
  <2>3. report.event = e.id /\ report.call_sites = Ranked(dict, e, globs)
    BY <2>2 DEF BlastRadius
  <2>4. event # Nothing /\ e = event
    BY <2>3 DEF Events, EventsInv, EventOK, NewsOK
  <2>5. /\ event.before \in Values /\ IsObject(event.before)
        /\ event.after \in Values /\ IsObject(event.after)
        /\ event.changes = Walk(event.before, event.after)
        /\ event.endpoints = AffectedEndpoints(Walk(event.before, event.after))
    BY <2>4, DocumentsAreValues DEF EventsInv, EventOK, DiffOpenApi
  <2> HIDE DEF dict, globs
  <2>6. \A p \in event.endpoints : Len(p) > 1 /\ p[1] = Blank
    BY <2>5, AffectedBegin
  <2>7. ASSUME NEW i \in 1 .. Len(dict), dict[i].ext = "js",
               globs = "*" \/ Len(dict[i].path) > 1,
               NEW l \in 1 .. Len(dict[i].lines),
               NEW q \in dict[i].lines[l].quotes, NEW m \in HttpMethods, Changed(q, m)
        PROVE  \E j \in 1 .. Len(report.call_sites) :
                 report.call_sites[j].file = dict[i].path /\ report.call_sites[j].line = l
    <3>1. q \in Seq(STRING)
      <4>1. dict[i] \in SourceFiles
        BY <2>1 DEF Usable
      <4>2. dict[i].lines[l] \in Lines
        BY <4>1 DEF SourceFiles
      <4> QED
        BY <4>2 DEF Lines
    <3>2. /\ ~Alike(Operation(event.before, q, m), Operation(event.after, q, m))
          /\ \A c \in Walk(event.before, event.after) :
               IsPrefix(<<"paths">> \o q \o <<m>>, c.path) => ~HasMethodKey(ValueOf(c))
      BY <2>5, <2>7, Zenon DEF Changed, Misattributed, ValueOf
    <3>3. PICK p \in event.endpoints : Occurs(p, q)
      BY <2>5, <3>1, <3>2, ChangedIsAttributed
    <3>4. EndpointHit(dict[i].lines[l], event)
      BY <2>7, <3>3 DEF EndpointHit
    <3>5. IsSite(dict, event, globs, i, l)
      BY <2>7, <3>4 DEF IsSite, Candidate, Matches
    <3>6. <<i, l>> \in SitePlaces(dict, event, globs)
      BY <2>7, <3>5, SitePlacesOf
    <3>7. PICK j \in 1 .. Len(report.call_sites) :
            report.call_sites[j] = SiteAt(dict, event, <<i, l>>)
      BY <2>1, <2>3, <2>4, <3>6, SiteIsRanked
    <3>8. SiteAt(dict, event, <<i, l>>).file = dict[i].path
          /\ SiteAt(dict, event, <<i, l>>).line = l
      BY DEF SiteAt
    <3> QED
      BY <3>7, <3>8
  <2> QED
    BY <2>6, <2>7, Zenon DEF CallSitesFound, Blank, dict, globs
<1> QED
  BY <1>1, ReportInvariant, PTL
=============================================================================
