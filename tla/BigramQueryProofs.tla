--------------------------- MODULE BigramQueryProofs ---------------------------
(***************************************************************************)
(* The prefilter never rules out a chunk it should not, whichever of the   *)
(* bigrams the index dropped: for any texts, terms and expressions, of any *)
(* nesting, and any alphabet.                                              *)
(*                                                                         *)
(* What the variables hold is simple (InHand). The work is in what the     *)
(* decompositions yield: trees in normal form (Simple, by induction over   *)
(* expressions), for a fuzzy term a combination that every text with few   *)
(* enough typos passes (FuzzyIncludes), and for an expression bigrams that *)
(* each of its matches has (RegexIncludes in TextLemmas, where the trees   *)
(* and expressions are). The constants of PageText come with TextLemmas;   *)
(* nothing here is about them.                                             *)
(***************************************************************************)
EXTENDS BigramQuery, TextLemmas

-----------------------------------------------------------------------------
(* The normal form of trees.                                               *)

LEMMA IsNormalUnfolds ==
    \A q \in Trees : IsNormal[q] = IsNormalFrom(IsNormal, q)
<1> DEFINE turn(f) == [q \in Trees |-> IsNormalFrom(f, q)]
           G       == [f \in [Trees -> BOOLEAN] |-> turn(f)]
<1>1. ASSUME NEW f PROVE turn(f) \in [Trees -> BOOLEAN]
  <2>1. \A q : IsNormalFrom(f, q) \in BOOLEAN
    BY DEF IsNormalFrom
  <2> QED BY <2>1
<1>2. ASSUME NEW f \in [Trees -> BOOLEAN], NEW g \in [Trees -> BOOLEAN], NEW t \in Trees,
             t.op \in {"and", "or"} => \A c \in t.children : f[c] = g[c]
      PROVE  G[f][t] = G[g][t]
  <2>1. IsNormalFrom(f, t) = IsNormalFrom(g, t)
    BY <1>2 DEF IsNormalFrom
  <2>2. G[f][t] = IsNormalFrom(f, t) /\ G[g][t] = IsNormalFrom(g, t)
    OBVIOUS
  <2> QED BY <2>1, <2>2
<1>3. G \in [[Trees -> BOOLEAN] -> [Trees -> BOOLEAN]] /\ \A f \in [Trees -> BOOLEAN] : G[f] = turn(f)
  <2> HIDE DEF turn
  <2> QED BY <1>1
<1> HIDE DEF G
<1>4. LooksAtChildren(G, BOOLEAN)
  BY <1>2 DEF LooksAtChildren
<1>5. PICK f \in [Trees -> BOOLEAN] : f = G[f]
  BY <1>3, <1>4, TreeRecursion
<1>6. f = turn(f)
  <2> HIDE DEF turn
  <2> QED BY <1>3, <1>5
<1>7. IsNormal = CHOOSE m : m = turn(m)
  BY DEF IsNormal
<1>8. IsNormal = turn(IsNormal)
  <2> HIDE DEF turn
  <2> QED BY <1>6, <1>7
<1> HIDE DEF IsNormal
<1> QED BY <1>8

\* Any, or in normal form.
Simple(q) == q = AnyQuery \/ (q \in Trees /\ IsNormal[q])

LEMMA NormalChildren ==
    ASSUME NEW q, Simple(q), q # AnyQuery, NEW op \in {"and", "or"}, NEW c \in SplicedInto(op, q)
    PROVE  c \in Trees /\ c.op # op /\ IsNormal[c] /\ c # AnyQuery
<1>1. q \in Trees /\ IsNormalFrom(IsNormal, q)
  BY IsNormalUnfolds DEF Simple
<1>2. CASE q.op = op
  <2>1. c \in q.children /\ c \in Trees
    BY <1>1, <1>2, Children DEF SplicedInto
  <2>2. c.op # op /\ IsNormal[c]
    BY <1>1, <1>2, <2>1 DEF IsNormalFrom, IsBigram
  <2>3. IsNormalFrom(IsNormal, c)
    BY <2>1, <2>2, IsNormalUnfolds
  <2>4. c # AnyQuery
    BY <2>3 DEF IsNormalFrom, IsBigram, AnyQuery
  <2> QED BY <2>1, <2>2, <2>4
<1>3. CASE q.op # op
  <2>1. c = q
    BY <1>3 DEF SplicedInto
  <2> QED BY <1>1, <1>3, <2>1 DEF Simple
<1> QED BY <1>2, <1>3

LEMMA SimplifyAndNormal ==
    ASSUME NEW n \in 0 .. Top, NEW m \in 0 .. Top, m = n + 1, NEW qs, Forest(qs, n), \A q \in qs : Simple(q)
    PROVE  Simple(SimplifyAnd(qs))
<1> DEFINE some == qs \ {AnyQuery}
           flat == Spliced("and", some)
<1>1. Forest(some, n)
  BY FS_Subset DEF Forest
<1>2. \A c \in flat : c \in Trees /\ c.op # "and" /\ IsNormal[c] /\ c # AnyQuery
  BY NormalChildren DEF Spliced
<1> HIDE DEF some
<1>3. IsFiniteSet(flat)
  BY <1>1, SplicedForest DEF Forest
<1>4. SimplifyAnd(qs) = CASE Cardinality(flat) = 0 -> AnyQuery
                          [] Cardinality(flat) = 1 -> CHOOSE q \in flat : TRUE
                          [] OTHER                 -> And(flat)
  BY DEF SimplifyAnd, Spliced, some
<1> HIDE DEF flat
<1>5. CASE Cardinality(flat) = 0
  <2>1. SimplifyAnd(qs) = AnyQuery
    BY <1>4, <1>5
  <2> QED BY <2>1 DEF Simple
<1>6. CASE Cardinality(flat) = 1
  <2>1. PICK x : x = CHOOSE q \in flat : TRUE
    OBVIOUS
  <2>2. flat = {x} /\ SimplifyAnd(qs) = x
    <3>1. Cardinality(flat) # 0
      BY <1>6
    <3>2. SimplifyAnd(qs) = CHOOSE q \in flat : TRUE
      BY <1>4, <1>6, <3>1
    <3> QED BY <1>3, <1>6, <2>1, <3>2, OneOrMore
  <2> QED BY <1>2, <2>2 DEF Simple
<1>7. CASE Cardinality(flat) # 0 /\ Cardinality(flat) # 1
  <2>1. SimplifyAnd(qs) = And(flat)
    BY <1>4, <1>7
  <2>2. And(flat) \in Trees
    <3>1. SimplifyAnd(qs) \in TreesTo[m]
      BY SimplifyAndClear
    <3> QED BY <2>1, <3>1, ForestInTrees
  <2>3. And(flat).op = "and" /\ And(flat).children = flat
    BY DEF And
  <2>4. Cardinality(flat) \in Nat
    BY <1>3, FS_CardinalityType
  <2>5. IsNormalFrom(IsNormal, And(flat))
    BY <1>2, <1>7, <2>3, <2>4 DEF IsNormalFrom
  <2> QED BY <2>1, <2>2, <2>5, IsNormalUnfolds DEF Simple
<1> QED BY <1>5, <1>6, <1>7

LEMMA SimplifyOrNormal ==
    ASSUME NEW n \in 0 .. Top, NEW m \in 0 .. Top, m = n + 1, NEW qs, Forest(qs, n), \A q \in qs : Simple(q)
    PROVE  Simple(SimplifyOr(qs))
<1> DEFINE flat == Spliced("or", qs)
<1>1. AnyQuery \notin qs => \A c \in flat : c \in Trees /\ c.op # "or" /\ IsNormal[c] /\ c # AnyQuery
  BY NormalChildren DEF Spliced
<1>2. AnyQuery \in qs => AnyQuery \in flat
  BY DEF Spliced, SplicedInto, AnyQuery
<1>3. IsFiniteSet(flat)
  BY SplicedForest DEF Forest
<1>4. SimplifyOr(qs) = CASE AnyQuery \in qs \/ flat = {} -> AnyQuery
                         [] Cardinality(flat) = 1        -> CHOOSE q \in flat : TRUE
                         [] OTHER                        -> Or(flat)
  BY DEF SimplifyOr, Spliced
<1> HIDE DEF flat
<1>5. CASE SimplifyOr(qs) = AnyQuery
  BY <1>5 DEF Simple
<1>6. CASE Cardinality(flat) = 1 /\ SimplifyOr(qs) = CHOOSE q \in flat : TRUE
  <2>1. PICK x : x = CHOOSE q \in flat : TRUE
    OBVIOUS
  <2>2. flat = {x} /\ SimplifyOr(qs) = x
    BY <1>3, <1>6, <2>1, OneOrMore
  <2> QED BY <1>1, <1>2, <2>2 DEF Simple
<1>7. CASE ~(AnyQuery \in qs \/ flat = {}) /\ Cardinality(flat) # 1
  <2>1. SimplifyOr(qs) = Or(flat)
    BY <1>4, <1>7
  <2>2. Or(flat) \in Trees
    <3>1. SimplifyOr(qs) \in TreesTo[m]
      BY SimplifyOrClear
    <3> QED BY <2>1, <3>1, ForestInTrees
  <2>3. Or(flat).op = "or" /\ Or(flat).children = flat
    BY DEF Or
  <2>4. Cardinality(flat) \in Nat /\ Cardinality(flat) # 0
    BY <1>3, <1>7, FS_CardinalityType, FS_EmptySet
  <2>5. IsNormalFrom(IsNormal, Or(flat))
    BY <1>1, <1>7, <2>3, <2>4 DEF IsNormalFrom
  <2> QED BY <2>1, <2>2, <2>5, IsNormalUnfolds DEF Simple
<1>8. \/ SimplifyOr(qs) = AnyQuery
      \/ Cardinality(flat) = 1 /\ SimplifyOr(qs) = CHOOSE q \in flat : TRUE
      \/ ~(AnyQuery \in qs \/ flat = {}) /\ Cardinality(flat) # 1
  BY <1>4
<1> QED BY <1>5, <1>6, <1>7, <1>8

LEMMA BigramNormal ==
    ASSUME NEW op \in {"consec", "skip1"}, NEW a \in Keyed, NEW b \in Keyed
    PROVE  Simple(Bigram(op, <<a, b>>))
<1> DEFINE q == Bigram(op, <<a, b>>)
<1>1. q \in Leaves
  BY KeyedFacts DEF Leaves, Bigram
<1>2. q \in Trees
  <2>1. 0 \in 0 .. Top
    BY TreesUnfold
  <2> QED BY <1>1, <2>1, ForestInTrees
<1>3. ToSet(<<a, b>>) \subseteq {x \in Printable : Lower[x] = x}
  BY DEF ToSet, Keyed
<1>4. IsNormalFrom(IsNormal, q)
  BY <1>3 DEF IsNormalFrom, IsBigram, Bigram
<1> QED BY <1>2, <1>4, IsNormalUnfolds DEF Simple

LEMMA WindowsNormal ==
    ASSUME NEW op \in {"consec", "skip1"}, NEW s \in Seq(Byte), NEW d \in Nat
    PROVE  \A q \in Windows(op, s, d) : Simple(q)
<1> SUFFICES ASSUME NEW q \in Windows(op, s, d) PROVE Simple(q)
  OBVIOUS
<1>1. PICK i \in 1 .. Len(s) - d : PairAt(q, op, s, d, i)
  BY WindowsMember
<1>2. i \in 1 .. Len(s) /\ i + d \in 1 .. Len(s)
  OBVIOUS
<1>3. s[i] \in Printable /\ s[i + d] \in Printable /\ s[i] \in Byte /\ s[i + d] \in Byte
  BY <1>1, <1>2 DEF PairAt
<1>4. Lower[s[i]] \in Keyed /\ Lower[s[i + d]] \in Keyed
  BY <1>3, KeyedFacts
<1>5. q = Bigram(op, <<Lower[s[i]], Lower[s[i + d]]>>)
  BY <1>1 DEF PairAt
<1> QED BY <1>4, <1>5, BigramNormal

LEMMA CrossProductNormal ==
    ASSUME NEW op \in {"consec", "skip1"}, NEW last \in SUBSET Keyed, NEW first \in SUBSET Keyed
    PROVE  Simple(CrossProduct(op, last, first))
<1>1. 0 \in 0 .. Top /\ 1 \in 0 .. Top /\ 1 = 0 + 1
  BY TreesUnfold
<1>2. Forest(Crossed(op, last, first), 0) /\ CrossProduct(op, last, first) = SimplifyOr(Crossed(op, last, first))
  BY <1>1, CrossedForest
<1>3. \A q \in Crossed(op, last, first) : Simple(q)
  <2> SUFFICES ASSUME NEW q \in Crossed(op, last, first) PROVE Simple(q)
    OBVIOUS
  <2>1. PICK l \in last, g \in first : q = Bigram(op, <<l, g>>)
    <3>1. \A x : x \in Crossed(op, last, first) <=> \E l \in last, g \in first : x = Bigram(op, <<l, g>>)
      BY DEF Crossed
    <3> QED BY <3>1
  <2>2. l \in Keyed /\ g \in Keyed
    BY <2>1
  <2> QED BY <2>1, <2>2, BigramNormal
<1> QED BY <1>1, <1>2, <1>3, SimplifyOrNormal

\* The trees of the pairs in a string are joined.
LEMMA PairsNormal ==
    ASSUME NEW s \in Seq(Byte), NEW n \in 0 .. Top, NEW m \in 0 .. Top, m = n + 1
    PROVE  Simple(SimplifyAnd(Windows("consec", s, 1) \cup Windows("skip1", s, 2)))
<1> DEFINE one == Windows("consec", s, 1)
           two == Windows("skip1", s, 2)
           qs  == one \cup two
<1>1. Forest(one, n) /\ Forest(two, n)
  BY WindowsForest
<1>2. \A q \in qs : Simple(q)
  BY WindowsNormal
<1> HIDE DEF one, two
<1>3. Forest(qs, n)
  <2>1. IsFiniteSet(one \cup two)
    BY <1>1, FS_Union DEF Forest
  <2> QED BY <1>1, <2>1 DEF Forest
<1> HIDE DEF qs
<1>4. Simple(SimplifyAnd(qs))
  BY <1>2, <1>3, SimplifyAndNormal
<1> QED BY <1>4 DEF qs, one, two

LEMMA LiteralQueryNormal ==
    ASSUME NEW term \in Seq(Byte)
    PROVE  Simple(LiteralQuery(term))
<1>1. 0 \in 0 .. Top /\ 1 \in 0 .. Top /\ 1 = 0 + 1
  BY TreesUnfold
<1>2. Simple(SimplifyAnd(Windows("consec", term, 1) \cup Windows("skip1", term, 2)))
  BY <1>1, PairsNormal
<1> QED BY <1>2 DEF LiteralQuery

\* What is known of the parts joined, in normal form.
LEMMA JoinedNormal ==
    ASSUME NEW qs, Forest(qs, NestLimit + 1), \A q \in qs : Simple(q)
    PROVE  Simple(SimplifyAnd(qs)) /\ Simple(SimplifyOr(qs))
<1>1. NestLimit + 1 \in 0 .. Top /\ Top \in 0 .. Top /\ Top = (NestLimit + 1) + 1
  BY KnownFacts
<1> QED BY <1>1, SimplifyAndNormal, SimplifyOrNormal

LEMMA RepetitionNormal ==
    ASSUME NEW hir \in Hirs, hir.kind = "repetition", Simple(Decompose[hir.sub].query)
    PROVE  Simple(Decompose[hir].query)
<1> DEFINE inner == Decompose[hir.sub]
           seam  == IF hir.min >= 2 THEN {CrossProduct("consec", inner.last, inner.first)} ELSE {}
           qs    == {inner.query} \cup seam
<1>1. hir.sub \in Hirs
  BY HirFacts DEF WellFormed
<1>2. Decompose[hir] = IF hir.min = 0 THEN Info(AnyQuery, inner.first, inner.last, TRUE)
                       ELSE Info(SimplifyAnd(qs), inner.first, inner.last, MinLen[hir] = 0)
  BY DecomposeUnfolds DEF DecomposeFrom, DecomposeRepetition
<1>4. inner.query \in TreesTo[NestLimit + 1] /\ inner.first \in SUBSET Keyed /\ inner.last \in SUBSET Keyed
  BY <1>1, KnownFacts
<1> HIDE DEF inner
<1>5. /\ CrossProduct("consec", inner.last, inner.first) \in TreesTo[NestLimit + 1]
      /\ Simple(CrossProduct("consec", inner.last, inner.first))
  BY <1>4, KnownFacts, CrossProductTyped, CrossProductNormal
<1>6. Forest(qs, NestLimit + 1)
  <2>1. IsFiniteSet({inner.query}) /\ IsFiniteSet({CrossProduct("consec", inner.last, inner.first)}) /\ IsFiniteSet({})
    BY FS_EmptySet, FS_Singleton
  <2>2. IsFiniteSet(qs)
    BY <2>1, FS_Union
  <2> QED BY <1>4, <1>5, <2>2 DEF Forest
<1>7. \A q \in qs : Simple(q)
  BY <1>5 DEF inner
<1> HIDE DEF qs
<1>8. Simple(SimplifyAnd(qs))
  BY <1>6, <1>7, JoinedNormal
<1>9. Decompose[hir].query = AnyQuery \/ Decompose[hir].query = SimplifyAnd(qs)
  BY <1>2 DEF Info
<1> QED BY <1>8, <1>9 DEF Simple

LEMMA AlternationNormal ==
    ASSUME NEW hir \in Hirs, hir.kind = "alternation", \A x \in DOMAIN hir.alts : Simple(Decompose[hir.alts[x]].query)
    PROVE  Simple(Decompose[hir].query)
<1> DEFINE infos == [x \in DOMAIN hir.alts |-> Decompose[hir.alts[x]]]
           Of(field) == {infos[x][field] : x \in DOMAIN infos}
<1>1. PICK k \in Nat : DOMAIN hir.alts = 1 .. k /\ \A x \in 1 .. k : hir.alts[x] \in Hirs
  <2>1. hir.alts \in Seq(Hirs)
    BY HirFacts DEF WellFormed
  <2> QED BY <2>1
<1>2. DOMAIN infos = 1 .. k /\ \A x \in 1 .. k : infos[x] = Decompose[hir.alts[x]]
  BY <1>1
<1>3. Decompose[hir] = Info(SimplifyOr(Of("query")), MergeByteSets(Of("first")), MergeByteSets(Of("last")),
                            TRUE \in Of("canBeEmpty"))
  BY DecomposeUnfolds DEF DecomposeFrom, DecomposeAlternation
<1> HIDE DEF infos
<1>4. \A x \in 1 .. k : infos[x].query \in TreesTo[NestLimit + 1] /\ Simple(infos[x].query)
  BY <1>1, <1>2, KnownFacts
<1>5. Forest(Of("query"), NestLimit + 1)
  <2> DEFINE g == [x \in 1 .. k |-> infos[x].query]
  <2>1. Of("query") = {g[x] : x \in 1 .. k}
    BY <1>2
  <2> HIDE DEF g
  <2>2. IsFiniteSet(1 .. k)
    BY FS_Interval
  <2>3. IsFiniteSet({g[x] : x \in 1 .. k})
    BY <2>2, FiniteImage
  <2>4. Of("query") \subseteq TreesTo[NestLimit + 1]
    BY <1>2, <1>4
  <2> QED BY <2>1, <2>3, <2>4 DEF Forest
<1>6. \A q \in Of("query") : Simple(q)
  BY <1>2, <1>4
<1> HIDE DEF Of
<1>7. Simple(SimplifyOr(Of("query")))
  BY <1>5, <1>6, JoinedNormal
<1>8. Decompose[hir].query = SimplifyOr(Of("query"))
  BY <1>3 DEF Info
<1> QED BY <1>7, <1>8

LEMMA ConcatNormal ==
    ASSUME NEW hir \in Hirs, hir.kind = "concat", \A x \in DOMAIN hir.parts : Simple(Decompose[hir.parts[x]].query)
    PROVE  Simple(Decompose[hir].query)
<1> DEFINE infos == [x \in DOMAIN hir.parts |-> Decompose[hir.parts[x]]]
           parts == hir.parts
<1>1. PICK n \in Nat : n = Len(parts) /\ DOMAIN parts = 1 .. n /\ \A x \in 1 .. n : parts[x] \in Hirs
  <2>1. hir.parts \in Seq(Hirs)
    BY HirFacts DEF WellFormed
  <2> QED BY <2>1
<1>2. Decompose[hir] = DecomposeConcat(parts, infos)
  BY DecomposeUnfolds DEF DecomposeFrom
<1>3. DOMAIN infos = 1 .. n /\ \A x \in 1 .. n : infos[x] = Decompose[parts[x]] /\ Simple(infos[x].query)
  BY <1>1
<1> HIDE DEF infos, parts
<1> DEFINE Mandatory(i) == ~infos[i].canBeEmpty
           OneByte(i)   == MinLen[parts[i]] = 1 /\ MaxLen[parts[i]] = 1
           adjacent == {i \in 1 .. Len(parts) - 1 : Mandatory(i) /\ Mandatory(i + 1)}
           across   == {i \in 1 .. Len(parts) - 2 : Mandatory(i) /\ OneByte(i + 1) /\ Mandatory(i + 2)}
           Q == {infos[i].query : i \in DOMAIN infos}
           A == {CrossProduct("consec", infos[i].last, infos[i + 1].first) : i \in adjacent}
           B == {CrossProduct("skip1", infos[i].last, infos[i + 2].first) : i \in across}
           qs == (Q \cup A) \cup B
<1>4. Decompose[hir] = Info(SimplifyAnd(qs), CollectFirst(infos), CollectLast(infos), \A i \in DOMAIN infos : infos[i].canBeEmpty)
  BY <1>2 DEF DecomposeConcat
<1>5. \A x \in 1 .. n : /\ infos[x].query \in TreesTo[NestLimit + 1]
                        /\ infos[x].first \in SUBSET Keyed /\ infos[x].last \in SUBSET Keyed
  BY <1>1, <1>3, KnownFacts
<1>6. \A i \in adjacent : i \in 1 .. n /\ i + 1 \in 1 .. n
  BY <1>1
<1>7. \A i \in across : i \in 1 .. n /\ i + 2 \in 1 .. n
  BY <1>1
<1> HIDE DEF adjacent, across
<1>9. \A q \in Q : q \in TreesTo[NestLimit + 1] /\ Simple(q)
  BY <1>3, <1>5
<1>10. ASSUME NEW i \in adjacent
       PROVE  LET q == CrossProduct("consec", infos[i].last, infos[i + 1].first) IN q \in TreesTo[NestLimit + 1] /\ Simple(q)
  <2>1. infos[i].last \in SUBSET Keyed /\ infos[i + 1].first \in SUBSET Keyed
    BY <1>5, <1>6
  <2> QED BY <2>1, KnownFacts, CrossProductTyped, CrossProductNormal
<1>11. ASSUME NEW i \in across
       PROVE  LET q == CrossProduct("skip1", infos[i].last, infos[i + 2].first) IN q \in TreesTo[NestLimit + 1] /\ Simple(q)
  <2>1. infos[i].last \in SUBSET Keyed /\ infos[i + 2].first \in SUBSET Keyed
    BY <1>5, <1>7
  <2> QED BY <2>1, KnownFacts, CrossProductTyped, CrossProductNormal
<1>12. \A q \in qs : q \in TreesTo[NestLimit + 1] /\ Simple(q)
  <2>1. \A q \in A : q \in TreesTo[NestLimit + 1] /\ Simple(q)
    BY <1>10
  <2>2. \A q \in B : q \in TreesTo[NestLimit + 1] /\ Simple(q)
    BY <1>11
  <2> HIDE DEF Q, A, B
  <2> QED BY <1>9, <2>1, <2>2
<1>13. IsFiniteSet(qs)
  <2>1. IsFiniteSet(1 .. n)
    BY FS_Interval
  <2>2. IsFiniteSet(adjacent) /\ IsFiniteSet(across)
    <3>1. adjacent \subseteq 1 .. n /\ across \subseteq 1 .. n
      BY <1>6, <1>7
    <3> QED BY <2>1, <3>1, FS_Subset
  <2> DEFINE g1 == [i \in 1 .. n |-> infos[i].query]
             g2 == [i \in adjacent |-> CrossProduct("consec", infos[i].last, infos[i + 1].first)]
             g3 == [i \in across |-> CrossProduct("skip1", infos[i].last, infos[i + 2].first)]
  <2>3. Q = {g1[i] : i \in 1 .. n}
    BY <1>3
  <2>4. A = {g2[i] : i \in adjacent}
    OBVIOUS
  <2>5. B = {g3[i] : i \in across}
    OBVIOUS
  <2> HIDE DEF g1, g2, g3, Q, A, B
  <2>6. IsFiniteSet({g1[i] : i \in 1 .. n}) /\ IsFiniteSet({g2[i] : i \in adjacent}) /\ IsFiniteSet({g3[i] : i \in across})
    BY <2>1, <2>2, FiniteImage
  <2>7. IsFiniteSet(Q) /\ IsFiniteSet(A) /\ IsFiniteSet(B)
    BY <2>3, <2>4, <2>5, <2>6
  <2>8. IsFiniteSet(Q \cup A)
    BY <2>7, FS_Union
  <2> QED BY <2>7, <2>8, FS_Union
<1> HIDE DEF qs
<1>14. Simple(SimplifyAnd(qs))
  <2>1. Forest(qs, NestLimit + 1)
    BY <1>12, <1>13 DEF Forest
  <2> QED BY <1>12, <2>1, JoinedNormal
<1>15. Decompose[hir].query = SimplifyAnd(qs)
  BY <1>4 DEF Info
<1> QED BY <1>14, <1>15

LEMMA DecomposeNormal ==
    \A hir \in Hirs : Simple(Decompose[hir].query)
<1> DEFINE T == {h \in Hirs : Simple(Decompose[h].query)}
<1>1. ASSUME NEW h \in Hirs, Subs(h) \subseteq T PROVE Simple(Decompose[h].query)
  <2>1. WellFormed(h, Hirs)
    BY HirFacts
  <2>2. \A s \in Subs(h) : Simple(Decompose[s].query)
    BY <1>1
  <2> HIDE DEF T
  <2>3. CASE h.kind = "literal"
    <3>1. h.bytes \in Seq(Byte)
      BY <2>1, <2>3 DEF WellFormed
    <3>2. 0 \in 0 .. Top /\ 1 \in 0 .. Top /\ 1 = 0 + 1
      BY TreesUnfold
    <3>3. Simple(SimplifyAnd(Windows("consec", h.bytes, 1) \cup Windows("skip1", h.bytes, 2)))
      BY <3>1, <3>2, PairsNormal
    <3>4. \E f, l : Decompose[h] = Info(SimplifyAnd(Windows("consec", h.bytes, 1) \cup Windows("skip1", h.bytes, 2)), f, l, FALSE)
      <4>1. Decompose[h] = DecomposeLiteral(h.bytes)
        BY <2>3, DecomposeUnfolds DEF DecomposeFrom
      <4> QED BY <4>1, Zenon DEF DecomposeLiteral
    <3>5. Decompose[h].query = SimplifyAnd(Windows("consec", h.bytes, 1) \cup Windows("skip1", h.bytes, 2))
      BY <3>4 DEF Info
    <3> QED BY <3>3, <3>5
  <2>4. CASE h.kind \in {"class", "look", "empty"}
    <3>1. CASE h.kind = "class"
      <4>1. Decompose[h] = DecomposeClass(h)
        BY <3>1, DecomposeUnfolds DEF DecomposeFrom
      <4>2. \E E, e : Decompose[h] = Info(AnyQuery, E, E, e)
        BY <4>1, Zenon DEF DecomposeClass
      <4> QED BY <4>2 DEF Info, Simple
    <3>2. CASE h.kind \in {"look", "empty"}
      <4>1. Decompose[h] = EmptyInfo
        BY <3>2, DecomposeUnfolds DEF DecomposeFrom
      <4> QED BY <4>1 DEF EmptyInfo, Info, Simple
    <3> QED BY <2>4, <3>1, <3>2
  <2>5. CASE h.kind = "repetition"
    <3>1. h.sub \in Subs(h)
      BY <2>5 DEF Subs
    <3> QED BY <2>2, <2>5, <3>1, RepetitionNormal
  <2>6. CASE h.kind = "capture"
    <3>1. h.sub \in Subs(h)
      BY <2>6 DEF Subs
    <3>2. Decompose[h] = Decompose[h.sub]
      BY <2>6, DecomposeUnfolds DEF DecomposeFrom
    <3> QED BY <2>2, <3>1, <3>2
  <2>7. CASE h.kind = "concat"
    <3>1. \A x \in DOMAIN h.parts : h.parts[x] \in Subs(h)
      BY <2>7 DEF Subs, ToSet
    <3> QED BY <2>2, <2>7, <3>1, ConcatNormal
  <2>8. CASE h.kind = "alternation"
    <3>1. \A x \in DOMAIN h.alts : h.alts[x] \in Subs(h)
      BY <2>8 DEF Subs, ToSet
    <3> QED BY <2>2, <2>8, <3>1, AlternationNormal
  <2> QED BY <2>1, <2>3, <2>4, <2>5, <2>6, <2>7, <2>8 DEF WellFormed
<1>2. \A h \in Hirs : Subs(h) \subseteq T => h \in T
  BY <1>1
<1> HIDE DEF T
<1>3. Hirs \subseteq T
  BY <1>2, HirInduction
<1> QED BY <1>3 DEF T

-----------------------------------------------------------------------------
(* Fuzzy queries.                                                          *)

LEMMA SubsetOfSize ==
    ASSUME NEW S, IsFiniteSet(S), NEW k \in Nat, k <= Cardinality(S)
    PROVE  \E c \in SUBSET S : Cardinality(c) = k
<1> DEFINE Good(j) == j <= Cardinality(S) => \E c \in SUBSET S : Cardinality(c) = j
           T == {j \in Nat : Good(j)}
<1>1. Cardinality(S) \in Nat
  BY FS_CardinalityType
<1>2. Good(0)
  BY FS_EmptySet
<1>3. ASSUME NEW j \in Nat, Good(j) PROVE Good(j + 1)
  <2> SUFFICES ASSUME j + 1 <= Cardinality(S) PROVE \E c \in SUBSET S : Cardinality(c) = j + 1
    OBVIOUS
  <2>1. PICK c \in SUBSET S : Cardinality(c) = j
    BY <1>1, <1>3
  <2>2. c # S
    BY <1>1, <2>1
  <2>3. PICK x \in S : x \notin c
    BY <2>2
  <2>4. IsFiniteSet(c)
    BY FS_Subset
  <2>5. Cardinality(c \cup {x}) = j + 1
    BY <2>1, <2>3, <2>4, FS_AddElement
  <2> QED BY <2>3, <2>5
<1> HIDE DEF Good
<1>4. 0 \in T /\ \A j \in Nat : j \in T => j + 1 \in T
  BY <1>2, <1>3
<1> HIDE DEF T
<1>5. Nat \subseteq T
  BY <1>4, InductionOver
<1>6. k \in T
  BY <1>5
<1> QED BY <1>6 DEF T, Good

\* Where the i-th of n probes is taken from l keys.
ProbeAt(i, n, l) == ((i - 1) * (l - 1)) \div (n - 1) + 1

LEMMA Products ==
    ASSUME NEW a \in Nat, NEW b \in Nat, NEW d \in Nat, d # 0
    PROVE  /\ a * d \in Nat
           /\ a * d < b * d => a < b
           /\ a <= b => a * d <= b * d
OBVIOUS

LEMMA ProbesSpread ==
    ASSUME NEW n \in Nat, n >= 2, NEW l \in Nat, n <= l, NEW i \in 1 .. n
    PROVE  /\ ProbeAt(i, n, l) \in 1 .. l
           /\ \A j \in 1 .. n : i < j => ProbeAt(i, n, l) < ProbeAt(j, n, l)
<1> DEFINE d == n - 1
           e == l - 1
<1>1. d \in Nat /\ d # 0 /\ d > 0 /\ e \in Nat /\ d <= e
  OBVIOUS
<1>2. ASSUME NEW j \in 1 .. n
      PROVE  \E q \in Nat : /\ ProbeAt(j, n, l) = q + 1 /\ q <= e
                            /\ q * d <= (j - 1) * e /\ (j - 1) * e < (q + 1) * d
  <2>1. PICK a \in Nat : a = j - 1 /\ a <= d
    OBVIOUS
  <2> HIDE DEF d, e
  <2>2. PICK m \in Nat : m = a * e
    BY <1>1, <2>1
  <2>3. PICK q \in Nat : q = m \div d /\ q * d <= m /\ m < (q + 1) * d
    BY <1>1, <2>2
  <2>4. m <= e * d
    <3>1. a * e <= d * e
      <4>1. CASE e = 0
        BY <1>1, <2>1, <4>1
      <4>2. CASE e # 0
        BY <1>1, <2>1, <4>2, Products
      <4> QED BY <4>1, <4>2
    <3>2. d * e = e * d
      BY <1>1
    <3> QED BY <2>2, <3>1, <3>2
  <2>5. q <= e
    <3>1. q * d \in Nat /\ e * d \in Nat /\ q * d < (e + 1) * d
      <4>1. (e + 1) * d = e * d + d
        BY <1>1
      <4>2. q * d \in Nat /\ e * d \in Nat
        BY <1>1, Products
      <4> QED BY <1>1, <2>3, <2>4, <4>1, <4>2
    <3>2. e + 1 \in Nat
      BY <1>1
    <3>3. q < e + 1
      BY <1>1, <3>1, <3>2, Products
    <3> QED BY <1>1, <3>3
  <2>6. ProbeAt(j, n, l) = q + 1
    BY <2>1, <2>2, <2>3 DEF ProbeAt, d, e
  <2> QED BY <2>1, <2>2, <2>3, <2>5, <2>6
<1>3. PICK q \in Nat : /\ ProbeAt(i, n, l) = q + 1 /\ q <= e /\ q * d <= (i - 1) * e /\ (i - 1) * e < (q + 1) * d
  BY <1>2
<1>4. ProbeAt(i, n, l) \in 1 .. l
  BY <1>3
<1>5. ASSUME NEW j \in 1 .. n, i < j PROVE ProbeAt(i, n, l) < ProbeAt(j, n, l)
  <2>1. PICK r \in Nat : /\ ProbeAt(j, n, l) = r + 1 /\ r <= e /\ r * d <= (j - 1) * e /\ (j - 1) * e < (r + 1) * d
    BY <1>2
  <2>2. PICK a \in Nat, b \in Nat : a = i - 1 /\ b = j - 1 /\ a + 1 <= b
    BY <1>5
  <2> HIDE DEF d, e
  <2>3. q * d <= a * e /\ b * e < (r + 1) * d
    BY <1>3, <2>1, <2>2
  <2>4. (a + 1) * e <= b * e
    <3>1. a + 1 \in Nat /\ e # 0
      BY <1>1
    <3> QED BY <1>1, <2>2, <3>1, Products
  <2>5. (a + 1) * e = a * e + e /\ (q + 1) * d = q * d + d /\ a * e \in Nat /\ q * d \in Nat /\ b * e \in Nat /\ (r + 1) * d \in Nat
    BY <1>1
  <2>6. (q + 1) * d < (r + 1) * d
    BY <1>1, <2>3, <2>4, <2>5
  <2>7. q + 1 \in Nat /\ r + 1 \in Nat
    OBVIOUS
  <2>8. q + 1 < r + 1
    BY <1>1, <2>6, <2>7, Products
  <2> QED BY <1>3, <2>1, <2>8
<1> QED BY <1>4, <1>5

\* What FuzzyQuery works with.
FuzzyParts(term, keys, typos, n) ==
    /\ keys = BigramKeys(term) /\ keys \in Seq(Keyed \X Keyed)
    /\ typos = MaxTypos(term) /\ typos \in 0 .. 2
    /\ n \in Nat /\ n <= Len(keys) /\ (n = Len(keys) \/ n >= 3) /\ (keys # <<>> => n # 0)
    /\ FuzzyQuery(term) =
          IF keys = <<>> \/ typos = 0 THEN AllOf(ToSet(keys))
          ELSE IF n <= typos THEN AnyOf(ToSet(keys))
          ELSE SimplifyOr({AllOf({Probes(keys, n)[i] : i \in c}) : c \in kSubset(n - typos, 1 .. n)})

LEMMA KeysTyped ==
    ASSUME NEW term \in Seq(Byte)
    PROVE  BigramKeys(term) \in Seq(Keyed \X Keyed)
<1> DEFINE pairs == [i \in 1 .. Len(term) - 1 |-> <<Lower[term[i]], Lower[term[i + 1]]>>]
           at    == {i \in DOMAIN pairs : ToSet(pairs[i]) \subseteq Printable}
           full  == [i \in 1 .. Len(term) - 1 |-> IF i \in at THEN pairs[i] ELSE CHOOSE p \in Keyed \X Keyed : TRUE]
<1>1. ASSUME NEW i \in 1 .. Len(term) - 1
      PROVE  term[i] \in Byte /\ term[i + 1] \in Byte /\ pairs[i] = <<Lower[term[i]], Lower[term[i + 1]]>>
  <2>1. i \in 1 .. Len(term) /\ i + 1 \in 1 .. Len(term)
    OBVIOUS
  <2> QED BY <2>1
<1>2. \A i \in at : pairs[i] \in Keyed \X Keyed
  <2> SUFFICES ASSUME NEW i \in at PROVE pairs[i] \in Keyed \X Keyed
    OBVIOUS
  <2>1. i \in 1 .. Len(term) - 1 /\ ToSet(pairs[i]) \subseteq Printable
    OBVIOUS
  <2>2. pairs[i] = <<Lower[term[i]], Lower[term[i + 1]]>> /\ term[i] \in Byte /\ term[i + 1] \in Byte
    BY <1>1, <2>1
  <2>3. Lower[term[i]] \in Printable /\ Lower[term[i + 1]] \in Printable
    BY <2>1, <2>2 DEF ToSet
  <2>4. Lower[term[i]] \in Keyed /\ Lower[term[i + 1]] \in Keyed
    BY <2>2, <2>3, KeyedFacts, TreesAssumption
  <2> QED BY <2>2, <2>4
<1>3. BigramKeys(term) = Sift(pairs, at)
  BY DEF BigramKeys
<1>4. at \subseteq Int /\ IsFiniteSet(at)
  <2>1. IsFiniteSet(1 .. Len(term) - 1)
    BY FS_Interval
  <2>2. at \in SUBSET (1 .. Len(term) - 1)
    OBVIOUS
  <2>3. \A i \in 1 .. Len(term) - 1 : i \in Int
    OBVIOUS
  <2> HIDE DEF at
  <2>4. IsFiniteSet(at)
    BY <2>1, <2>2, FS_Subset
  <2> QED BY <2>2, <2>3, <2>4
<1> HIDE DEF at, pairs
<1>5. PICK m \in Nat : m = Cardinality(at)
  BY <1>4, FS_CardinalityType
<1>6. PICK p : SiftedBy(p, pairs, at, m)
  BY <1>4, <1>5, SiftProperties
<1>7. p \in [1 .. m -> at] /\ Sift(pairs, at) = [k \in 1 .. m |-> pairs[p[k]]]
  BY <1>6 DEF SiftedBy, Enumerates
<1>8. \A k \in 1 .. m : pairs[p[k]] \in Keyed \X Keyed
  BY <1>2, <1>7
<1> QED BY <1>3, <1>5, <1>7, <1>8

LEMMA FuzzyPartsOf ==
    ASSUME NEW term \in Seq(Byte)
    PROVE  \E keys, typos, n : FuzzyParts(term, keys, typos, n)
<1> DEFINE keys == BigramKeys(term)
           typos == MaxTypos(term)
           n == Min({NumProbes, Len(keys)})
<1>1. keys \in Seq(Keyed \X Keyed)
  BY KeysTyped
<1>2. Len(keys) \in Nat /\ (keys # <<>> => Len(keys) # 0)
  <2> HIDE DEF keys
  <2> QED BY <1>1
<1>3. typos \in 0 .. 2
  <2>1. Len(term) \div 3 \in Nat
    OBVIOUS
  <2> DEFINE T == {Len(term) \div 3, 2}
  <2>2. T \in SUBSET Nat /\ T # {} /\ 2 \in T
    BY <2>1
  <2> HIDE DEF T
  <2>3. Min(T) \in T /\ Min(T) <= 2
    BY <2>2, MinOf
  <2> QED BY <2>2, <2>3 DEF MaxTypos, T
<1>4. n \in Nat /\ n <= Len(keys) /\ (n = Len(keys) \/ n >= 3) /\ (keys # <<>> => n # 0)
  <2> DEFINE T == {NumProbes, Len(keys)}
  <2>1. T \in SUBSET Nat /\ T # {} /\ Len(keys) \in T
    BY <1>2, TreesAssumption
  <2>2. n = Min(T)
    OBVIOUS
  <2> HIDE DEF T, n
  <2>3. n \in T /\ n <= Len(keys)
    BY <2>1, <2>2, MinOf
  <2>4. NumProbes \in Nat /\ NumProbes >= 3
    BY TreesAssumption
  <2>5. n = NumProbes \/ n = Len(keys)
    BY <2>3 DEF T
  <2> HIDE DEF keys
  <2> QED BY <1>2, <2>3, <2>4, <2>5
<1>5. FuzzyQuery(term) =
          IF keys = <<>> \/ typos = 0 THEN AllOf(ToSet(keys))
          ELSE IF n <= typos THEN AnyOf(ToSet(keys))
          ELSE SimplifyOr({AllOf({Probes(keys, n)[i] : i \in c}) : c \in kSubset(n - typos, 1 .. n)})
  BY DEF FuzzyQuery, Required
<1> HIDE DEF keys, typos, n
<1>6. FuzzyParts(term, keys, typos, n)
  BY <1>1, <1>3, <1>4, <1>5 DEF FuzzyParts, keys, typos
<1> QED BY <1>6

\* The bigrams of keys.
KeyTrees(K) == {Bigram("consec", k) : k \in K}

LEMMA KeyTreesForest ==
    ASSUME NEW K, IsFiniteSet(K), K \subseteq Keyed \X Keyed, NEW n \in 0 .. Top
    PROVE  /\ Forest(KeyTrees(K), n) /\ \A q \in KeyTrees(K) : Simple(q) /\ q \in Trees /\ IsBigram(q)
           /\ AllOf(K) = SimplifyAnd(KeyTrees(K)) /\ AnyOf(K) = SimplifyOr(KeyTrees(K))
<1> DEFINE g == [k \in K |-> Bigram("consec", k)]
<1>1. KeyTrees(K) = {g[k] : k \in K}
  BY DEF KeyTrees
<1> HIDE DEF g
<1>2. IsFiniteSet(KeyTrees(K))
  BY <1>1, FiniteImage
<1>3. ASSUME NEW q \in KeyTrees(K) PROVE q \in Leaves /\ Simple(q) /\ IsBigram(q)
  <2>1. PICK k \in K : q = Bigram("consec", k)
    BY DEF KeyTrees
  <2>2. PICK a \in Keyed, b \in Keyed : k = <<a, b>>
    BY <2>1
  <2>3. Simple(q)
    BY <2>1, <2>2, BigramNormal
  <2>4. q \in Leaves
    BY <2>1, <2>2, KeyedFacts DEF Leaves, Bigram
  <2> QED BY <2>1, <2>3, <2>4 DEF IsBigram, Bigram
<1>4. Forest(KeyTrees(K), n)
  BY <1>2, <1>3, LeavesForest
<1>5. \A q \in KeyTrees(K) : q \in Trees
  BY <1>4, ForestInTrees DEF Forest
<1>6. AllOf(K) = SimplifyAnd(KeyTrees(K)) /\ AnyOf(K) = SimplifyOr(KeyTrees(K))
  BY DEF AllOf, AnyOf, KeyTrees
<1> QED BY <1>3, <1>4, <1>5, <1>6

\* All of some keys passes where all of them are recorded, any of them where one is.
LEMMA AllAndAny ==
    ASSUME NEW K, IsFiniteSet(K), K \subseteq Keyed \X Keyed
    PROVE  /\ Simple(AllOf(K)) /\ Simple(AnyOf(K)) /\ AllOf(K) \in TreesTo[1]
           /\ \A untracked, recorded :
                 /\ (\A k \in K : Bigram("consec", k) \in recorded) => ~Clear(AllOf(K), untracked, recorded)
                 /\ (\E k \in K : Bigram("consec", k) \in recorded) => ~Clear(AnyOf(K), untracked, recorded)
<1>1. 0 \in 0 .. Top /\ 1 \in 0 .. Top /\ 1 = 0 + 1
  BY TreesUnfold
<1>2. /\ Forest(KeyTrees(K), 0) /\ \A q \in KeyTrees(K) : Simple(q) /\ q \in Trees /\ IsBigram(q)
      /\ AllOf(K) = SimplifyAnd(KeyTrees(K)) /\ AnyOf(K) = SimplifyOr(KeyTrees(K))
  BY <1>1, KeyTreesForest
<1>3. Simple(AllOf(K)) /\ Simple(AnyOf(K))
  BY <1>1, <1>2, SimplifyAndNormal, SimplifyOrNormal
<1>4. ASSUME NEW untracked, NEW recorded
      PROVE  /\ AllOf(K) \in TreesTo[1]
             /\ (\A k \in K : Bigram("consec", k) \in recorded) => ~Clear(AllOf(K), untracked, recorded)
             /\ (\E k \in K : Bigram("consec", k) \in recorded) => ~Clear(AnyOf(K), untracked, recorded)
  <2>1. /\ SimplifyAnd(KeyTrees(K)) \in TreesTo[1]
        /\ Clear(SimplifyAnd(KeyTrees(K)), untracked, recorded) <=> \E q \in KeyTrees(K) : Clear(q, untracked, recorded)
    BY <1>1, <1>2, SimplifyAndClear
  <2>2. Clear(SimplifyOr(KeyTrees(K)), untracked, recorded) => \A q \in KeyTrees(K) : Clear(q, untracked, recorded)
    BY <1>1, <1>2, SimplifyOrClear
  <2>3. \A q \in KeyTrees(K) : q \in recorded => ~Clear(q, untracked, recorded)
    BY <1>2, EvaluateValues
  <2>4. \A q : q \in KeyTrees(K) <=> \E k \in K : q = Bigram("consec", k)
    BY DEF KeyTrees
  <2> QED BY <1>2, <2>1, <2>2, <2>3, <2>4
<1> QED BY <1>3, <1>4

\* The probes are keys, from different places.
LEMMA ProbesOf ==
    ASSUME NEW S, NEW keys \in Seq(S), NEW n \in Nat, n <= Len(keys), n = Len(keys) \/ n >= 3
    PROVE  \E at \in [1 .. n -> DOMAIN keys] :
              /\ \A i, j \in 1 .. n : at[i] = at[j] => i = j
              /\ \A i \in 1 .. n : Probes(keys, n)[i] = keys[at[i]]
<1>1. PICK l \in Nat : l = Len(keys) /\ DOMAIN keys = 1 .. l
  OBVIOUS
<1>2. CASE n = l
  <2>1. [i \in 1 .. n |-> i] \in [1 .. n -> DOMAIN keys]
    BY <1>1, <1>2
  <2>2. \A i \in 1 .. n : Probes(keys, n)[i] = keys[i]
    BY <1>1, <1>2 DEF Probes
  <2> QED BY <2>1, <2>2
<1>3. CASE n # l
  <2> DEFINE at == [i \in 1 .. n |-> ProbeAt(i, n, l)]
  <2>1. n >= 2 /\ n <= l
    BY <1>1, <1>3
  <2>2. \A i \in 1 .. n : ProbeAt(i, n, l) \in 1 .. l /\ \A j \in 1 .. n : i < j => ProbeAt(i, n, l) < ProbeAt(j, n, l)
    BY <2>1, ProbesSpread
  <2>3. \A i \in 1 .. n : at[i] = ProbeAt(i, n, l) /\ Probes(keys, n)[i] = keys[at[i]]
    BY <1>1, <1>3 DEF Probes, ProbeAt
  <2>4. at \in [1 .. n -> DOMAIN keys]
    BY <1>1, <2>2
  <2> HIDE DEF at
  <2>5. \A i, j \in 1 .. n : i < j => at[i] < at[j]
    BY <2>2, <2>3
  <2>6. \A i, j \in 1 .. n : at[i] = at[j] => i = j
    <3> SUFFICES ASSUME NEW i \in 1 .. n, NEW j \in 1 .. n, at[i] = at[j] PROVE i = j
      OBVIOUS
    <3>1. at[i] \in 1 .. l /\ at[j] \in 1 .. l
      BY <1>1, <2>4
    <3>2. ~(at[i] < at[j]) /\ ~(at[j] < at[i])
      BY <3>1
    <3> QED BY <2>5, <3>2
  <2> QED BY <2>3, <2>4, <2>6
<1> QED BY <1>2, <1>3

\* The choices of a number of probes, and what is asked of each.
Combos(keys, n, typos) == {AllOf({Probes(keys, n)[i] : i \in c}) : c \in kSubset(n - typos, 1 .. n)}

LEMMA CombosForest ==
    ASSUME NEW keys \in Seq(Keyed \X Keyed), NEW n \in Nat, n <= Len(keys), n = Len(keys) \/ n >= 3, NEW typos \in Nat
    PROVE  /\ Forest(Combos(keys, n, typos), 1) /\ \A q \in Combos(keys, n, typos) : Simple(q)
           /\ \A c \in SUBSET (1 .. n) : /\ IsFiniteSet({Probes(keys, n)[i] : i \in c})
                                         /\ {Probes(keys, n)[i] : i \in c} \subseteq Keyed \X Keyed
<1>1. PICK at \in [1 .. n -> DOMAIN keys] : \A i \in 1 .. n : Probes(keys, n)[i] = keys[at[i]]
  BY ProbesOf
<1> DEFINE probes == Probes(keys, n)
           Asked(c) == AllOf({probes[i] : i \in c})
           C == kSubset(n - typos, 1 .. n)
<1>2. \A i \in 1 .. n : probes[i] \in Keyed \X Keyed
  BY <1>1
<1>3. IsFiniteSet(1 .. n)
  BY FS_Interval
<1> HIDE DEF probes
<1>4. ASSUME NEW c \in SUBSET (1 .. n)
      PROVE  IsFiniteSet({probes[i] : i \in c}) /\ {probes[i] : i \in c} \subseteq Keyed \X Keyed
  <2>1. IsFiniteSet(c)
    BY <1>3, FS_Subset
  <2> QED BY <1>2, <2>1, FiniteImage
<1>5. C \subseteq SUBSET (1 .. n)
  BY DEF kSubset
<1>6. IsFiniteSet(C)
  <2>1. IsFiniteSet(SUBSET (1 .. n))
    BY <1>3, FS_SUBSET
  <2> QED BY <1>5, <2>1, FS_Subset
<1> HIDE DEF C
<1>7. \A c \in C : Asked(c) \in TreesTo[1] /\ Simple(Asked(c))
  <2> SUFFICES ASSUME NEW c \in C PROVE Asked(c) \in TreesTo[1] /\ Simple(Asked(c))
    OBVIOUS
  <2>1. IsFiniteSet({probes[i] : i \in c}) /\ {probes[i] : i \in c} \subseteq Keyed \X Keyed
    BY <1>4, <1>5
  <2> QED BY <2>1, AllAndAny
<1> DEFINE g == [c \in C |-> Asked(c)]
<1>8. Combos(keys, n, typos) = {g[c] : c \in C}
  BY DEF Combos, C, probes
<1>9. \A c \in C : g[c] \in TreesTo[1] /\ Simple(g[c])
  BY <1>7
<1> HIDE DEF g
<1>10. IsFiniteSet({g[c] : c \in C})
  BY <1>6, FiniteImage
<1> QED BY <1>4, <1>8, <1>9, <1>10 DEF Forest, probes

LEMMA FuzzyNormal ==
    ASSUME NEW term \in Seq(Byte)
    PROVE  Simple(FuzzyQuery(term))
<1>1. PICK keys, typos, n : FuzzyParts(term, keys, typos, n)
  BY FuzzyPartsOf
<1>2. /\ keys \in Seq(Keyed \X Keyed) /\ n \in Nat /\ n <= Len(keys) /\ (n = Len(keys) \/ n >= 3) /\ typos \in Nat
      /\ FuzzyQuery(term) = IF keys = <<>> \/ typos = 0 THEN AllOf(ToSet(keys))
                            ELSE IF n <= typos THEN AnyOf(ToSet(keys))
                            ELSE SimplifyOr(Combos(keys, n, typos))
  BY <1>1 DEF FuzzyParts, Combos
<1>3. IsFiniteSet(ToSet(keys)) /\ ToSet(keys) \subseteq Keyed \X Keyed
  <2>1. IsFiniteSet(DOMAIN keys)
    <3>1. IsFiniteSet(1 .. Len(keys))
      BY <1>2, FS_Interval
    <3> QED BY <1>2, <3>1
  <2>2. IsFiniteSet({keys[i] : i \in DOMAIN keys})
    BY <2>1, FiniteImage
  <2> QED BY <1>2, <2>2 DEF ToSet
<1>4. Simple(AllOf(ToSet(keys))) /\ Simple(AnyOf(ToSet(keys)))
  BY <1>3, AllAndAny
<1>5. Simple(SimplifyOr(Combos(keys, n, typos)))
  <2>1. Forest(Combos(keys, n, typos), 1) /\ \A q \in Combos(keys, n, typos) : Simple(q)
    BY <1>2, CombosForest
  <2>2. 1 \in 0 .. Top /\ 2 \in 0 .. Top /\ 2 = 1 + 1
    BY TreesUnfold
  <2> QED BY <2>1, <2>2, SimplifyOrNormal
<1> QED BY <1>2, <1>4, <1>5

\* The positions of the keys that a text does not have.
Lacking(keys, recorded) == {i \in DOMAIN keys : Bigram("consec", keys[i]) \notin recorded}

\* A text that lacks no more keys than there may be typos passes, unless it
\* lacks them all.
LEMMA FuzzyIncludes ==
    ASSUME NEW term \in Seq(Byte), NEW text, NEW untracked, NEW recorded, recorded = TextBigrams(text),
           NEW lacks, lacks = Lacking(BigramKeys(term), recorded), Cardinality(lacks) <= MaxTypos(term),
           lacks = {} \/ lacks # DOMAIN BigramKeys(term)
    PROVE  Includes(FuzzyQuery(term), untracked, text)
<1>1. PICK keys, typos, n : FuzzyParts(term, keys, typos, n)
  BY FuzzyPartsOf
<1>2. /\ keys \in Seq(Keyed \X Keyed) /\ n \in Nat /\ n <= Len(keys) /\ (n = Len(keys) \/ n >= 3) /\ typos \in Nat
      /\ FuzzyQuery(term) = IF keys = <<>> \/ typos = 0 THEN AllOf(ToSet(keys))
                            ELSE IF n <= typos THEN AnyOf(ToSet(keys))
                            ELSE SimplifyOr(Combos(keys, n, typos))
      /\ lacks = Lacking(keys, recorded) /\ Cardinality(lacks) <= typos /\ (lacks = {} \/ lacks # DOMAIN keys)
  BY <1>1 DEF FuzzyParts, Combos
<1>3. IsFiniteSet(DOMAIN keys)
  <2>1. IsFiniteSet(1 .. Len(keys))
    BY <1>2, FS_Interval
  <2> QED BY <1>2, <2>1
<1>4. IsFiniteSet(ToSet(keys)) /\ ToSet(keys) \subseteq Keyed \X Keyed
  <2>1. IsFiniteSet({keys[i] : i \in DOMAIN keys})
    BY <1>3, FiniteImage
  <2> QED BY <1>2, <2>1 DEF ToSet
<1>5. lacks \subseteq DOMAIN keys /\ IsFiniteSet(lacks) /\ Cardinality(lacks) \in Nat
  <2>1. lacks \in SUBSET DOMAIN keys
    BY <1>2 DEF Lacking
  <2> QED BY <1>3, <2>1, FS_Subset, FS_CardinalityType
<1>6. ~Clear(FuzzyQuery(term), untracked, recorded)
  <2>1. CASE keys = <<>> \/ typos = 0
    <3>1. lacks = {}
      <4>1. CASE keys = <<>>
        BY <1>5, <4>1
      <4>2. CASE typos = 0
        <5>1. Cardinality(lacks) = 0
          BY <1>2, <1>5, <4>2
        <5> QED BY <1>5, <5>1, FS_EmptySet
      <4> QED BY <2>1, <4>1, <4>2
    <3>2. \A k \in ToSet(keys) : Bigram("consec", k) \in recorded
      BY <1>2, <3>1 DEF Lacking, ToSet
    <3> QED BY <1>2, <1>4, <2>1, <3>2, AllAndAny
  <2>2. CASE ~(keys = <<>> \/ typos = 0) /\ n <= typos
    <3>1. PICK i \in DOMAIN keys : i \notin lacks
      <4>1. DOMAIN keys # {}
        <5>1. n # 0
          BY <1>1, <2>2 DEF FuzzyParts
        <5>2. 1 \in DOMAIN keys
          BY <1>2, <5>1
        <5> QED BY <5>2
      <4> QED BY <1>2, <1>5, <4>1
    <3>2. keys[i] \in ToSet(keys) /\ Bigram("consec", keys[i]) \in recorded
      BY <1>2, <3>1 DEF Lacking, ToSet
    <3> QED BY <1>2, <1>4, <2>2, <3>2, AllAndAny
  <2>3. CASE ~(keys = <<>> \/ typos = 0) /\ ~(n <= typos)
    <3>1. PICK at \in [1 .. n -> DOMAIN keys] :
             /\ \A i, j \in 1 .. n : at[i] = at[j] => i = j
             /\ \A i \in 1 .. n : Probes(keys, n)[i] = keys[at[i]]
      BY <1>2, ProbesOf
    <3> DEFINE missing == {i \in 1 .. n : at[i] \in lacks}
               found   == {i \in 1 .. n : at[i] \notin lacks}
    <3>2. IsFiniteSet(1 .. n) /\ Cardinality(1 .. n) = n
      <4>1. IsFiniteSet(1 .. n) /\ Cardinality(1 .. n) = IF 1 > n THEN 0 ELSE n - 1 + 1
        BY <1>2, FS_Interval
      <4> QED BY <1>2, <4>1
    <3>3. missing \in SUBSET (1 .. n) /\ found \in SUBSET (1 .. n) /\ missing \cup found = 1 .. n /\ missing \cap found = {}
      OBVIOUS
    <3>a. \A i \in missing : at[i] \in lacks
      OBVIOUS
    <3>b. \A i \in found : Probes(keys, n)[i] = keys[at[i]] /\ at[i] \in DOMAIN keys /\ at[i] \notin lacks
      BY <3>1
    <3> HIDE DEF missing, found
    <3>4. IsFiniteSet(missing) /\ IsFiniteSet(found)
      BY <3>2, <3>3, FS_Subset
    <3>5. Cardinality(missing) <= Cardinality(lacks)
      <4>1. IsFiniteSet({at[i] : i \in missing}) /\ Cardinality({at[i] : i \in missing}) = Cardinality(missing)
        <5>1. \A i, j \in missing : at[i] = at[j] => i = j
          BY <3>1, <3>3
        <5> QED BY <3>4, <5>1, InjectiveImage
      <4>2. {at[i] : i \in missing} \in SUBSET lacks
        BY <3>a
      <4>3. Cardinality({at[i] : i \in missing}) <= Cardinality(lacks)
        BY <1>5, <4>2, FS_Subset
      <4> QED BY <4>1, <4>3
    <3>6. n - typos \in Nat /\ n - typos <= Cardinality(found)
      <4>1. Cardinality(missing \cup found) = Cardinality(missing) + Cardinality(found) - Cardinality(missing \cap found)
        BY <3>4, FS_Union
      <4>2. Cardinality(missing \cap found) = 0
        BY <3>3, FS_EmptySet
      <4>3. Cardinality(missing) \in Nat /\ Cardinality(found) \in Nat
        BY <3>4, FS_CardinalityType
      <4>5. Cardinality(missing \cup found) = n
        BY <3>2, <3>3
      <4>4. n = Cardinality(missing) + Cardinality(found)
        BY <4>1, <4>2, <4>3, <4>5
      <4> QED BY <1>2, <1>5, <2>3, <3>5, <4>3, <4>4
    <3>7. PICK c \in SUBSET found : Cardinality(c) = n - typos
      BY <3>4, <3>6, SubsetOfSize
    <3> DEFINE K == {Probes(keys, n)[i] : i \in c}
    <3>8. AllOf(K) \in Combos(keys, n, typos)
      <4>1. c \in kSubset(n - typos, 1 .. n)
        BY <3>3, <3>7 DEF kSubset
      <4> QED BY <4>1 DEF Combos
    <3>9. IsFiniteSet(K) /\ K \subseteq Keyed \X Keyed
      <4>1. c \in SUBSET (1 .. n)
        BY <3>3, <3>7
      <4> QED BY <1>2, <4>1, CombosForest
    <3>10. \A k \in K : Bigram("consec", k) \in recorded
      <4> SUFFICES ASSUME NEW i \in c PROVE Bigram("consec", Probes(keys, n)[i]) \in recorded
        OBVIOUS
      <4>1. Probes(keys, n)[i] = keys[at[i]] /\ at[i] \in DOMAIN keys /\ at[i] \notin lacks
        BY <3>7, <3>b
      <4>2. Bigram("consec", keys[at[i]]) \in recorded
        BY <1>2, <4>1 DEF Lacking
      <4> QED BY <4>1, <4>2
    <3> HIDE DEF K
    <3>11. ~Clear(AllOf(K), untracked, recorded)
      BY <3>9, <3>10, AllAndAny
    <3>12. Forest(Combos(keys, n, typos), 1)
      BY <1>2, CombosForest
    <3>13. 1 \in 0 .. Top /\ 2 \in 0 .. Top /\ 2 = 1 + 1
      BY TreesUnfold
    <3>14. ~Clear(SimplifyOr(Combos(keys, n, typos)), untracked, recorded)
      <4>1. Clear(SimplifyOr(Combos(keys, n, typos)), untracked, recorded) =>
               \A q \in Combos(keys, n, typos) : Clear(q, untracked, recorded)
        BY <3>12, <3>13, SimplifyOrClear
      <4> QED BY <3>8, <3>11, <4>1
    <3> QED BY <1>2, <2>3, <3>14
  <2> QED BY <2>1, <2>2, <2>3
<1> QED BY <1>6 DEF Includes, Clear

-----------------------------------------------------------------------------
(* What the variables hold between a question and its answer.              *)

\* The request in hand and the tree it was made into.
Asked ==
    \/ \E term \in Terms : request = [mode |-> "literal", pattern |-> term] /\ query = LiteralQuery(term)
    \/ \E term \in Terms : request = [mode |-> "fuzzy", pattern |-> term] /\ query = FuzzyQuery(term)
    \/ \E hir \in Expressions : request = [mode |-> "regex", pattern |-> hir] /\ query = Decompose[hir].query

\* Nothing is kept from one question to the next, the tree belongs to the
\* request, and the candidates are those of the tree for some index.
InHand ==
    /\ phase \in {"idle", "decomposed", "looked_up"}
    /\ Idle => request = NoRequest /\ query = AnyQuery
    /\ phase # "looked_up" => candidates = {}
    /\ ~Idle => Asked
    /\ phase = "looked_up" => \E untracked : candidates = CandidateSet(query, untracked)

LEMMA InitInHand == Init => InHand
BY DEF Init, InHand, Idle

LEMMA StepInHand == InHand /\ [Next]_vars => InHand'
<1> SUFFICES ASSUME InHand, [Next]_vars PROVE InHand'
  OBVIOUS
<1>1. ASSUME NEW mode, NEW pattern, NEW q, Ask(mode, pattern, q),
             (request' = [mode |-> mode, pattern |-> pattern] /\ query' = q) => Asked'
      PROVE  InHand'
  BY <1>1 DEF Ask, InHand, Idle
<1>2. ASSUME NEW term \in Terms, SearchLiteral(term) PROVE InHand'
  <2>1. (request' = [mode |-> "literal", pattern |-> term] /\ query' = LiteralQuery(term)) => Asked'
    BY DEF Asked
  <2> QED BY <1>1, <1>2, <2>1 DEF SearchLiteral
<1>3. ASSUME NEW term \in Terms, SearchFuzzy(term) PROVE InHand'
  <2>1. (request' = [mode |-> "fuzzy", pattern |-> term] /\ query' = FuzzyQuery(term)) => Asked'
    BY DEF Asked
  <2> QED BY <1>1, <1>3, <2>1 DEF SearchFuzzy
<1>4. ASSUME NEW hir \in Expressions, SearchRegex(hir) PROVE InHand'
  <2>1. (request' = [mode |-> "regex", pattern |-> hir] /\ query' = Decompose[hir].query) => Asked'
    BY DEF Asked
  <2> QED BY <1>1, <1>4, <2>1 DEF SearchRegex
<1>5. ASSUME NEW untracked, LookUp(untracked) PROVE InHand'
  <2>1. /\ phase = "decomposed" /\ phase' = "looked_up" /\ request' = request /\ query' = query
        /\ candidates' = CandidateSet(query, untracked)
    BY <1>5 DEF LookUp
  <2>2. Asked'
    BY <2>1 DEF InHand, Idle, Asked
  <2>3. candidates' = CandidateSet(query', untracked)
    BY <2>1
  <2> QED BY <2>1, <2>2, <2>3 DEF InHand, Idle
<1>6. CASE Answer
  BY <1>6 DEF Answer, InHand, Idle
<1>7. CASE UNCHANGED vars
  <2>1. request' = request /\ query' = query /\ candidates' = candidates /\ phase' = phase
    BY <1>7 DEF vars
  <2>2. Asked => Asked'
    BY <2>1 DEF Asked
  <2>3. \A untracked : candidates = CandidateSet(query, untracked) => candidates' = CandidateSet(query', untracked)
    BY <2>1
  <2> QED BY <2>1, <2>2, <2>3 DEF InHand, Idle
<1> QED BY <1>2, <1>3, <1>4, <1>5, <1>6, <1>7 DEF Next

LEMMA AlwaysInHand == Spec => []InHand
BY InitInHand, StepInHand, PTL DEF Spec

\* What a request of each kind says of the candidates.
LEMMA CandidatesOf ==
    ASSUME InHand, phase = "looked_up"
    PROVE  /\ Asked
           /\ \E untracked : \A t \in Texts : Includes(query, untracked, t) => t \in candidates
<1>1. PICK untracked : candidates = CandidateSet(query, untracked)
  BY DEF InHand
<1>2. \A t \in Texts : Includes(query, untracked, t) => t \in candidates
  BY <1>1 DEF CandidateSet
<1>3. Asked
  BY DEF InHand, Idle
<1> QED BY <1>2, <1>3

LEMMA AskedFor ==
    ASSUME Asked
    PROVE  /\ request # NoRequest
           /\ request.mode = "literal" => request.pattern \in Terms /\ query = LiteralQuery(request.pattern)
           /\ request.mode = "fuzzy" => request.pattern \in Terms /\ query = FuzzyQuery(request.pattern)
           /\ request.mode = "regex" => request.pattern \in Expressions /\ query = Decompose[request.pattern].query
<1>1. CASE \E term \in Terms : request = [mode |-> "literal", pattern |-> term] /\ query = LiteralQuery(term)
  BY <1>1 DEF NoRequest
<1>2. CASE \E term \in Terms : request = [mode |-> "fuzzy", pattern |-> term] /\ query = FuzzyQuery(term)
  BY <1>2 DEF NoRequest
<1>3. CASE \E hir \in Expressions : request = [mode |-> "regex", pattern |-> hir] /\ query = Decompose[hir].query
  BY <1>3 DEF NoRequest
<1> QED BY <1>1, <1>2, <1>3 DEF Asked

-----------------------------------------------------------------------------
(* Types.                                                                  *)

LEMMA QueryNormal ==
    ASSUME Asked
    PROVE  Simple(query)
<1>1. CASE \E term \in Terms : request = [mode |-> "literal", pattern |-> term] /\ query = LiteralQuery(term)
  BY <1>1, QueryAssumption, LiteralQueryNormal
<1>2. CASE \E term \in Terms : request = [mode |-> "fuzzy", pattern |-> term] /\ query = FuzzyQuery(term)
  BY <1>2, QueryAssumption, FuzzyNormal
<1>3. CASE \E hir \in Expressions : request = [mode |-> "regex", pattern |-> hir] /\ query = Decompose[hir].query
  BY <1>3, QueryAssumption, DecomposeNormal
<1> QED BY <1>1, <1>2, <1>3 DEF Asked

\* Every tree the queries are made into is in normal form, with keys the index
\* can hold: simplify_and and simplify_or flatten and unwrap at every level.
THEOREM TypesAreRight == Spec => []TypeOK
<1>1. InHand => TypeOK
  <2> SUFFICES ASSUME InHand PROVE TypeOK
    OBVIOUS
  <2>1. query = AnyQuery \/ IsNormal[query]
    <3>1. CASE Idle
      BY <3>1 DEF InHand
    <3>2. CASE ~Idle
      <4>1. Simple(query)
        BY <3>2, QueryNormal DEF InHand
      <4> QED BY <4>1 DEF Simple
    <3> QED BY <3>1, <3>2
  <2>2. candidates \subseteq Texts
    <3>1. phase # "looked_up" => candidates = {}
      BY DEF InHand
    <3>2. phase = "looked_up" => \E untracked : candidates = CandidateSet(query, untracked)
      BY DEF InHand
    <3>3. \A untracked : CandidateSet(query, untracked) \subseteq Texts
      BY DEF CandidateSet
    <3> QED BY <3>1, <3>2, <3>3
  <2>3. Idle <=> request = NoRequest
    <3>1. ~Idle => request # NoRequest
      BY AskedFor DEF InHand
    <3> QED BY <3>1 DEF InHand
  <2>4. phase \in {"idle", "decomposed", "looked_up"}
    BY DEF InHand
  <2> QED BY <2>1, <2>2, <2>3, <2>4 DEF TypeOK
<1> QED BY <1>1, AlwaysInHand, PTL

-----------------------------------------------------------------------------
(* What the prefilter may leave out.                                       *)

LEMMA PartOccurs ==
    ASSUME NEW S, NEW s \in Seq(S), NEW sub \in SubSeqs(s)
    PROVE  Occurrences(sub, s) # {}
<1>1. PICK i \in 0 .. Len(s), j \in 0 .. Len(s) : sub = SubSeq(s, i + 1, j)
  BY DEF SubSeqs
<1>2. i \in Nat /\ j \in Nat /\ j <= Len(s) /\ i <= Len(s)
  OBVIOUS
<1>3. /\ sub \in Seq(S) /\ Len(sub) = IF i <= j THEN j - i ELSE 0
      /\ \A k \in 1 .. j - i : sub[k] = s[i + k]
  BY <1>1, <1>2, SubSeqFacts
<1>4. CASE i <= j
  <2>1. i \in 0 .. Len(s) - Len(sub)
    BY <1>2, <1>3, <1>4
  <2>2. \A k \in DOMAIN sub : s[i + k] = sub[k]
    BY <1>2, <1>3, <1>4
  <2> QED BY <2>1, <2>2 DEF Occurrences
<1>5. CASE ~(i <= j)
  <2>1. 0 \in 0 .. Len(s) - Len(sub) /\ DOMAIN sub = {}
    BY <1>2, <1>3, <1>5
  <2> QED BY <2>1 DEF Occurrences
<1> QED BY <1>4, <1>5

\* A literal query never excludes a chunk that contains the literal, whichever
\* of its bigrams the index dropped.
THEOREM LiteralNeverExcludes == Spec => []LiteralPrefilterSound
<1>1. InHand => LiteralPrefilterSound
  <2> SUFFICES ASSUME InHand, phase = "looked_up", request.mode = "literal",
                      NEW t \in Texts, request.pattern \in SubSeqs(t)
               PROVE  t \in candidates
    BY DEF LiteralPrefilterSound, LookedUp
  <2>1. PICK untracked : Includes(query, untracked, t) => t \in candidates
    BY CandidatesOf
  <2>2. request.pattern \in Terms /\ query = LiteralQuery(request.pattern)
    BY CandidatesOf, AskedFor
  <2>3. request.pattern \in Seq(Byte) /\ t \in Seq(Byte)
    BY <2>2, QueryAssumption
  <2>4. Occurrences(request.pattern, t) # {}
    BY <2>3, PartOccurs
  <2>5. Includes(LiteralQuery(request.pattern), untracked, t)
    BY <2>3, <2>4, LiteralIncludes
  <2> QED BY <2>1, <2>2, <2>5
<1> QED BY <1>1, AlwaysInHand, PTL

\* A fuzzy query excludes a chunk only when it lacks more of the term's bigrams
\* than there may be typos, or all of them: the probes are different bigrams,
\* and of those that are there enough are left for one of the combinations.
THEOREM FuzzyToleratesTypos == Spec => []FuzzyToleratesMissingBigrams
<1>1. InHand => FuzzyToleratesMissingBigrams
  <2> SUFFICES ASSUME InHand, phase = "looked_up", request.mode = "fuzzy", NEW t \in Texts
               PROVE  LET lacks == Lacking(BigramKeys(request.pattern), TextBigrams(t))
                      IN  \/ t \in candidates
                          \/ Cardinality(lacks) > MaxTypos(request.pattern)
                          \/ lacks # {} /\ lacks = DOMAIN BigramKeys(request.pattern)
    BY DEF FuzzyToleratesMissingBigrams, LookedUp, Lacking
  <2> DEFINE term  == request.pattern
             lacks == Lacking(BigramKeys(term), TextBigrams(t))
  <2>1. PICK untracked : Includes(query, untracked, t) => t \in candidates
    BY CandidatesOf
  <2>2. term \in Terms /\ query = FuzzyQuery(term)
    BY CandidatesOf, AskedFor
  <2>3. term \in Seq(Byte)
    BY <2>2, QueryAssumption
  <2>4. Cardinality(lacks) \in Nat /\ MaxTypos(term) \in Nat
    <3>1. PICK keys, typos, n : FuzzyParts(term, keys, typos, n)
      BY <2>3, FuzzyPartsOf
    <3>2. keys = BigramKeys(term) /\ keys \in Seq(Keyed \X Keyed) /\ typos = MaxTypos(term) /\ typos \in Nat
      BY <3>1 DEF FuzzyParts
    <3>3. IsFiniteSet(1 .. Len(keys))
      BY <3>2, FS_Interval
    <3>4. lacks \in SUBSET (1 .. Len(keys))
      BY <3>2 DEF Lacking
    <3> HIDE DEF lacks
    <3>5. Cardinality(lacks) \in Nat
      BY <3>3, <3>4, FS_Subset, FS_CardinalityType
    <3> QED BY <3>2, <3>5
  <2> HIDE DEF lacks, term
  <2>5. ASSUME Cardinality(lacks) <= MaxTypos(term), lacks = {} \/ lacks # DOMAIN BigramKeys(term) PROVE t \in candidates
    <3>1. lacks = Lacking(BigramKeys(term), TextBigrams(t))
      BY DEF lacks
    <3>2. Includes(FuzzyQuery(term), untracked, t)
      BY <2>3, <2>5, <3>1, FuzzyIncludes
    <3> QED BY <2>1, <2>2, <3>2
  <2> QED BY <2>4, <2>5 DEF lacks, term
<1> QED BY <1>1, AlwaysInHand, PTL

\* A regular expression without a hidden edge never excludes a chunk that it
\* matches, whichever of its bigrams the index dropped.
THEOREM RegexNeverExcludes == Spec => []RegexPrefilterSound
<1>1. InHand => RegexPrefilterSound
  <2> SUFFICES ASSUME InHand, phase = "looked_up", request.mode = "regex", ~JoinsAHiddenEdge(request.pattern),
                      NEW t \in Texts, Matches(request.pattern, t)
               PROVE  t \in candidates
    BY DEF RegexPrefilterSound, LookedUp
  <2>1. PICK untracked : Includes(query, untracked, t) => t \in candidates
    BY CandidatesOf
  <2>2. request.pattern \in Expressions /\ query = Decompose[request.pattern].query
    BY CandidatesOf, AskedFor
  <2>3. request.pattern \in Hirs /\ t \in Seq(Byte)
    BY <2>2, QueryAssumption
  <2>4. Includes(Decompose[request.pattern].query, untracked, t)
    BY <2>3, RegexIncludes
  <2> QED BY <2>1, <2>2, <2>4
<1> QED BY <1>1, AlwaysInHand, PTL
===============================================================================
