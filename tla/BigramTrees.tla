------------------------------ MODULE BigramTrees ------------------------------
(***************************************************************************)
(* Queries as trees of bigrams (bigram_query.rs, BigramIndex::query in     *)
(* bigram.rs): how a literal, a fuzzy term or a regular expression becomes *)
(* a tree, and what the tree says of a text when the index keeps some of   *)
(* the bigrams and not others.                                             *)
(*                                                                         *)
(* Bytes are the members of a small alphabet. A set of bytes that may be   *)
(* unknown (Option<Vec<u8>>) is {} when it is: every producer in the code  *)
(* returns None in place of an empty vector. The children of a tree node   *)
(* are a set: their order and repetition are not observable.               *)
(***************************************************************************)
EXTENDS ByteStrings

CONSTANTS
    Printable,       \* the bytes in 32..=126
    MaxClassExpand,  \* MAX_CLASS_EXPAND
    NumProbes,       \* FUZZY_PROBES
    NestLimit        \* how deep the parser lets expressions nest

ASSUME TreesAssumption ==
    /\ Printable \subseteq Byte /\ IsFiniteSet(Printable)
    /\ \A b \in Byte : b \in Printable <=> Lower[b] \in Printable
    /\ MaxClassExpand \in Nat \ {0} /\ NumProbes \in Nat \ {0, 1, 2} /\ NestLimit \in Nat

-----------------------------------------------------------------------------
(* What regex_syntax parses a pattern to. The parser reads bytes; a class  *)
(* under an inline (?u) is one of characters, of which those of one byte   *)
(* are in the model: a normalised text holds no others.                    *)

Literal(bytes)            == [kind |-> "literal", bytes |-> bytes]
Class(ranges)             == [kind |-> "class", unicode |-> FALSE, ranges |-> ranges]
UnicodeClass(ranges)      == [kind |-> "class", unicode |-> TRUE, ranges |-> ranges]
Look(at)                  == [kind |-> "look", at |-> at]
Empty                     == [kind |-> "empty"]
Repetition(sub, min, max) == [kind |-> "repetition", sub |-> sub, min |-> min, max |-> max]
Capture(sub)              == [kind |-> "capture", sub |-> sub]
Concat(parts)             == [kind |-> "concat", parts |-> parts]
Alternation(alts)         == [kind |-> "alternation", alts |-> alts]

\* The max of a repetition that has none.
Unbounded == -1

\* The expressions that nest no deeper than n.
HirsTo[n \in 0 .. NestLimit] ==
    LET sub == IF n = 0 THEN {} ELSE HirsTo[n - 1]
    IN  [kind : {"literal"}, bytes : Seq(Byte) \ {<<>>}]
        \cup [kind : {"class"}, unicode : BOOLEAN, ranges : Seq(SUBSET Byte)]
        \cup [kind : {"look"}, at : {"start", "end"}] \cup [kind : {"empty"}]
        \cup [kind : {"repetition"}, sub : sub, min : Nat, max : Nat \cup {Unbounded}]
        \cup [kind : {"capture"}, sub : sub]
        \cup [kind : {"concat"}, parts : Seq(sub)] \cup [kind : {"alternation"}, alts : Seq(sub) \ {<<>>}]

Hirs == HirsTo[NestLimit]

Total(lengths) ==
    LET sum[n \in 0 .. Len(lengths)] == IF n = 0 THEN 0 ELSE sum[n - 1] + lengths[n] IN sum[Len(lengths)]

\* The lengths of an expression, from those of its parts.
MinLenFrom(lens, hir) ==
    CASE hir.kind = "literal"       -> Len(hir.bytes)
      [] hir.kind = "class"         -> 1
      [] hir.kind \in {"look", "empty"} -> 0
      [] hir.kind = "repetition"    -> hir.min * lens[hir.sub]
      [] hir.kind = "capture"       -> lens[hir.sub]
      [] hir.kind = "concat"        -> Total([i \in DOMAIN hir.parts |-> lens[hir.parts[i]]])
      [] hir.kind = "alternation"   -> Min({lens[hir.alts[i]] : i \in DOMAIN hir.alts})

MinLen[hir \in Hirs] == MinLenFrom(MinLen, hir)

\* Only 0 and 1 are ever asked for: two stands for any number of turns.
MaxLenFrom(lens, hir) ==
    CASE hir.kind = "literal"       -> Len(hir.bytes)
      [] hir.kind = "class"         -> 1
      [] hir.kind \in {"look", "empty"} -> 0
      [] hir.kind = "repetition"    -> (IF hir.max = Unbounded THEN 2 ELSE hir.max) * lens[hir.sub]
      [] hir.kind = "capture"       -> lens[hir.sub]
      [] hir.kind = "concat"        -> Total([i \in DOMAIN hir.parts |-> lens[hir.parts[i]]])
      [] hir.kind = "alternation"   -> Max({lens[hir.alts[i]] : i \in DOMAIN hir.alts})

MaxLen[hir \in Hirs] == MaxLenFrom(MaxLen, hir)

\* Where one may be after all steps, when the n-th leads from j to steps[n][j].
After(steps, i) ==
    LET at[n \in 0 .. Len(steps)] == IF n = 0 THEN {i} ELSE UNION {steps[n][j] : j \in at[n - 1]}
    IN  at[Len(steps)]

\* How often a repetition may be tried in a text of length n: of more turns than
\* that some match nothing, and may be left out.
Counts(hir, n) == {k \in hir.min .. hir.min + n : hir.max = Unbounded \/ k <= hir.max}

\* Where in text a match of hir that starts after position i may end, given the
\* same of smaller expressions. The engine ignores case.
EndsFrom(ends, hir, text, i) ==
    CASE hir.kind = "literal" ->
            {j \in {i + Len(hir.bytes)} \cap 0 .. Len(text) :
                \A k \in DOMAIN hir.bytes : Lower[text[i + k]] = Lower[hir.bytes[k]]}
      [] hir.kind = "class" ->
            {j \in {i + 1} \cap 0 .. Len(text) : Lower[text[j]] \in {Lower[b] : b \in UNION ToSet(hir.ranges)}}
      [] hir.kind = "look" -> IF i = (IF hir.at = "start" THEN 0 ELSE Len(text)) THEN {i} ELSE {}
      [] hir.kind = "empty" -> {i}
      [] hir.kind = "repetition" ->
            UNION {After([n \in 1 .. k |-> ends[hir.sub]], i) : k \in Counts(hir, Len(text))}
      [] hir.kind = "capture" -> ends[hir.sub][i]
      [] hir.kind = "concat" -> After([n \in DOMAIN hir.parts |-> ends[hir.parts[n]]], i)
      [] hir.kind = "alternation" -> UNION {ends[hir.alts[n]][i] : n \in DOMAIN hir.alts}

Ends(expr, text, at) ==
    LET ends[hir \in Hirs] == [i \in 0 .. Len(text) |-> EndsFrom(ends, hir, text, i)] IN ends[expr][at]

Matches(hir, text) == \E i \in 0 .. Len(text) : Ends(hir, text, i) # {}

-----------------------------------------------------------------------------
(* Trees of bigrams.                                                       *)

AnyQuery            == [op |-> "any"]
Bigram(op, k)  == [op |-> op, key |-> k]
And(children)  == [op |-> "and", children |-> children]
Or(children)   == [op |-> "or", children |-> children]
IsBigram(q)    == q.op \in {"consec", "skip1"}

SplicedInto(op, q) == IF q.op = op THEN q.children ELSE {q}

\* Mutant: An And inside an And is kept as it is.
SimplifyAndNested(qs) ==
    LET flat == qs \ {AnyQuery}
    IN  CASE Cardinality(flat) = 0 -> AnyQuery
          [] Cardinality(flat) = 1 -> CHOOSE q \in flat : TRUE
          [] OTHER                 -> And(flat)

SimplifyAnd(qs) ==
    LET flat == UNION {SplicedInto("and", q) : q \in qs \ {AnyQuery}}
    IN  CASE Cardinality(flat) = 0 -> AnyQuery
          [] Cardinality(flat) = 1 -> CHOOSE q \in flat : TRUE
          [] OTHER                 -> And(flat)

SimplifyOr(qs) ==
    LET flat == UNION {SplicedInto("or", q) : q \in qs}
    IN  CASE AnyQuery \in qs \/ flat = {}  -> AnyQuery
          [] Cardinality(flat) = 1    -> CHOOSE q \in flat : TRUE
          [] OTHER                    -> Or(flat)

\* The bigrams of bytes with the given distance, where both are printable.
Windows(op, bytes, distance) ==
    {Bigram(op, <<Lower[bytes[i]], Lower[bytes[i + distance]]>>) :
        i \in {j \in 1 .. Len(bytes) - distance :
                  {bytes[j], bytes[j + distance]} \subseteq Printable}}

\* What the index records of a chunk.
TextBigrams(text) == Windows("consec", text, 1) \cup Windows("skip1", text, 2)

\* A node's bit for one chunk: {} when it has no posting list to offer. An And
\* passes over such children, an Or has nothing to offer itself. Neither is ever
\* made without children.
AndBits(bits) == IF UNION bits = {} THEN {} ELSE {(FALSE \notin UNION bits)}
OrBits(bits)  == IF {} \in bits THEN {} ELSE {(TRUE \in UNION bits)}

FiniteSubsets(S) == {T \in SUBSET S : IsFiniteSet(T)}

\* The trees that are no higher than n: what the expressions become, and more.
TreesTo[n \in 0 .. NestLimit + 2] ==
    {AnyQuery} \cup [op : {"consec", "skip1"}, key : Byte \X Byte]
    \cup IF n = 0 THEN {} ELSE [op : {"and", "or"}, children : FiniteSubsets(TreesTo[n - 1])]

Trees == TreesTo[NestLimit + 2]

\* A node's bit, from those of its children: an untracked bigram has no
\* posting list.
NodeBits(bits, t, untracked, recorded) ==
    CASE t.op = "any" -> {}
      [] IsBigram(t)  -> IF t \in untracked THEN {} ELSE {(t \in recorded)}
      [] t.op = "and" -> AndBits({bits[c] : c \in t.children})
      [] t.op = "or"  -> OrBits({bits[c] : c \in t.children})

Evaluate(q, untracked, recorded) ==
    LET bits[t \in Trees] == NodeBits(bits, t, untracked, recorded) IN bits[q]

\* A chunk is verified unless its bit is clear: also when there is no bit.
Includes(q, untracked, text) == Evaluate(q, untracked, TextBigrams(text)) # {FALSE}

BigramsOf[q \in Trees] ==
    CASE q.op = "any" -> {}
      [] IsBigram(q)  -> {q}
      [] OTHER        -> UNION {BigramsOf[c] : c \in q.children}

-----------------------------------------------------------------------------
(* Literal queries (BigramIndex::query and query_skip).                    *)

\* Mutant: The stride-2 pairs are looked up in the main index.
LiteralQueryOneIndex(term) ==
    SimplifyAnd(Windows("consec", term, 1) \cup Windows("consec", term, 2))

LiteralQuery(term) == SimplifyAnd(Windows("consec", term, 1) \cup Windows("skip1", term, 2))

-----------------------------------------------------------------------------
(* Fuzzy queries.                                                          *)

MaxTypos(term) == Min({Len(term) \div 3, 2})

\* The consecutive bigrams of term in order, with their repetitions.
BigramKeys(term) ==
    LET pairs == [i \in 1 .. Len(term) - 1 |-> <<Lower[term[i]], Lower[term[i + 1]]>>]
    IN  Sift(pairs, {i \in DOMAIN pairs : ToSet(pairs[i]) \subseteq Printable})

\* n of the keys, evenly spread from the first to the last.
Probes(keys, n) ==
    IF n = Len(keys) THEN keys
    ELSE [i \in 1 .. n |-> keys[((i - 1) * (Len(keys) - 1)) \div (n - 1) + 1]]

AllOf(keys) == SimplifyAnd({Bigram("consec", k) : k \in keys})
AnyOf(keys) == SimplifyOr({Bigram("consec", k) : k \in keys})

\* Mutant: One probe too many is required.
RequiredPlusOne(n, typos) == n - typos + 1

Required(n, typos) == n - typos

FuzzyQuery(term) ==
    LET keys   == BigramKeys(term)
        typos  == MaxTypos(term)
        n      == Min({NumProbes, Len(keys)})
        probes == Probes(keys, n)
        combos == kSubset(Required(n, typos), 1 .. n)
    IN  IF keys = <<>> \/ typos = 0 THEN AllOf(ToSet(keys))
        ELSE IF n <= typos THEN AnyOf(ToSet(keys))
        ELSE SimplifyOr({AllOf({probes[i] : i \in c}) : c \in combos})

-----------------------------------------------------------------------------
(* Regular expressions. Of every node: the bigrams every match of it has,  *)
(* the bytes a match may begin and end with, and whether it may be empty.  *)

Info(q, first, last, canBeEmpty) ==
    [query |-> q, first |-> first, last |-> last, canBeEmpty |-> canBeEmpty]

EmptyInfo == Info(AnyQuery, {}, {}, TRUE)

\* More bytes than the cap are as good as unknown.
Capped(bytes) == IF Cardinality(bytes) > MaxClassExpand THEN {} ELSE bytes

\* The ranges are taken in order; the first that may exceed the cap ends it. A
\* range of bytes counts whole, one of characters only with what is printable.
ExpandClass(unicode, ranges) ==
    LET Taken(n) == {Lower[b] : b \in Printable \cap UNION {ranges[i] : i \in 1 .. n}}
        Count(n) == Cardinality(IF unicode THEN ranges[n] \cap Printable ELSE ranges[n])
        tooMany  == \E n \in DOMAIN ranges : Cardinality(Taken(n - 1)) + Count(n) > MaxClassExpand
    IN  IF tooMany THEN {} ELSE Taken(Len(ranges))

\* Mutant: What is known of some sides stands for all.
MergeKnownByteSets(sets) == Capped(UNION sets)

MergeByteSets(sets) == IF {} \in sets THEN {} ELSE Capped(UNION sets)

CrossProduct(op, last, first) ==
    SimplifyOr({Bigram(op, <<l, f>>) : l \in last, f \in first})

\* The bytes a sequence may begin with: those of its parts up to the first
\* that cannot be empty. Only that one has to know its own.
CollectFirst(infos) ==
    LET mandatory == {i \in DOMAIN infos : ~infos[i].canBeEmpty}
        reach     == IF mandatory = {} THEN Len(infos) ELSE Min(mandatory)
    IN  IF \E i \in mandatory : i = reach /\ infos[i].first = {}
        THEN {}
        ELSE Capped(UNION {infos[i].first : i \in 1 .. reach})

CollectLast(infos) ==
    CollectFirst(Reverse([i \in DOMAIN infos |-> [infos[i] EXCEPT !.first = infos[i].last]]))

DecomposeLiteral(bytes) ==
    LET Known(b) == {Lower[b]} \cap Printable
        bigrams  == Windows("consec", bytes, 1) \cup Windows("skip1", bytes, 2)
    IN  Info(SimplifyAnd(bigrams), Known(Head(bytes)), Known(Last(bytes)), FALSE)

DecomposeClass(hir) ==
    LET bytes == ExpandClass(hir.unicode, hir.ranges) IN Info(AnyQuery, bytes, bytes, MinLen[hir] = 0)

DecomposeRepetition(hir, inner) ==
    LET seam == IF hir.min >= 2 THEN {CrossProduct("consec", inner.last, inner.first)} ELSE {}
    IN  IF hir.min = 0
        THEN Info(AnyQuery, inner.first, inner.last, TRUE)
        ELSE Info(SimplifyAnd({inner.query} \cup seam), inner.first, inner.last, MinLen[hir] = 0)

DecomposeConcat(parts, infos) ==
    LET Mandatory(i) == ~infos[i].canBeEmpty
        OneByte(i)   == MinLen[parts[i]] = 1 /\ MaxLen[parts[i]] = 1
        adjacent == {i \in 1 .. Len(parts) - 1 : Mandatory(i) /\ Mandatory(i + 1)}
        across   == {i \in 1 .. Len(parts) - 2 : Mandatory(i) /\ OneByte(i + 1) /\ Mandatory(i + 2)}
        qs == {infos[i].query : i \in DOMAIN infos}
              \cup {CrossProduct("consec", infos[i].last, infos[i + 1].first) : i \in adjacent}
              \cup {CrossProduct("skip1", infos[i].last, infos[i + 2].first) : i \in across}
    IN  Info(SimplifyAnd(qs), CollectFirst(infos), CollectLast(infos),
             \A i \in DOMAIN infos : infos[i].canBeEmpty)

DecomposeAlternation(infos) ==
    LET Of(field) == {infos[i][field] : i \in DOMAIN infos}
    IN  Info(SimplifyOr(Of("query")), MergeByteSets(Of("first")), MergeByteSets(Of("last")),
             TRUE \in Of("canBeEmpty"))

DecomposeFrom(decompose, hir) ==
    CASE hir.kind \in {"empty", "look"} -> EmptyInfo
      [] hir.kind = "literal"     -> DecomposeLiteral(hir.bytes)
      [] hir.kind = "class"       -> DecomposeClass(hir)
      [] hir.kind = "repetition"  -> DecomposeRepetition(hir, decompose[hir.sub])
      [] hir.kind = "capture"     -> decompose[hir.sub]
      [] hir.kind = "concat"      ->
            DecomposeConcat(hir.parts, [i \in DOMAIN hir.parts |-> decompose[hir.parts[i]]])
      [] hir.kind = "alternation" ->
            DecomposeAlternation([i \in DOMAIN hir.alts |-> decompose[hir.alts[i]]])

Decompose[hir \in Hirs] == DecomposeFrom(Decompose, hir)

-----------------------------------------------------------------------------
(* Where the decomposition says more than it knows.                        *)

\* Whether a sequence begins with a part that may be empty, may also match
\* something, and does not say with which byte: CollectFirst passes over it.
BeginsUnknown(infos, parts) ==
    \E i \in DOMAIN infos :
        /\ infos[i].canBeEmpty /\ infos[i].first = {} /\ MaxLen[parts[i]] > 0
        /\ \A j \in 1 .. i - 1 : infos[j].canBeEmpty

\* The three shapes whose edges the decomposition takes for known when they are
\* not: a class of printable and other bytes, a sequence as above, and what a
\* repetition of something empty puts next to itself.
HidesAnEdgeFrom(hides, hir) ==
    CASE hir.kind = "class" ->
            ExpandClass(hir.unicode, hir.ranges) # {} /\ ~(UNION ToSet(hir.ranges) \subseteq Printable)
      [] hir.kind = "concat" ->
            LET infos == [i \in DOMAIN hir.parts |-> Decompose[hir.parts[i]]]
                ends  == [i \in DOMAIN infos |-> [infos[i] EXCEPT !.first = infos[i].last]]
            IN  \/ BeginsUnknown(infos, hir.parts)
                \/ BeginsUnknown(Reverse(ends), Reverse(hir.parts))
                \/ \E p \in ToSet(hir.parts) : hides[p]
      [] hir.kind = "repetition" ->
            \/ hir.min >= 2 /\ MinLen[hir.sub] = 0
            \/ hides[hir.sub]
      [] hir.kind = "capture"     -> hides[hir.sub]
      [] hir.kind = "alternation" -> \E a \in ToSet(hir.alts) : hides[a]
      [] OTHER                    -> FALSE

HidesAnEdge[hir \in Hirs] == HidesAnEdgeFrom(HidesAnEdge, hir)

\* A sequence at the top is joined to nothing: only its parts may hide an edge.
JoinsAHiddenEdge(hir) ==
    IF hir.kind = "concat" THEN \E p \in ToSet(hir.parts) : HidesAnEdge[p] ELSE HidesAnEdge[hir]
=============================================================================
