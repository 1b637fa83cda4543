------------------------------ MODULE BigramQuery ------------------------------
(***************************************************************************)
(* From a query to the chunks that have to be looked at: the tree of       *)
(* BigramTrees is made, evaluated against the columns the index keeps, and *)
(* what it excludes is never verified. Every query is asked against every  *)
(* text; which of them are in an index is the matter of TextSearch.        *)
(***************************************************************************)
EXTENDS BigramTrees

CONSTANTS
    Texts,           \* the text_norm_ascii of the chunks of the base
    Terms,           \* the normalised literal and fuzzy queries
    Expressions,     \* the parsed regular expressions
    MaxUntracked     \* how many of a query's bigrams the index may have dropped

ASSUME QueryAssumption ==
    /\ MaxUntracked \in Nat
    /\ \A t \in Texts \cup Terms : t \in Seq(Byte) /\ Lowercase(t) = t
    /\ Expressions \subseteq Hirs

VARIABLES
    request,     \* the query in hand
    query,       \* its bigram tree
    candidates,  \* the chunks the prefilter lets through
    phase        \* how far the query has come

vars == <<request, query, candidates, phase>>

-----------------------------------------------------------------------------
CandidateSet(q, untracked) == {t \in Texts : Includes(q, untracked, t)}

NoRequest == [mode |-> "none"]
Idle      == phase = "idle"

Init ==
    /\ request = NoRequest
    /\ query = AnyQuery
    /\ candidates = {}
    /\ phase = "idle"

Ask(mode, pattern, q) ==
    /\ Idle
    /\ request' = [mode |-> mode, pattern |-> pattern]
    /\ query' = q
    /\ phase' = "decomposed"
    /\ UNCHANGED candidates

SearchLiteral(term) == Ask("literal", term, LiteralQuery(term))
SearchFuzzy(term)   == Ask("fuzzy", term, FuzzyQuery(term))
SearchRegex(hir)    == Ask("regex", hir, Decompose[hir].query)

\* The index the base holds keeps some of the bigrams and not others.
LookUp(untracked) ==
    /\ phase = "decomposed"
    /\ candidates' = CandidateSet(query, untracked)
    /\ phase' = "looked_up"
    /\ UNCHANGED <<request, query>>

Answer ==
    /\ phase = "looked_up"
    /\ request' = NoRequest
    /\ query' = AnyQuery
    /\ candidates' = {}
    /\ phase' = "idle"

Untracked == UNION {kSubset(n, BigramsOf[query]) : n \in 0 .. MaxUntracked}

Next ==
    \/ \E term \in Terms : SearchLiteral(term)
    \/ \E term \in Terms : SearchFuzzy(term)
    \/ \E hir \in Expressions : SearchRegex(hir)
    \/ \E untracked \in Untracked : LookUp(untracked)
    \/ Answer

Spec == Init /\ [][Next]_vars

-----------------------------------------------------------------------------
(* Properties.                                                             *)

IsNormalFrom(normal, q) ==
    \/ IsBigram(q) /\ ToSet(q.key) \subseteq {b \in Printable : Lower[b] = b}
    \/ /\ q.op \in {"and", "or"}
       /\ Cardinality(q.children) >= 2
       /\ \A c \in q.children : c.op # q.op /\ normal[c]

IsNormal[q \in Trees] == IsNormalFrom(IsNormal, q)

\* simplify_and and simplify_or leave no tree with Any inside, a node under a
\* node of its own kind, or a node with fewer than two children, and every key
\* is one that the index can hold.
TypeOK ==
    /\ phase \in {"idle", "decomposed", "looked_up"}
    /\ query = AnyQuery \/ IsNormal[query]
    /\ candidates \subseteq Texts
    /\ Idle <=> request = NoRequest

LookedUp(mode) == phase = "looked_up" /\ request.mode = mode

\* A chunk that contains the literal is a candidate, whichever of its bigrams
\* the index dropped (bigram.rs, "bit i set iff item i might contain pattern").
LiteralPrefilterSound ==
    LookedUp("literal") =>
        \A t \in Texts : request.pattern \in SubSeqs(t) => t \in candidates

\* A chunk that lacks no more of the term's bigrams than the typos it may have,
\* and does not lack them all, is a candidate: the probes and the subsets that
\* are required of them never ask for more.
FuzzyToleratesMissingBigrams ==
    LookedUp("fuzzy") =>
        LET keys == BigramKeys(request.pattern)
            Lacks(t) == {i \in DOMAIN keys : Bigram("consec", keys[i]) \notin TextBigrams(t)}
        IN  \A t \in Texts :
               \/ t \in candidates
               \/ Cardinality(Lacks(t)) > MaxTypos(request.pattern)
               \/ Lacks(t) # {} /\ Lacks(t) = DOMAIN keys

\* A chunk that the expression matches is a candidate, for the expressions
\* without a hidden edge, whichever of the bigrams the index dropped.
RegexPrefilterSound ==
    LookedUp("regex") /\ ~JoinsAHiddenEdge(request.pattern) =>
        \A t \in Texts : Matches(request.pattern, t) => t \in candidates

\* "walks the HIR to extract guaranteed bigram keys" (bigram_query.rs, module
\* comment): a chunk that the expression matches is always a candidate.
BigramsAreGuaranteed ==
    LookedUp("regex") =>
        \A t \in Texts : Matches(request.pattern, t) => t \in candidates
=============================================================================
