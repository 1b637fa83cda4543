------------------------------ MODULE ByteStrings ------------------------------
(***************************************************************************)
(* Bytes, and the order of sequences: what the text of a document and the  *)
(* bigrams of a query have in common. Filtering and sorting are written    *)
(* over positions, as cheap_rank does it, and loops as functions of the    *)
(* number of turns, so that the theorems can reason about them.            *)
(***************************************************************************)
EXTENDS Integers, FiniteSets, Sequences, SequencesExt

CONSTANTS
    Byte,    \* the bytes that occur in an encoding or a folding
    Lower    \* u8::to_ascii_lowercase

ASSUME LowerAssumption == Lower \in [Byte -> Byte] /\ \A b \in Byte : Lower[Lower[b]] = Lower[b]

Lowercase(s) == [i \in DOMAIN s |-> Lower[s[i]]]

\* The characters of text in code, one after the other.
Spelled(text, code) ==
    LET out[n \in 0 .. Len(text)] == IF n = 0 THEN <<>> ELSE out[n - 1] \o code[text[n]]
    IN  out[Len(text)]

AtMost(n, limit) == IF n <= limit THEN n ELSE limit

\* Where sub is found in s (memmem), as a zero-based offset.
Occurrences(sub, s) ==
    {i \in 0 .. Len(s) - Len(sub) : \A k \in DOMAIN sub : s[i + k] = sub[k]}

-----------------------------------------------------------------------------
(* Order.                                                                  *)

\* Tuples of numbers of the same length, the first difference decides.
LexLess(a, b) == \E i \in DOMAIN a : a[i] < b[i] /\ \A j \in 1 .. i - 1 : a[j] = b[j]

\* The members of DOMAIN key in the order of their keys, which differ.
SortedBy(key) ==
    LET rank == [i \in DOMAIN key |-> Cardinality({j \in DOMAIN key : LexLess(key[j], key[i])})]
    IN  [k \in 1 .. Cardinality(DOMAIN key) |-> CHOOSE i \in DOMAIN key : rank[i] = k - 1]

\* The elements of s at the positions at, in the order they have there.
Sift(s, at) ==
    LET from == SortedBy([i \in at |-> <<i>>]) IN [k \in DOMAIN from |-> s[from[k]]]
===============================================================================
