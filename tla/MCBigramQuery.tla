----------------------------- MODULE MCBigramQuery -----------------------------
(* Three letters, a capital one and a byte outside printable ASCII; short   *)
(* texts and terms; expressions of up to three levels.                      *)
EXTENDS BigramQuery

MCByte      == {"a", "b", "c", "A", "del"}
MCPrintable == {"a", "b", "c", "A"}
MCLower     == [b \in MCByte |-> IF b = "A" THEN "a" ELSE b]

MCTexts == BoundedSeq({"a", "b"}, 5) \cup BoundedSeq({"a", "b", "c"}, 4) \cup BoundedSeq({"a", "b", "del"}, 3)
MCTerms == (BoundedSeq({"a", "b"}, 6)
            \cup BoundedSeq({"a", "b", "c"}, 4) \cup BoundedSeq({"a", "b", "del"}, 3)) \ {<<>>}

Dot      == Class(<<MCByte>>)
AorB     == Class(<<{"a"}, {"b"}>>)
Mixed    == Class(<<{"b"}, {"del"}>>)
Wide     == UnicodeClass(<<{"a", "b", "del"}>>)
Star(h)  == Repetition(h, 0, Unbounded)
Plus(h)  == Repetition(h, 1, Unbounded)
Maybe(h) == Repetition(h, 0, 1)
Twice(h) == Repetition(h, 2, 2)

Literals == {Literal(<<"a">>), Literal(<<"A", "b">>), Literal(<<"b", "a", "b">>), Literal(<<"del">>)}
Atoms    == Literals \cup {AorB, Dot, Mixed, Wide}
Simple   == Atoms \cup {Maybe(h) : h \in Atoms} \cup {Plus(h) : h \in Atoms}
            \cup {Star(Dot), Twice(Literal(<<"a">>)), Twice(AorB), Look("start"), Look("end")}

\* The parser joins neighbouring literals.
Sequences2(S, T) == {Concat(<<s, t>>) : <<s, t>> \in {p \in S \X T : ~(p[1].kind = "literal" /\ p[2].kind = "literal")}}
Edges  == {Literal(<<"b">>), AorB, Dot, Maybe(Literal(<<"a">>)), Star(Dot)}
Groups == {Capture(s) : s \in Sequences2(Edges, Edges)} \cup {Capture(Maybe(AorB))}
Choices2 == {Alternation(<<Literal(<<"a", "b">>), h>>) :
                h \in {Empty, Star(Dot), Plus(Dot), Plus(AorB), Look("end"), Concat(<<AorB, Literal(<<"a">>)>>)}}

\* Groups joined to something.
MCGrouped ==
    {Concat(<<x, g>>) : x \in {Literal(<<"a">>), AorB}, g \in Groups \cup Choices2}
    \cup {Concat(<<g, z>>) : g \in Groups \cup Choices2, z \in {Literal(<<"a">>), AorB}}
    \cup {Twice(g) : g \in Groups} \cup {Plus(g) : g \in Groups}

MCExpressions ==
    Simple \cup Sequences2(Simple, Simple) \cup Choices2 \cup MCGrouped
    \cup {Concat(<<x, y, z>>) : x \in {AorB, Maybe(Literal(<<"a">>))}, y \in Simple \ Literals, z \in Edges}
=============================================================================
