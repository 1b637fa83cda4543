---------------------------- MODULE MCTextSearch ----------------------------
(* Two documents of at most two pages, windows of four characters that       *)
(* overlap by two; letters of one and two bytes and both cases, two blanks.  *)
EXTENDS TextSearch

MCByte       == {"a", "b", "B", " ", "lf", "ff", "c3", "a9", "["}
MCChar       == {"a", "b", "B", "aacute", " ", "lf", "ff"}
MCWhitespace == {" ", "lf", "ff"}
MCControl    == {"lf", "ff"}
MCAsciiBlank == {" ", "lf", "ff"}
MCPrintable  == {"a", "b", "B", " ", "["}
MCLower      == [b \in MCByte |-> IF b = "B" THEN "b" ELSE b]
MCUtf8       == [c \in MCChar |-> IF c = "aacute" THEN <<"c3", "a9">> ELSE <<c>>]
MCDeunicode  == [c \in MCChar |-> IF c = "aacute" THEN <<"a">> ELSE <<c>>]

MCDocs     == {1, 2}
MCFilename == <<<<"B", "a">>, <<"a", " ", "b">>>>
MCTexts ==
    <<{<<"a", "b", "a", "B", "a", "b", "b">>, <<"b", " ", "lf", "a", "ff", "a", "b">>},
      {<<"a", "b", " ", "a">>, <<"aacute", "b", "aacute">>}>>

MCQueries ==
    {<<>>, <<" ">>, <<"a">>, <<"b">>, <<"a", "b">>, <<"b", " ", "lf">>, <<"B", "a", "b">>, <<" ", "lf", "a">>,
     <<"aacute", "b">>, <<"b", " ", "a">>, <<"b", "b">>, <<"a", "b", "a">>}

Re(source, hir) == [source |-> source, hir |-> hir]
AorB == Class(<<{"a"}, {"b"}>>)
Lit(s) == Literal(s)
MCPatterns ==
    {Re(<<>>, Empty), Re(<<"a">>, Lit(<<"a">>)), Re(<<"B", "a">>, Lit(<<"B", "a">>)),
     Re(<<"[", "a">>, Concat(<<AorB, Lit(<<"a">>)>>)),
     Re(<<"a", "[", "b">>, Concat(<<Lit(<<"a">>), AorB, Lit(<<"a">>)>>)),
     Re(<<"b", " ", " ">>, Lit(<<"b", " ", "lf", "a">>)),
     Re(<<"[", " ">>, Repetition(AorB, 2, Unbounded)),
     Re(<<"a", " ", "b">>, Alternation(<<Lit(<<"b", "b">>), Lit(<<" ", "a">>)>>))}
=============================================================================
