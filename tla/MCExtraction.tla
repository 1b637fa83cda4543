---------------------------- MODULE MCExtraction ----------------------------
(* Windows of five characters that overlap by three. Letters of one and two  *)
(* bytes and both cases, three blanks, one of them not white, a form feed.   *)
EXTENDS Extraction

MCByte       == {"a", "b", "B", " ", "lf", "ff", "bel", "c3", "a9"}
MCChar       == {"a", "B", "eacute", " ", "lf", "bel", "ff"}
MCWhitespace == {" ", "lf", "ff"}
MCControl    == {"lf", "bel", "ff"}
MCAsciiBlank == {" ", "lf", "bel", "ff"}
MCLower      == [b \in MCByte |-> IF b = "B" THEN "b" ELSE b]
MCUtf8       == [c \in MCChar |-> IF c = "eacute" THEN <<"c3", "a9">> ELSE <<c>>]
MCDeunicode  == [c \in MCChar |-> IF c = "eacute" THEN <<"b", "a">> ELSE <<c>>]

MCOutputs ==
    BoundedSeq({"a", " "}, 10) \cup BoundedSeq({"a", " ", "ff"}, 7)
    \cup BoundedSeq(MCChar, 4) \cup BoundedSeq({"B", "lf", "bel"}, 6)
=============================================================================
