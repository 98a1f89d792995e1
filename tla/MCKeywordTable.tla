--------------------------- MODULE MCKeywordTable ---------------------------
(***************************************************************************)
(* Two lexers of the same words, and main's parser.                        *)
(***************************************************************************)
EXTENDS KeywordTable

MCLowered == [w \in Words |-> IF w = "LET" THEN "let" ELSE w]
MCSrc == [l \in Lexers |-> <<"LET", "x", "let">>]
=============================================================================
