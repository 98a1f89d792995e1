------------------------------ MODULE MCParser ------------------------------
(***************************************************************************)
(* Tokens of every kind for ParserProperties, with every text up to a      *)
(* length over a small alphabet.                                           *)
(***************************************************************************)
EXTENDS ParserProperties, SequencesExt

MCChar ==
  {"n", "x", "t", "r", "u", "e", ".", "_", NL} \cup Digits
    \cup {Escaped[c] : c \in DOMAIN Escaped}
MCFold == [c \in MCChar |-> c]
Token(kind, texts) == {[kind |-> kind, text |-> t] : t \in texts}

(* as_slice pads with NULs: a text that has one has nothing else after it.  *)
StringTexts ==
  SeqOf({"n", "x", Backslash, "dq"}, 6)
    \cup {<<"x", NUL, NUL>>, <<Backslash, NUL>>, <<"x", Backslash, "n", NUL>>}
NumberTexts == SeqOf({"0", "1", "9", ".", "_"}, 4) \ {<<>>}

MCTokens ==
  {NoToken} \cup Token("IDENT", {<<"x">>}) \cup Token("NULL", {<<>>})
    \cup Token("LITERAL_BOOLEAN", {<<"t", "r", "u", "e">>, <<"x">>})
    \cup Token("LITERAL_CHAR", SeqOf({"n", "x", Backslash}, 3))
    \cup Token("LITERAL_STRING", StringTexts)
    \cup Token("LITERAL_NUMBER", NumberTexts)
=============================================================================
