------------------------------ MODULE MCLexer ------------------------------
(***************************************************************************)
(* Small alphabets for LexerProperties, one for each part of the scanner,  *)
(* with every text up to a length over each, and some longer texts.        *)
(***************************************************************************)
EXTENDS LexerProperties, SequencesExt

MCLetters == {"i", "f", "I", "t", "r", "u", "e"}
MCLower == [c \in MCLetters |-> IF c = "I" THEN "i" ELSE c]
MCOthers == {"%"}
MCKeywords == {<<"i", "f">>}

(* Symbols and comments; the symbols that open no comment, a character less. *)
SymbolSources ==
  SeqOf({"/", "*", "=", NL, "sp"}, 5) \cup SeqOf({"/", "=", ">", "!", NL, "sp"}, 4)

(* Literals, escapes and NUL; seven characters make room for a run of three  *)
(* backslashes inside a literal that has more text after it.                 *)
LiteralSources ==
  SeqOf({"dq", "sq", Backslash, NL, NUL, "i"}, 5)
    \cup SeqOf({"dq", Backslash, NL}, 7)

(* Keywords, numbers, identifiers; the longer texts are the Boolean words.  *)
WordSources ==
  SeqOf({"i", "f", "I", "_", ".", "1", "%", "sp", Backslash, "("}, 4)
    \cup {<<"t", "r", "u", "e", c>> : c \in {"sp", "r", "dq"}}

Texts == SymbolSources \cup LiteralSources \cup WordSources
=============================================================================
