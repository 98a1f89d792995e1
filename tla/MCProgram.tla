----------------------------- MODULE MCProgram -----------------------------
(***************************************************************************)
(* Texts of one kind of literal each, every one up to a length, for        *)
(* ProgramProperties; and texts of words.                                  *)
(***************************************************************************)
EXTENDS ProgramProperties, SequencesExt

MCLetters == {"n", "x", "t", "r", "u", "e", "l", "N", "f", "a", "s"}
MCLower == [c \in MCLetters |-> IF c = "N" THEN "n" ELSE c]
MCOthers == {"%"}
MCKeywords == {<<"n", "u", "l", "l">>, <<"e", "n">>}
MCPrintable ==
  (MCLetters \cup MCOthers \cup Lx!Named \cup {"bs"}) \ {"nul", "nl", "tab"}

MCChar ==
  (Lx!SourceChar \ {"nul"}) \cup {"bel", "bksp", "esc", "cr"}
MCFold == [c \in MCChar |-> c]
MCTokens == {NoToken}

Words ==
  {<<>>, <<"%">>, <<"e", "n", "sp", "x">>, <<"n", "u", "l", "l">>,
   <<"N", "u", "l", "l", "sp", "x", "_">>, <<"t", "r", "u", "e">>,
   <<"f", "a", "l", "s", "e">>, <<"x", "nl", "1", "sp", "%">>,
   <<"dq", "x", "dq", "1", "!">>}
MCSources ==
  SeqOf({"dq", "bs", "n", "x", "sp"}, 5) \cup SeqOf({"dq", "bs", "n", "nul"}, 5)
    \cup SeqOf({"sq", "bs", "n", "x"}, 5)
    \cup SeqOf({"0", "1", "9", ".", "_", "nl"}, 4)
    \cup Words
=============================================================================
