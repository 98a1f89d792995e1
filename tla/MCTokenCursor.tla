--------------------------- MODULE MCTokenCursor ---------------------------
(***************************************************************************)
(* Every stream of up to two tokens and EOF, and one of three, for          *)
(* TokenCursorProperties.                                                  *)
(***************************************************************************)
EXTENDS TokenCursorProperties, SequencesExt

MCKinds == {"IDENT", "NEWLINE", "ADD", "EOF"}
MCStreams ==
  {<<>>, <<"IDENT", "ADD", "IDENT", "EOF">>}
    \cup {Append(s, "EOF") : s \in SeqOf(MCKinds \ {"EOF"}, 2)}
=============================================================================
