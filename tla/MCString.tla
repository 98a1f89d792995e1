------------------------------ MODULE MCString ------------------------------
(***************************************************************************)
(* Two variables and blocks of a few cells for StringCalls.                *)
(***************************************************************************)
EXTENDS StringRisks, TLC

MCSymmetry == Permutations(Names)   \* no action and no property names one
MCChar == {"a", "A", " ", NL}
MCBlank == {" ", NL}
MCLower == [c \in MCChar |-> IF c = "A" THEN "a" ELSE c]
MCUpper == [c \in MCChar |-> IF c = "a" THEN "A" ELSE c]
MCTexts == {<<>>, <<NL, "A", NL>>}
MCAdded == {"A"}
MCFiles == {<<"a", " ", NL>>, <<"A", NUL, NL>>, <<NUL, NL>>}
=============================================================================
