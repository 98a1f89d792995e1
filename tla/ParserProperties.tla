-------------------------- MODULE ParserProperties --------------------------
(***************************************************************************)
(* What ps_literal must do, said of the whole text of a token and not of   *)
(* the loop that reads it; and claims of the code that it does not keep.   *)
(***************************************************************************)
EXTENDS Parser, FiniteSets

ExprOK ==
  CASE expr.type = "string" -> expr.value \in AStrings
    [] expr.type = "char"   -> expr.value \in Byte
    [] expr.type = "int"    -> expr.value \in 0 .. IntMax
    [] expr.type = "bool"   -> expr.value \in BOOLEAN
    [] OTHER                -> expr.type \in {"none", "null", "float"}
PsTypeOK ==
  /\ tok.text \in Seq(Byte)
  /\ at \in {"peek", "string"} \cup Ended
  /\ i \in Nat
  /\ res \in AStrings
  /\ diag \in Diagnostics \cup {NoDiag}
  /\ ExprOK

-----------------------------------------------------------------------------
(* What a text means: a backslash is an escape if an even number of them    *)
(* comes just before it, and what follows an escape is replaced.            *)

BackslashesBefore(t, k) ==
  (k - 1) - (CHOOSE n \in 0 .. k - 1 :
               /\ n = 0 \/ t[n] # Backslash
               /\ \A m \in n + 1 .. k - 1 : t[m] = Backslash)
IsReplaced(t, k) == BackslashesBefore(t, k) % 2 = 1
IsEscape(t, k) == t[k] = Backslash /\ ~IsReplaced(t, k)

WellFormed(t) ==
  /\ \A k \in 1 .. Len(t) : IsReplaced(t, k) => t[k] \in DOMAIN Escaped
  /\ t # <<>> => ~IsEscape(t, Len(t))
Meaning(t) ==
  LET kept == {k \in 1 .. Len(t) : ~IsEscape(t, k)}
      nth(n) == CHOOSE k \in kept : Cardinality({l \in kept : l <= k}) = n
  IN  [n \in 1 .. Cardinality(kept) |->
         IF IsReplaced(t, nth(n)) THEN Escaped[t[nth(n)]] ELSE t[nth(n)]]

(* The loop never splits an escape: what it has built is what the characters *)
(* it has passed mean, however often the block has grown; and the literal    *)
(* is the meaning of the whole text.                                         *)
StringIsTranslated ==
  /\ at = "string" => /\ i <= Len(text)
                      /\ Value(res) = Meaning(SubSeq(text, 1, i))
  /\ expr.type = "string" => Value(expr.value) = Meaning(text)

(* A string is refused if and only if an escape in it is incomplete or      *)
(* unknown, wherever it stands.                                             *)
StringsAreJudgedWhole ==
  tok.kind = "LITERAL_STRING" /\ at \in Ended => (at = "have" <=> WellFormed(text))

(* Both of a text: what it means, or that it means nothing.                 *)
StringsAreTranslated == StringIsTranslated /\ StringsAreJudgedWhole

(* The block that the loop fills lives until it ends, and no longer: all    *)
(* ways out, the errors in the middle of a text among them, free it.        *)
NothingLeaks == as_valid(res) <=> at = "string"

(* The node and the half-made string are in step with the place in the loop: *)
(* an inductive invariant, with the types.                                  *)
ParserInv == PsTypeOK /\ NothingLeaks

(* A literal is refused with a diagnostic, or gives an expression; only a   *)
(* character that is too long has both.                                     *)
RefusedIsReported ==
  at \in Ended /\ tok.kind \in LiteralKinds =>
    CASE at = "none" -> diag # NoDiag /\ expr.type = "none"
      [] at = "have" -> expr.type # "none" /\ (diag # NoDiag => diag = "too long")

(* A number is an expression only if all of its text was read: no digit is  *)
(* dropped because it is none of the base that a leading 0 selects.         *)
NumbersAreWhole ==
  /\ expr.type = "int" => \A k \in 1 .. Len(text) :
                            text[k] \in DigitsOf(IF text[1] = "0" THEN 8 ELSE 10)
  /\ expr.type = "float" => \A k \in 1 .. Len(text) : text[k] \in Digits \cup {"."}

(* Every token is judged in the end.                                        *)
PsTermination == <>(at \in Ended)

-----------------------------------------------------------------------------
(* A claim that the code does not keep.                                     *)

(* parser.c:407: "int literal \"%s\" is either too large or too small!".    *)
RangeIsReported == expr.type = "int" => Numeral(text) <= IntMax
=============================================================================
