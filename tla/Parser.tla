------------------------------- MODULE Parser -------------------------------
(***************************************************************************)
(* ps_expr of parser.c, which is ps_literal: the first token is made an    *)
(* expression, or refused.  The loop over the characters of a string is    *)
(* one action per iteration; the text it builds is an a_string of          *)
(* AString.tla, with its block.                                            *)
(*                                                                         *)
(* An operator whose name begins with Bad is no part of the specification: *)
(* it is a plausible slip in the operator that follows it.                 *)
(***************************************************************************)
EXTENDS AString

CONSTANTS
  Tokens,   (* the tokens that ps_peek may find: kind and text              *)
  IntMax    (* 2^63 - 1                                                     *)

Backslash == "bs"
DigitsInOrder == <<"0", "1", "2", "3", "4", "5", "6", "7", "8", "9">>
Digits == {DigitsInOrder[i] : i \in 1 .. 10}

(* resolve_escape: the characters it knows, and what they stand for.         *)
Escaped == [a |-> "bel", b |-> "bksp", e |-> "esc", n |-> NL, r |-> "cr",
            t |-> "tab", bs |-> Backslash, sq |-> "sq", dq |-> "dq"]

NoToken == [kind |-> "NONE", text |-> <<>>]
LiteralKinds == {"LITERAL_CHAR", "LITERAL_STRING", "LITERAL_NUMBER",
                 "LITERAL_BOOLEAN"}

ASSUME ParserAssumption ==
  /\ \A c \in DOMAIN Escaped : Escaped[c] \in Char
  /\ \A t \in Tokens : t.text \in Seq(Byte)
  /\ \A t \in Tokens : t.kind = "LITERAL_NUMBER" => t.text # <<>>
  /\ \A t \in Tokens : \A k, l \in 1 .. Len(t.text) :    \* as_slice pads
       k <= l /\ t.text[k] = NUL => t.text[l] = NUL
  /\ NoToken \in Tokens
  /\ IntMax \in Nat

VARIABLES
  tok,     (* what ps_peek returns: the token at Parser.cur, if there is one *)
  at,      (* where ps_literal is                                           *)
  i,       (* the loop variable over a string's characters                  *)
  res,     (* the string built so far, or an invalid one                    *)
  expr,    (* the MaybeExpr returned                                        *)
  diag     (* the last diagnostic; Parser.error_reported if there is one    *)

psVars == <<tok, at, i, res, expr, diag>>

Literal(type, value) == [type |-> type, value |-> value]
NoExpr == Literal("none", "none")
NoDiag == "none"
Diagnostics ==
  {"too short", "too long", "bad escape", "last is escape", "float range",
   "float invalid", "int range", "int invalid", "number invalid"}
Ended == {"have", "none"}

text == tok.text

(* ps_diag_at, and NO_EXPR.                                                  *)
BadRefuse(d) == at' = "none" /\ UNCHANGED <<expr, diag>>     \* not reported
Refuse(d) == diag' = d /\ at' = "none" /\ UNCHANGED expr
Have(type, value) == expr' = Literal(type, value) /\ at' = "have"
Return(type, value) == Have(type, value) /\ UNCHANGED diag

-----------------------------------------------------------------------------
(* Numbers.                                                                 *)

is_int(s) ==
  /\ s[1] \in Digits
  /\ \A k \in 2 .. Len(s) : s[k] \in Digits \cup {"_"}
is_float(s) ==
  /\ s[1] \in Digits \cup {"."}
  /\ ~is_int(s)
  /\ \A k \in 1 .. Len(s) : s[k] \in Digits \cup {".", "_"}
  /\ \A k, l \in 1 .. Len(s) : s[k] = "." /\ s[l] = "." => k = l

(* What strtod and strtoll read of a text of digits, dots and underscores:   *)
(* the longest beginning that is a number.                                   *)
Longest(s, IsNumber(_)) ==
  CHOOSE n \in 0 .. Len(s) :
    /\ n = 0 \/ IsNumber(SubSeq(s, 1, n))
    /\ \A m \in n + 1 .. Len(s) : ~IsNumber(SubSeq(s, 1, m))

IsDecimal(s) ==
  /\ \A k \in 1 .. Len(s) : s[k] \in Digits \cup {"."}
  /\ \E k \in 1 .. Len(s) : s[k] \in Digits
  /\ \A k, l \in 1 .. Len(s) : s[k] = "." /\ s[l] = "." => k = l
strtodEnd(s) == Longest(s, IsDecimal)

(* Base 0: a 0 in front makes the number octal.                              *)
Base(s) == IF s[1] = "0" THEN 8 ELSE 10
DigitValue(c) == (CHOOSE k \in 1 .. 10 : DigitsInOrder[k] = c) - 1
DigitsOf(base) == {DigitsInOrder[k] : k \in 1 .. base}
strtollEnd(s) ==
  LET IsNumeral(t) == \A k \in 1 .. Len(t) : t[k] \in DigitsOf(Base(s))
  IN  Longest(s, IsNumeral)
Numeral(s) ==
  LET value[n \in 0 .. strtollEnd(s)] ==
        IF n = 0 THEN 0 ELSE Base(s) * value[n - 1] + DigitValue(s[n])
  IN  value[strtollEnd(s)]
strtoll(s) == IF Numeral(s) > IntMax THEN IntMax ELSE Numeral(s)

-----------------------------------------------------------------------------

PsInit ==
  /\ tok \in Tokens
  /\ at = "peek" /\ i = 0
  /\ res = Invalid
  /\ expr = NoExpr
  /\ diag = NoDiag

Peek(kind) == at = "peek" /\ tok.kind = kind

NoLiteral ==
  /\ at = "peek" /\ tok.kind \notin LiteralKinds \cup {"NULL"}
  /\ at' = "none"
  /\ UNCHANGED <<tok, i, res, expr, diag>>

NullLiteral ==
  /\ Peek("NULL") /\ Return("null", "null")
  /\ UNCHANGED <<tok, i, res>>

BoolLiteral ==
  /\ Peek("LITERAL_BOOLEAN") /\ Return("bool", text = <<"t", "r", "u", "e">>)
  /\ UNCHANGED <<tok, i, res>>

BadCharLiteral ==       \* the -1 of resolve_escape is taken for a character
  /\ Peek("LITERAL_CHAR") /\ text # <<>>
  /\ IF text[1] = Backslash
     THEN Return("char", IF Len(text) > 1 /\ text[2] \in DOMAIN Escaped
                         THEN Escaped[text[2]] ELSE "minus one")
     ELSE Return("char", text[1])
  /\ UNCHANGED <<tok, i, res>>
(* A literal that is too long is reported, and goes on with a character that *)
(* nothing has set; one that begins with an escape may have any length.      *)
CharLiteral ==
  /\ Peek("LITERAL_CHAR")
  /\ IF text = <<>> THEN Refuse("too short")
     ELSE IF text[1] = Backslash
          THEN IF Len(text) > 1 /\ text[2] \in DOMAIN Escaped
               THEN Return("char", Escaped[text[2]]) ELSE Refuse("bad escape")
     ELSE IF Len(text) > 1
          THEN diag' = "too long" /\ \E c \in Byte : Have("char", c)
     ELSE Return("char", text[1])
  /\ UNCHANGED <<tok, i, res>>

BeginString ==
  /\ Peek("LITERAL_STRING")
  /\ res' = as_new /\ i' = 0
  /\ at' = "string"
  /\ UNCHANGED <<tok, expr, diag>>

Char_i == text[i + 1]
InString == at = "string" /\ i < Len(text)

PlainChar ==
  /\ InString /\ Char_i # Backslash
  /\ res' = as_append_char(res, Char_i)
  /\ i' = i + 1
  /\ UNCHANGED <<tok, at, expr, diag>>

BadEscapedChar ==       \* the character after the escape is read once more
  /\ InString /\ Char_i = Backslash /\ i < Len(text) - 1
  /\ text[i + 2] \in DOMAIN Escaped
  /\ res' = as_append_char(res, Escaped[text[i + 2]])
  /\ i' = i + 1
  /\ UNCHANGED <<tok, at, expr, diag>>
EscapedChar ==
  /\ InString /\ Char_i = Backslash /\ i < Len(text) - 1
  /\ text[i + 2] \in DOMAIN Escaped
  /\ res' = as_append_char(res, Escaped[text[i + 2]])
  /\ i' = i + 2
  /\ UNCHANGED <<tok, at, expr, diag>>

BadUnknownEscape ==     \* the string is not freed
  /\ InString /\ Char_i = Backslash
  /\ IF i = Len(text) - 1 THEN Refuse("last is escape")
     ELSE text[i + 2] \notin DOMAIN Escaped /\ Refuse("bad escape")
  /\ UNCHANGED <<tok, i, res>>
BadRetry ==             \* reported, and read again
  /\ InString /\ Char_i = Backslash
  /\ i < Len(text) - 1 => text[i + 2] \notin DOMAIN Escaped
  /\ diag' = "bad escape"
  /\ UNCHANGED <<tok, at, i, res, expr>>
UnknownEscape ==
  /\ InString /\ Char_i = Backslash
  /\ IF i = Len(text) - 1 THEN Refuse("last is escape")
     ELSE text[i + 2] \notin DOMAIN Escaped /\ Refuse("bad escape")
  /\ res' = Invalid
  /\ UNCHANGED <<tok, i>>

BadEndString ==         \* one character too early
  /\ at = "string" /\ i >= Len(text) - 1
  /\ Return("string", as_dupe(res))
  /\ res' = Invalid
  /\ UNCHANGED <<tok, i>>
EndString ==
  /\ at = "string" /\ i >= Len(text)
  /\ Return("string", as_dupe(res))
  /\ res' = Invalid
  /\ UNCHANGED <<tok, i>>

(* The range error is looked for only where the text was not read to its end. *)
(* The value of a float is left out, and with it whether it is in range.     *)
BadNumberLiteral ==     \* a text that strtoll reads in part is taken
  /\ Peek("LITERAL_NUMBER")
  /\ IF is_float(text)
     THEN IF strtodEnd(text) = Len(text) THEN Return("float", text)
          ELSE Refuse("float range") \/ Refuse("float invalid")
     ELSE IF is_int(text) THEN Return("int", strtoll(text))
     ELSE Refuse("number invalid")
  /\ UNCHANGED <<tok, i, res>>
NumberLiteral ==
  /\ Peek("LITERAL_NUMBER")
  /\ IF is_float(text)
     THEN IF strtodEnd(text) = Len(text) THEN Return("float", text)
          ELSE Refuse("float range") \/ Refuse("float invalid")
     ELSE IF is_int(text)
          THEN IF strtollEnd(text) = Len(text) THEN Return("int", strtoll(text))
               ELSE IF Numeral(text) > IntMax THEN Refuse("int range")
               ELSE Refuse("int invalid")
     ELSE Refuse("number invalid")
  /\ UNCHANGED <<tok, i, res>>

String == BeginString \/ PlainChar \/ EscapedChar \/ UnknownEscape \/ EndString
PsNext ==
  \/ NoLiteral \/ NullLiteral \/ BoolLiteral \/ CharLiteral \/ NumberLiteral
  \/ String

PsSpec == PsInit /\ [][PsNext]_psVars
PsFairSpec == PsSpec /\ WF_psVars(PsNext)
=============================================================================
