------------------------------ MODULE Program ------------------------------
(***************************************************************************)
(* main.c: one run of cimi.  The text is read, Lexer.tla makes tokens of   *)
(* it, Parser.tla an expression of the first of them, the printer writes   *)
(* it, and main gives back what all of them have allocated.  The blocks on *)
(* the heap have names here, so that who owns what, and until when, is     *)
(* part of the behaviour.                                                  *)
(*                                                                         *)
(* An operator whose name begins with Bad is no part of the specification: *)
(* it is a plausible slip in the operator that follows it.                 *)
(***************************************************************************)
EXTENDS Parser

CONSTANTS
  Sources, Letters, Lower, Others, Keywords, U8,   (* of Lexer              *)
  Printable,   (* what isprint accepts                                      *)
  ShownMax     (* 64: no longer string is printed                           *)

VARIABLES
  src, cur, row, bol, pc, begin, len, delim, error, toks, spans,
  stage,     (* where main is                                               *)
  next,      (* the index of main's loop over the tokens                    *)
  kwt,       (* the global pointer: "NULL", or to a "table"               *)
  heap,      (* the blocks allocated and not yet freed                      *)
  misused,   (* history: blocks freed, or read, that were not on the heap   *)
  shown      (* what main has written of the expression                     *)

Lx == INSTANCE Lexer

(* A text is of the characters of the lexer, and the parser knows all these; *)
(* of its Tokens the program uses none, for its token is the first that the  *)
(* lexer has made.                                                           *)
ASSUME ProgramAssumption ==
  /\ Sources \subseteq Seq(Lx!SourceChar) /\ Lx!SourceChar \subseteq Byte
  /\ ShownMax \in Nat

lexVars ==
  <<src, cur, row, bol, pc, begin, len, delim, error, toks, spans>>
memVars == <<next, kwt, heap, misused, shown>>
vars == <<lexVars, psVars, stage, memVars>>

(* The blocks.  A keyword table is one block here, a row each in the code.   *)
Source == <<"source">>
Unread == <<"unread">>            \* as_read_file drops it when fread fails
FileName == <<"file name">>
KeywordTable == <<"keywords">>
Vector == <<"tokens">>
StringOf(k) == <<"token", k>>     \* the text of the k-th token
Result == <<"result">>            \* what ps_literal builds
LiteralString == <<"literal">>    \* the copy that C_Literal_new_string makes

Free(block) ==
  /\ heap' = heap \ {block}
  /\ misused' = IF block \in heap THEN misused ELSE misused \cup {block}

-----------------------------------------------------------------------------

Init ==
  /\ Lx!Init
  /\ tok = NoToken /\ at = "idle" /\ i = 0
  /\ res = Invalid /\ expr = NoExpr /\ diag = NoDiag
  /\ stage = "read"
  /\ next = 0 /\ kwt = "NULL"
  /\ heap = {} /\ misused = {}
  /\ shown = NoExpr

(* The source, the name of its file, and lx_new.                            *)
Read ==
  /\ stage = "read"
  /\ heap' = heap \cup {Source, FileName, KeywordTable}
  /\ kwt' = "table"
  /\ stage' = "lex"
  /\ UNCHANGED <<lexVars, psVars, next, misused, shown>>

(* A file that cannot be opened, for another reason than that it is missing, *)
(* or not be read to its end, is an empty text for the lexer.               *)
ReadUnreadable ==
  /\ stage = "read"
  /\ src' = <<>>
  /\ \/ heap' = heap \cup {FileName, KeywordTable}
     \/ heap' = heap \cup {FileName, KeywordTable, Unread}
  /\ kwt' = "table"
  /\ stage' = "lex"
  /\ UNCHANGED <<cur, row, bol, pc, begin, len, delim, error, toks, spans,
                 psVars, next, misused, shown>>

(* The file is missing, or there is no line on stdin.                        *)
ReadNothing ==
  /\ stage = "read"
  /\ stage' = "panic"
  /\ UNCHANGED <<lexVars, psVars, memVars>>

(* av_append, and the string of a token that lx_next_literal or              *)
(* lx_next_ident makes; the words that lx_next_token makes on its way are    *)
(* freed before it returns.                                                  *)
MakesString(t) == t.kind \in Lx!LiteralKinds \cup {"LITERAL_NUMBER", "IDENT"}
Appended ==
  LET k == Len(toks')
  IN  {Vector} \cup (IF MakesString(toks'[k]) THEN {StringOf(k)} ELSE {})

Tokenize ==
  /\ stage = "lex" /\ Lx!Next
  /\ heap' = IF Len(toks') > Len(toks) THEN heap \cup Appended ELSE heap
  /\ stage' = CASE pc' = "panic" -> "panic"
                [] pc' \in {"done", "failed"} -> "parse"
                [] OTHER -> "lex"
  /\ UNCHANGED <<psVars, next, kwt, misused, shown>>

(* The first token as the parser sees it: which keyword it is counts, and a  *)
(* Boolean has no text but its value.                                        *)
WordAt(k) == SubSeq(src, spans[k].from + 1, spans[k].to)
IsNull(k) == Lx!LowerWord(WordAt(k)) = <<"n", "u", "l", "l">>
FirstToken ==
  IF toks = <<>> THEN NoToken
  ELSE [kind |-> IF toks[1].kind = "KEYWORD" /\ IsNull(1) THEN "NULL"
                 ELSE toks[1].kind,
        text |-> toks[1].text]

(* ps_new and ps_peek; an error of the lexer is not looked at.               *)
BeginParse ==
  /\ stage = "parse" /\ at = "idle"
  /\ tok' = FirstToken
  /\ at' = "peek"
  /\ UNCHANGED <<lexVars, i, res, expr, diag, stage, memVars>>

OwnedByParser(r, e) ==
  (IF as_valid(r) THEN {Result} ELSE {})
    \cup (IF e.type = "string" THEN {LiteralString} ELSE {})

Parse ==
  /\ stage = "parse" /\ PsNext
  /\ heap' = (heap \ OwnedByParser(res, expr)) \cup OwnedByParser(res', expr')
  /\ stage' = CASE at' = "have" -> "print"
                [] at' = "none" -> "tokens"
                [] OTHER -> "parse"
  /\ UNCHANGED <<lexVars, next, kwt, misused, shown>>

-----------------------------------------------------------------------------
(* The printer, and C_Expr_free.                                            *)

UpToNul(t) ==
  SubSeq(t, 1, CHOOSE n \in 0 .. Len(t) :
                 /\ \A k \in 1 .. n : t[k] # Lx!NUL
                 /\ n = Len(t) \/ t[n + 1] = Lx!NUL)

(* A string with a NUL in it is printed up to there.                         *)
Printed ==
  IF expr.type # "string" THEN expr
  ELSE Literal("string",
                  IF expr.value.len > ShownMax THEN "<a very long string>"
                  ELSE UpToNul(Value(expr.value)))

(* The conversion for a printable character is %s: the character is taken    *)
(* for the address of a string.                                              *)
ReadsCharAsAddress == expr.type = "char" /\ expr.value \in Printable

PrintExpr ==
  /\ stage = "print"
  /\ IF ReadsCharAsAddress
     THEN stage' = "crash" /\ UNCHANGED <<shown, misused>>
     ELSE /\ shown' = Printed
          /\ stage' = "expr"
          /\ misused' = misused \cup
               (IF expr.type = "string" THEN {LiteralString} \ heap ELSE {})
  /\ UNCHANGED <<lexVars, psVars, next, kwt, heap>>

FreeExpr ==
  /\ stage = "expr"
  /\ IF expr.type = "string" THEN Free(LiteralString)
                             ELSE UNCHANGED <<heap, misused>>
  /\ stage' = "tokens"
  /\ UNCHANGED <<lexVars, psVars, next, kwt, shown>>

-----------------------------------------------------------------------------
(* What main frees at its end, in its order.                                *)

(* token_free: the kinds of token whose string it frees.                     *)
BadHasString(t) ==
  t.kind \in {"IDENT", "LITERAL_STRING", "LITERAL_NUMBER"}
HasString(t) ==
  t.kind \in {"IDENT", "LITERAL_STRING", "LITERAL_CHAR", "LITERAL_NUMBER"}

BadFreeToken ==                 \* the loop counts twice
  /\ stage = "tokens" /\ next < Len(toks)
  /\ IF HasString(toks[next + 1]) THEN Free(StringOf(next + 1))
                                  ELSE UNCHANGED <<heap, misused>>
  /\ next' = next + 2
  /\ UNCHANGED <<lexVars, psVars, stage, kwt, shown>>
FreeToken ==
  /\ stage = "tokens" /\ next < Len(toks)
  /\ IF HasString(toks[next + 1]) THEN Free(StringOf(next + 1))
                                  ELSE UNCHANGED <<heap, misused>>
  /\ next' = next + 1
  /\ UNCHANGED <<lexVars, psVars, stage, kwt, shown>>

(* av_free frees nothing if no token was ever appended.                      *)
FreeVector ==
  /\ stage = "tokens" /\ next = Len(toks)
  /\ IF Vector \in heap THEN Free(Vector) ELSE UNCHANGED <<heap, misused>>
  /\ stage' = "lexer"
  /\ UNCHANGED <<lexVars, psVars, next, kwt, shown>>

(* lx_kwt_free: HASH_DEL of its last row makes the global pointer NULL.      *)
BadFreeKeywords ==              \* the pointer keeps its value
  IF kwt = "table" THEN Free(KeywordTable) /\ UNCHANGED kwt
  ELSE UNCHANGED <<heap, misused, kwt>>
FreeKeywords ==
  IF kwt = "table" THEN Free(KeywordTable) /\ kwt' = "NULL"
  ELSE UNCHANGED <<heap, misused, kwt>>

(* lx_free is called by main, and once more by ps_free.                      *)
FreeLexer ==
  /\ \/ stage = "lexer" /\ stage' = "parser"
     \/ stage = "parser" /\ stage' = "file name"
  /\ FreeKeywords
  /\ UNCHANGED <<lexVars, psVars, next, shown>>

FreeFileName ==
  /\ stage = "file name"
  /\ Free(FileName)
  /\ stage' = "source"
  /\ UNCHANGED <<lexVars, psVars, next, kwt, shown>>

(* as_free does nothing to an invalid string.                                *)
FreeSource ==
  /\ stage = "source"
  /\ IF Source \in heap THEN Free(Source) ELSE UNCHANGED <<heap, misused>>
  /\ stage' = "exit"
  /\ UNCHANGED <<lexVars, psVars, next, kwt, shown>>

FreeAll == FreeToken \/ FreeVector \/ FreeLexer \/ FreeFileName \/ FreeSource
Next ==
  \/ Read \/ ReadUnreadable \/ ReadNothing \/ Tokenize
  \/ BeginParse \/ Parse \/ PrintExpr \/ FreeExpr \/ FreeAll

(* One thread, and nothing waits but the read of a line, which is one step.  *)
Spec == Init /\ [][Next]_vars
FairSpec == Spec /\ WF_vars(Next)
=============================================================================
