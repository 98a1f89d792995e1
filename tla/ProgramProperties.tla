------------------------- MODULE ProgramProperties -------------------------
(***************************************************************************)
(* What the parts of cimi promise together: about the memory that passes   *)
(* from one to the other, and about the text that comes in and what of it  *)
(* is printed.                                                             *)
(***************************************************************************)
EXTENDS Program, ParserProperties

Stages == {"read", "lex", "parse", "print", "expr", "tokens", "lexer", "parser",
           "file name", "source"}
Stopped == {"exit", "panic", "crash"}

TokenStrings == {"token"} \X Nat          \* the StringOf(k)
Blocks ==
  {Source, Unread, FileName, KeywordTable, Vector, Result, LiteralString}
    \cup TokenStrings

TypeOK ==
  /\ stage \in Stages \cup Stopped
  /\ next \in 0 .. Len(toks)
  /\ kwt \in {"NULL", "table"}
  /\ heap \subseteq Blocks /\ misused \subseteq Blocks

-----------------------------------------------------------------------------
(* Memory.                                                                  *)

(* Nothing is freed twice, and nothing is read after it was freed: not the  *)
(* keyword table, which main and ps_free both free, nor the string of a     *)
(* literal, which is copied twice on its way to the printer.                *)
MemoryIsSound == misused = {}

(* main gives back all that the lexer, the parser and the printer have      *)
(* allocated.  What is lost is a source that could not be read to its end,  *)
(* and the strings of the tokens before an error of the lexer.              *)
OnlyErrorsLeak ==
  stage = "exit" =>
    \A block \in heap :
      block = Unread \/ (pc = "failed" /\ block \in TokenStrings)

(* The inductive invariant behind both: who holds each block, and until     *)
(* when.                                                                    *)
WithTokens == {"lex", "parse", "print", "expr", "tokens"}
WithName == WithTokens \cup {"lexer", "parser", "file name"}

MainsBlocksAreHeld ==
  /\ KeywordTable \in heap <=> kwt = "table"
  /\ stage \in {"file name", "source", "exit"} => kwt = "NULL"
  /\ stage \in WithName => FileName \in heap
  /\ FileName \in heap => stage \in WithName \cup {"panic", "crash"}
  /\ Source \in heap => stage # "exit"
  /\ Vector \in heap => stage \in WithTokens \cup {"panic", "crash"}

ParsersBlocksAreHeld ==
  /\ stage \in {"read", "lex"} => at = "idle"
  /\ stage = "parse" => at \notin Ended
  /\ at \notin Ended => expr.type = "none"
  /\ at # "string" => ~as_valid(res)
  /\ at = "string" => stage = "parse"
  /\ Result \in heap => as_valid(res)
  /\ LiteralString \in heap => stage \in {"print", "expr"} /\ expr.type = "string"
  /\ stage \in {"print", "expr"} /\ expr.type = "string" => LiteralString \in heap

TokenStringsAreHeld ==
  /\ stage = "read" => toks = <<>>
  /\ stage \in {"read"} \cup (WithTokens \ {"tokens"}) => next = 0
  /\ stage \in {"lexer", "parser", "file name", "source", "exit"} =>
       next = Len(toks)
  /\ stage \in WithTokens => \A k \in next + 1 .. Len(toks) :
       HasString(toks[k]) => StringOf(k) \in heap
  /\ pc # "failed" => \A block \in heap \cap TokenStrings :
       block[2] \in next + 1 .. Len(toks) /\ HasString(toks[block[2]])

HeapInv ==
  /\ TypeOK /\ MemoryIsSound
  /\ MainsBlocksAreHeld /\ ParsersBlocksAreHeld /\ TokenStringsAreHeld

-----------------------------------------------------------------------------
(* Text.                                                                    *)

(* strtoll with base 0 takes a number that begins with 0 for octal, and     *)
(* stops at the first digit that is not: parser.c:405-416.                  *)
MisreadOctal(t) ==
  /\ t[1] = "0" /\ \A k \in 1 .. Len(t) : t[k] \in Digits
  /\ \E k \in 1 .. Len(t) : t[k] \in {"8", "9"}

(* The lexer lets no literal through that ends in an open escape, and no    *)
(* number that is none: four of the parser's diagnostics are for tokens     *)
(* that no text has.  Of the numbers the lexer makes, the parser refuses    *)
(* those, and only those, that it takes for octal and that have an 8 or 9.  *)
LexedLiteralsAreSound ==
  /\ diag \notin {"last is escape", "float range", "float invalid", "number invalid"}
  /\ tok.kind = "LITERAL_NUMBER" /\ at \in Ended =>
       (at = "none" <=> MisreadOctal(text))

(* What is printed of a program that begins with a string is what stands    *)
(* between its quotes, up to the first NUL, with its escapes replaced; of   *)
(* one that begins with a word, the Boolean or null that the word is.  All  *)
(* that follows a NUL is NULs and counts in the length.  (A NUL passes for  *)
(* a quote, too, and opens a string that prints as empty.)                  *)
Inner == SubSeq(src, spans[1].from + 2, spans[1].to - 1)
Meant == Meaning(UpToNul(Inner))
Length == Len(Meant) + Len(Inner) - Len(UpToNul(Inner))
PrintedIsMeant ==
  /\ shown.type = "string" /\ WordAt(1)[1] = "dq" =>
       shown.value = IF Length > ShownMax THEN "<a very long string>" ELSE Meant
  /\ shown.type = "bool" =>
       WordAt(1) = IF shown.value THEN <<"t", "r", "u", "e">>
                                  ELSE <<"f", "a", "l", "s", "e">>
  /\ shown.type = "null" => IsNull(1)

(* Every text is dealt with in the end.                                     *)
Termination == <>(stage \in Stopped)

-----------------------------------------------------------------------------
(* SPEC.md:28 gives 'a' as a character literal: a program may begin with it.*)
CharactersArePrinted == stage # "crash"
=============================================================================
