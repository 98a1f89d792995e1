------------------------------- MODULE Lexer -------------------------------
(***************************************************************************)
(* The scanner of lexer.c: lx_next_token and every helper it calls, driven *)
(* by lx_tokenize.  The C code is a set of nested loops over one cursor;   *)
(* here every iteration of every loop is one action, so that termination,  *)
(* cursor bounds and positions are properties of behaviours and not of one *)
(* big recursive function.                                                 *)
(*                                                                         *)
(* Offsets are those of the C code, from 0.  A character is the member of  *)
(* a small alphabet; the characters that the scanner tells apart are named *)
(* below, the rest are the constants Letters and Others.                   *)
(*                                                                         *)
(* cur, row and bol are u32 in lexer.h, src_len is a usize; here they are   *)
(* natural numbers, so what follows is of texts of less than 2^32 - 2       *)
(* bytes, on which none of the three can wrap.                             *)
(*                                                                         *)
(* An operator whose name begins with Bad is no part of the specification: *)
(* it is a plausible slip in the operator that follows it, which a run of  *)
(* LexerProperties must notice.                                            *)
(***************************************************************************)
EXTENDS Integers, Sequences, FiniteSets

CONSTANTS
  Sources,   (* the texts lx_new may be given: sequences over SourceChar    *)
  Letters,   (* what isalpha accepts                                        *)
  Lower,     (* tolower, on Letters                                         *)
  Others,    (* characters of no class, as '%' or '~'                       *)
  Keywords,  (* the lower-case words lx_kwt_setup puts in the keyword table *)
  U8         (* 2^8, the width of Pos.col and Pos.span                      *)

NUL == "nul"
NL == "nl"
Backslash == "bs"
Blanks == {"sp", "tab"}              \* isspace, the newline apart
Quotes == {"dq", "sq"}
Digits == {"0", "1", "2", "3", "4", "5", "6", "7", "8", "9"}
Separators == {"lcurly", "rcurly", "[", "]", "(", ")", "semi", ":", "comma"}
Operators == {"+", "-", "*", "/", "=", "<", ">", "^", "!"}
Named == {NUL, NL, Backslash, "_", "."} \cup Blanks \cup Quotes \cup Digits
           \cup Separators \cup Operators
SourceChar == Named \cup Letters \cup Others

ASSUME LexerAssumption ==
  /\ Sources \subseteq Seq(SourceChar)
  /\ Letters \cap Named = {}
  /\ Lower \in [Letters -> Letters]
  /\ Keywords \subseteq Seq(Letters)
  /\ U8 \in Nat \ {0}

(* Words that are Boolean literals; unlike keywords they are case-sensitive. *)
BoolWords == {<<"t", "r", "u", "e">>, <<"f", "a", "l", "s", "e">>}

(* The two-character symbols, with the kind lx_next_double_symbol gives.   *)
DoubleSymbols ==
  {<<"=", "=", "EQ">>, <<">", "=", "GEQ">>, <<"<", "=", "LEQ">>,
   <<"!", "=", "NEQ">>, <<">", ">", "SHR">>, <<"<", "<", "SHL">>,
   <<"+", "=", "ADD_ASSIGN">>, <<"-", "=", "SUB_ASSIGN">>,
   <<"*", "=", "MUL_ASSIGN">>, <<"/", "=", "DIV_ASSIGN">>}

(* TABLE of lx_next_single_symbol, as the code has it: '>' is LT, '<' is GT  *)
(* and '=' is EQ.  '%' is in TABLE too, but no test lets the code look it up.*)
SingleSymbols ==
  {<<"lcurly", "LCURLY">>, <<"rcurly", "RCURLY">>, <<"[", "LBRACKET">>,
   <<"]", "RBRACKET">>, <<"(", "LPAREN">>, <<")", "RPAREN">>,
   <<":", "COLON">>, <<"comma", "COMMA">>, <<"semi", "SEMICOLON">>,
   <<">", "LT">>, <<"<", "GT">>, <<"=", "EQ">>, <<"*", "MUL">>,
   <<"/", "DIV">>, <<"+", "ADD">>, <<"-", "SUB">>, <<"^", "CARET">>}

SymbolKinds == {d[3] : d \in DoubleSymbols} \cup {s[2] : s \in SingleSymbols}
LiteralKinds == {"LITERAL_STRING", "LITERAL_CHAR"}
WordKinds == {"KEYWORD", "LITERAL_NUMBER", "LITERAL_BOOLEAN", "IDENT"}
TokenKinds ==
  {"EOF", "NEWLINE"} \cup SymbolKinds \cup LiteralKinds \cup WordKinds

Locations == {"trim", "line", "block", "scan", "word", "classify"}
Ended == {"done", "failed", "panic"}
Undelimited == "none"

VARIABLES
  src,    (* Lexer.src; never changes                                       *)
  cur,    (* Lexer.cur: offset of the next character                        *)
  row,    (* Lexer.row                                                      *)
  bol,    (* Lexer.bol: offset of the beginning of the line                 *)
  pc,     (* where lx_tokenize is                                           *)
  begin,  (* lx_next_word: offset of the word's first character             *)
  len,    (* lx_next_word: characters in the word                           *)
  delim,  (* lx_next_word: the quote that ends the literal                  *)
  error,  (* Lexer.error.kind                                               *)
  toks,   (* the Tokens lx_tokenize returns                                 *)
  spans   (* history: the source offsets [from, to) of each token           *)

wordVars == <<begin, len, delim>>
outVars == <<error, toks, spans>>
vars == <<src, cur, row, bol, pc, wordVars, outVars>>

-----------------------------------------------------------------------------
(* Reading the source.  It is NUL-terminated at src_len.                     *)

Size == Len(src)
InBounds == cur < Size
At(i) == IF i < Size THEN src[i + 1] ELSE NUL

(* strchr finds the terminating NUL of its first argument as well.           *)
StrChr(set, c) == c \in set \cup {NUL}
EndsWord(c) ==
  \/ c \in Blanks \cup {NL}
  \/ StrChr(Operators \cup Separators \cup Quotes, c)

DoubleAt(i) == {d \in DoubleSymbols : d[1] = At(i) /\ d[2] = At(i + 1)}
BadSingleAt(i) == {s \in SingleSymbols : s[1] = At(i) /\ s[2] # "MUL"}
SingleAt(i) == {s \in SingleSymbols : s[1] = At(i)}

(* as_ncopy_cstr copies the word with stpncpy: after a NUL come only NULs.   *)
Word ==
  [i \in 1 .. len |->
     IF \E j \in begin .. begin + i - 1 : At(j) = NUL THEN NUL
     ELSE At(begin + i - 1)]

Delimited == delim # Undelimited
BadStops(c) == IF Delimited THEN c = "dq" ELSE EndsWord(c)
Stops(c) == IF Delimited THEN c = delim ELSE EndsWord(c)

LowerWord(w) ==
  [i \in DOMAIN w |-> IF w[i] \in Letters THEN Lower[w[i]] ELSE w[i]]

BadIsNumber(w) == \A i \in DOMAIN w : w[i] \in Digits
IsNumber(w) ==
  /\ w # <<".">>
  /\ \A i \in DOMAIN w : w[i] \in Digits \cup {"."}
  /\ \A i, j \in DOMAIN w : w[i] = "." /\ w[j] = "." => i = j

BadIsIdent(w) == w[1] \in Letters \cup {"_"}
IsIdent(w) ==
  /\ w[1] \in Letters \cup {"_"}
  /\ \A i \in DOMAIN w : w[i] \in Letters \cup Digits \/ StrChr({"_", "."}, w[i])

(* lx_next_keyword, then lx_next_literal, then lx_next_ident, in that order. *)
WordKind(w) ==
  CASE LowerWord(w) \in Keywords -> "KEYWORD"
    [] w[1] = "sq"               -> "LITERAL_CHAR"
    [] StrChr({"dq"}, w[1])      -> "LITERAL_STRING"
    [] IsNumber(w)               -> "LITERAL_NUMBER"
    [] w \in BoolWords           -> "LITERAL_BOOLEAN"
    [] IsIdent(w)                -> "IDENT"
    [] OTHER                     -> "INVALID"

(* What the token keeps of its word: a literal loses its quotes.             *)
WordText(w) ==
  CASE WordKind(w) = "KEYWORD"       -> <<>>
    [] WordKind(w) \in LiteralKinds  -> SubSeq(w, 2, Len(w) - 1)
    [] OTHER                         -> w

(* POS_HERE and POS.  POS is for a cursor that is already past the token;    *)
(* EOF and NEWLINE use it with the cursor still on the token.                *)
BadPosHere(sp) == [row |-> row, col |-> cur - bol + 1, span |-> sp]
PosHere(sp) == [row |-> row, col |-> (cur - bol + 1) % U8, span |-> sp % U8]
BadPosPast(sp) == [row |-> row, col |-> (cur - bol + 1) % U8, span |-> sp % U8]
PosPast(sp) ==
  [row |-> row, col |-> (cur - bol + 1 - sp) % U8, span |-> sp % U8]

(* The token is returned and lx_tokenize appends it.                         *)
Emit(kind, pos, text, from, to) ==
  /\ toks' = Append(toks, [kind |-> kind, pos |-> pos, text |-> text])
  /\ spans' = Append(spans, [from |-> from, to |-> to])
  /\ UNCHANGED error

(* lx_next_token returns NULL; lx_tokenize clears what it has collected.     *)
BadFail(kind) == error' = kind /\ pc' = "failed" /\ UNCHANGED <<toks, spans>>
Fail(kind) ==
  /\ error' = kind
  /\ toks' = <<>>
  /\ spans' = <<>>
  /\ pc' = "failed"

Goto(location) == pc' = location

(* The macro BUMP_NEWLINE.                                                   *)
BadBumpNewline == row' = row + 1 /\ cur' = cur + 1 /\ bol' = cur
BumpNewline == row' = row + 1 /\ cur' = cur + 1 /\ bol' = cur + 1

-----------------------------------------------------------------------------

Init ==
  /\ src \in Sources
  /\ cur = 0 /\ row = 1 /\ bol = 0
  /\ begin = 0 /\ len = 0 /\ delim = Undelimited
  /\ error = "NULL" /\ toks = <<>> /\ spans = <<>>
  /\ pc = "trim"

(***************************************************************************)
(* lx_trim_spaces and lx_trim_comment, which call one another.             *)
(***************************************************************************)
SkipBlank ==
  /\ pc = "trim" /\ InBounds /\ At(cur) \in Blanks
  /\ cur' = cur + 1
  /\ UNCHANGED <<src, row, bol, pc, wordVars, outVars>>

(* The test `cur + 2 >= src_len` comes first: two characters are too few.    *)
AtComment(second) ==
  cur + 2 < Size /\ At(cur) = "/" /\ At(cur + 1) = second

EnterComment ==
  /\ pc = "trim"
  /\ \/ AtComment("/") /\ Goto("line")
     \/ AtComment("*") /\ Goto("block")
  /\ cur' = cur + 2
  /\ UNCHANGED <<src, row, bol, wordVars, outVars>>

EndTrim ==
  /\ pc = "trim"
  /\ InBounds => At(cur) \notin Blanks
  /\ ~AtComment("/") /\ ~AtComment("*")
  /\ Goto("scan")
  /\ UNCHANGED <<src, cur, row, bol, wordVars, outVars>>

BadLineComment ==
  /\ pc = "line"
  /\ IF At(cur) # NL THEN cur' = cur + 1 /\ UNCHANGED pc
                     ELSE Goto("trim") /\ UNCHANGED cur
  /\ UNCHANGED <<src, row, bol, wordVars, outVars>>
LineComment ==
  /\ pc = "line"
  /\ IF InBounds /\ At(cur) # NL
     THEN cur' = cur + 1 /\ UNCHANGED pc
     ELSE Goto("trim") /\ UNCHANGED cur
  /\ UNCHANGED <<src, row, bol, wordVars, outVars>>

AtBlockEnd == At(cur) = "*" /\ At(cur + 1) = "/"

BlockComment ==
  /\ pc = "block" /\ InBounds /\ ~AtBlockEnd
  /\ IF At(cur) = NL THEN BumpNewline
                     ELSE cur' = cur + 1 /\ UNCHANGED <<row, bol>>
  /\ UNCHANGED <<src, pc, wordVars, outVars>>

(* "we found */", says the code; it also comes here at the end of the source. *)
BadEndBlockComment ==
  /\ pc = "block"
  /\ InBounds => AtBlockEnd
  /\ cur' = cur + 3
  /\ Goto("trim")
  /\ UNCHANGED <<src, row, bol, wordVars, outVars>>
EndBlockComment ==
  /\ pc = "block"
  /\ InBounds => AtBlockEnd
  /\ cur' = cur + 2
  /\ Goto("trim")
  /\ UNCHANGED <<src, row, bol, wordVars, outVars>>

(***************************************************************************)
(* The tests of lx_next_token, in its order.                               *)
(***************************************************************************)
ScanEof ==
  /\ pc = "scan" /\ ~InBounds
  /\ Emit("EOF", PosPast(1), <<>>, cur, cur)
  /\ Goto("done")
  /\ UNCHANGED <<src, cur, row, bol, wordVars>>

ScanNewline ==
  /\ pc = "scan" /\ InBounds /\ At(cur) = NL
  /\ Emit("NEWLINE", PosPast(1), <<>>, cur, cur + 1)
  /\ BumpNewline
  /\ Goto("trim")
  /\ UNCHANGED <<src, wordVars>>

(* A symbol of two characters needs a third character after it.              *)
BadAtDouble == cur + 3 < Size /\ DoubleAt(cur) # {}
AtDouble == cur + 2 < Size /\ DoubleAt(cur) # {}

ScanDouble ==
  /\ pc = "scan" /\ AtDouble
  /\ \E d \in DoubleAt(cur) : Emit(d[3], PosHere(2), <<>>, cur, cur + 2)
  /\ cur' = cur + 2
  /\ Goto("trim")
  /\ UNCHANGED <<src, row, bol, wordVars>>

ScanSingle ==
  /\ pc = "scan" /\ InBounds /\ ~AtDouble
  /\ \E s \in SingleAt(cur) : Emit(s[2], PosHere(1), <<>>, cur, cur + 1)
  /\ cur' = cur + 1
  /\ Goto("trim")
  /\ UNCHANGED <<src, row, bol, wordVars>>

(***************************************************************************)
(* lx_next_word.                                                           *)
(***************************************************************************)
BeginWord ==
  /\ pc = "scan" /\ InBounds
  /\ At(cur) # NL /\ ~AtDouble /\ SingleAt(cur) = {}
  /\ begin' = cur
  /\ IF StrChr(Quotes, At(cur))
     THEN delim' = At(cur) /\ cur' = cur + 1 /\ len' = 1
     ELSE delim' = Undelimited /\ UNCHANGED cur /\ len' = 0
  /\ Goto("word")
  /\ UNCHANGED <<src, row, bol, outVars>>

(* A backslash takes the next character with it, whatever that is.           *)
BadWordChar ==      \* the cursor skips the escaped character, `len` does not
  /\ pc = "word" /\ InBounds /\ ~Stops(At(cur))
  /\ cur' = cur + (IF At(cur) = Backslash THEN 2 ELSE 1)
  /\ len' = len + 1
  /\ UNCHANGED <<src, row, bol, pc, begin, delim, outVars>>
BadEscape ==        \* the escaped character is not skipped
  /\ pc = "word" /\ InBounds /\ ~Stops(At(cur))
  /\ cur' = cur + 1 /\ len' = len + 1
  /\ UNCHANGED <<src, row, bol, pc, begin, delim, outVars>>
WordChar ==
  /\ pc = "word" /\ InBounds /\ ~Stops(At(cur))
  /\ LET n == IF At(cur) = Backslash THEN 2 ELSE 1
     IN  cur' = cur + n /\ len' = len + n
  /\ UNCHANGED <<src, row, bol, pc, begin, delim, outVars>>

(* The errors MISMATCHED_DELIMITER and UNTERMINATED_LITERAL are unreachable: *)
(* a delimited word leaves the loop in bounds on its delimiter only.         *)
UnterminatedLiteral ==
  /\ pc = "word" /\ ~InBounds /\ Delimited
  /\ Fail("EOF")
  /\ UNCHANGED <<src, cur, row, bol, wordVars>>

EndWord ==
  /\ pc = "word"
  /\ IF Delimited
     THEN InBounds /\ Stops(At(cur)) /\ cur' = cur + 1 /\ len' = len + 1
     ELSE (InBounds => Stops(At(cur))) /\ UNCHANGED <<cur, len>>
  /\ Goto("classify")
  /\ UNCHANGED <<src, row, bol, begin, delim, outVars>>

(***************************************************************************)
(* lx_next_keyword, lx_next_literal and lx_next_ident.                     *)
(***************************************************************************)
EmitWord ==
  /\ pc = "classify" /\ len > 0 /\ WordKind(Word) # "INVALID"
  /\ Emit(WordKind(Word), PosPast(len), WordText(Word), begin, begin + len)
  /\ Goto("trim")
  /\ UNCHANGED <<src, cur, row, bol, wordVars>>

InvalidIdentifier ==
  /\ pc = "classify" /\ len > 0 /\ WordKind(Word) = "INVALID"
  /\ Fail("INVALID_IDENTIFIER")
  /\ UNCHANGED <<src, cur, row, bol, wordVars>>

(* The empty word is no keyword, and as_first panics on it.                  *)
BadEmptyWord == pc = "classify" /\ len = 0 /\ Goto("trim")
                /\ UNCHANGED <<src, cur, row, bol, wordVars, outVars>>
EmptyWord ==
  /\ pc = "classify" /\ len = 0
  /\ Goto("panic")
  /\ UNCHANGED <<src, cur, row, bol, wordVars, outVars>>

Trim == SkipBlank \/ EnterComment \/ EndTrim
Comment == LineComment \/ BlockComment \/ EndBlockComment
Scan == ScanEof \/ ScanNewline \/ ScanDouble \/ ScanSingle \/ BeginWord
ReadWord == WordChar \/ UnterminatedLiteral \/ EndWord
Classify == EmitWord \/ InvalidIdentifier \/ EmptyWord
Next == Trim \/ Comment \/ Scan \/ ReadWord \/ Classify

(* One thread runs the loops, and nothing in them waits: it keeps running.   *)
Spec == Init /\ [][Next]_vars
FairSpec == Spec /\ WF_vars(Next)
=============================================================================
