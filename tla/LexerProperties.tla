-------------------------- MODULE LexerProperties --------------------------
(***************************************************************************)
(* What makes Lexer.tla correct.  The properties speak of the source text  *)
(* and of the tokens made from it, never of the loops that make them: the  *)
(* lexeme of token i is the text from spans[i].from up to spans[i].to.     *)
(***************************************************************************)
EXTENDS Lexer

Position == [row : Nat \ {0}, col : 0 .. U8 - 1, span : 0 .. U8 - 1]
Token == [kind : TokenKinds, pos : Position, text : Seq(SourceChar)]
Span == [from : Nat, to : Nat]

(* Type correctness.  Columns and spans are bytes (lexertypes.h, Pos).       *)
TypeOK ==
  /\ src \in Sources
  /\ cur \in Nat /\ row \in Nat \ {0} /\ bol \in Nat
  /\ begin \in Nat /\ len \in Nat
  /\ delim \in Quotes \cup {NUL, Undelimited}
  /\ pc \in Locations \cup Ended
  /\ error \in {"NULL", "EOF", "INVALID_IDENTIFIER"}
  /\ toks \in Seq(Token) /\ spans \in Seq(Span)

-----------------------------------------------------------------------------
(* The cursor.                                                              *)

(* lx_next_word counts its characters in `len` and moves `cur` on its own;  *)
(* as_ncopy_cstr then reads `len` characters from `begin`.  The two must    *)
(* agree, and the copy may reach the terminating NUL but not go beyond it.  *)
WordIsInSource ==
  pc \in {"word", "classify"} =>
    /\ begin < Size
    /\ begin + len = cur
    /\ cur <= Size + 1

(* CUR is read without a test of IN_BOUNDS wherever lx_next_token has passed*)
(* one already; `cur` overshoots the text only after a comment, by two at   *)
(* most, or in a word that ends in a backslash, and `cur - bol` in POS      *)
(* never wraps below zero.                                                  *)
CursorInSource ==
  /\ bol <= cur /\ bol <= Size
  /\ cur <= Size + 2
  /\ pc \in {"line", "block"} => cur <= Size
  /\ Size < cur => pc \in {"trim", "scan", "word", "classify"} \cup Ended

-----------------------------------------------------------------------------
(* Tokens and the text.                                                     *)

InLiteral(p) ==
  \E i \in DOMAIN toks :
    toks[i].kind \in LiteralKinds /\ spans[i].from <= p /\ p < spans[i].to

LineBreaks(p) ==
  {q \in 0 .. Size - 1 : q < p /\ At(q) = NL /\ ~InLiteral(q)}

LineStart(p) ==
  IF LineBreaks(p) = {} THEN 0
  ELSE 1 + CHOOSE q \in LineBreaks(p) : \A r \in LineBreaks(p) : r <= q

(* The row of a token is the number of lines that end before it, its column *)
(* its distance from the beginning of its line.  A newline inside a literal *)
(* ends no line.  EOF and NEWLINE have the column to the left of their own. *)
PositionsAreFaithful ==
  \A i \in DOMAIN toks :
    LET t == toks[i]  from == spans[i].from
        shift == IF t.kind \in {"EOF", "NEWLINE"} THEN 0 ELSE 1
    IN  /\ t.pos.row = 1 + Cardinality(LineBreaks(from))
        /\ t.pos.col = (from - LineStart(from) + shift) % U8
        /\ t.kind # "EOF" => t.pos.span = (spans[i].to - from) % U8

(* Is position p in a comment that opens at g or after it?                  *)
InComment(g, p) ==
  \E q \in g .. p :
    /\ At(q) = "/"
    /\ \/ /\ At(q + 1) = "/"
          /\ \A r \in q .. p : At(r) # NL
       \/ /\ At(q + 1) = "*"
          /\ \A r \in q + 2 .. p - 2 : ~(At(r) = "*" /\ At(r + 1) = "/")

(* No text is lost: what lies between two tokens is blanks and comments.    *)
GapsAreTrivia ==
  \A i \in DOMAIN spans :
    LET gap == IF i = 1 THEN 0 ELSE spans[i - 1].to
    IN  \A p \in gap .. spans[i].from - 1 :
          p < Size => At(p) \in Blanks \/ InComment(gap, p)

(* The character at j of a literal that opens at f is escaped when the run  *)
(* of backslashes right before it has an odd length.                        *)
Escaped(f, j) ==
  \E k \in 1 .. j - f - 1 :
    /\ k % 2 = 1
    /\ \A m \in 1 .. k : At(j - m) = Backslash
    /\ j - k - 1 = f \/ At(j - k - 1) # Backslash

(* A literal ends at the first delimiter that is not escaped, although the  *)
(* scanner never looks behind: it steps over what follows a backslash.      *)
LiteralsCloseAtFirstDelimiter ==
  \A i \in DOMAIN toks : toks[i].kind \in LiteralKinds =>
    LET f == spans[i].from  last == spans[i].to - 1
    IN  /\ f < last /\ At(last) = At(f) /\ ~Escaped(f, last)
        /\ \A j \in f + 1 .. last - 1 : At(j) = At(f) => Escaped(f, j)

(* The lexer says "unexpected end of file" only of a literal that is open:  *)
(* every further delimiter in the text is escaped.                          *)
EofErrorIsJust ==
  error = "EOF" =>
    /\ StrChr(Quotes, At(begin))
    /\ \A j \in begin + 1 .. Size - 1 : At(j) = At(begin) => Escaped(begin, j)

(* A keyword, number, Boolean or identifier is a whole word: it contains no *)
(* character that ends a word, and it stops only where one does.            *)
WordsAreMaximal ==
  \A i \in DOMAIN toks : toks[i].kind \in WordKinds =>
    /\ \A j \in spans[i].from .. spans[i].to - 1 :
         ~EndsWord(At(j)) /\ At(j) # Backslash
    /\ spans[i].to < Size => EndsWord(At(spans[i].to))

(* The first characters of two tokens that stand side by side.              *)
Adjacent(i) == i + 1 \in DOMAIN spans /\ spans[i].to = spans[i + 1].from
SpellsMarker(p) ==
  DoubleAt(p) # {} \/ (At(p) = "/" /\ At(p + 1) \in {"/", "*"})

(* Two symbols side by side never spell a symbol of two characters, nor the *)
(* opening of a comment, unless they are the last characters of the text.   *)
MarkersAreWhole ==
  \A i \in DOMAIN spans :
    Adjacent(i) /\ spans[i].to = spans[i].from + 1 /\ SpellsMarker(spans[i].from)
      => spans[i + 1].to = Size

(* No token is cut short: a symbol, a keyword, a number or a name is as     *)
(* long as the text lets it be.                                             *)
TokensAreWhole == WordsAreMaximal /\ MarkersAreWhole

(* What no number, Boolean or name is spelled like: a word with a character *)
(* that none of them has, or one that begins as a number does and goes on   *)
(* as none can (`9a`, `1.2.3`, a lone `.`).                                 *)
NoWord(from, to) ==
  \/ \E j \in from .. to - 1 : At(j) \notin Letters \cup Digits \cup {"_", "."}
  \/ /\ At(from) \in Digits \cup {"."}
     /\ \/ to = from + 1 /\ At(from) = "."
        \/ \E j \in from .. to - 1 : At(j) \in Letters \cup {"_"}
        \/ \E i, j \in from .. to - 1 : i < j /\ At(i) = "." /\ At(j) = "."

(* The lexer says "invalid identifier" only of a whole word, not in quotes,  *)
(* that is spelled like no token.                                           *)
InvalidWordIsJust ==
  error = "INVALID_IDENTIFIER" =>
    /\ len > 0 /\ ~StrChr(Quotes, At(begin))
    /\ begin + len < Size => EndsWord(At(begin + len))
    /\ NoWord(begin, begin + len)

(* as_first panics on a '!' only, and not on one that an '=' turns into NEQ: *)
(* but in a text that ends in "!=" the '=' does not, for want of a third    *)
(* character.                                                               *)
PanicOnlyOnBang ==
  pc = "panic" =>
    At(begin) = "!" /\ (At(begin + 1) = "=" => begin + 2 = Size)

(* A text is given up, always with an error or a panic, in these cases only: *)
(* a literal is open at its end, a word is spelled like no token, or a '!'   *)
(* stands alone or in a "!=" that ends the text.                            *)
FailuresAreJust ==
  /\ pc = "failed" <=> error # "NULL"
  /\ EofErrorIsJust /\ InvalidWordIsJust /\ PanicOnlyOnBang

-----------------------------------------------------------------------------
(* The inductive invariant behind the theorems of LexerProofs.              *)

InWord == pc \in {"word", "classify"}

(* The last token ends at or before the text that is still to be read.      *)
TokensAreBehind ==
  /\ Len(toks) = Len(spans)
  /\ spans # <<>> =>
       spans[Len(spans)].to <= IF InWord THEN begin ELSE cur

(* An undelimited word is clean as long as no backslash is in it; its first *)
(* backslash, which a NUL may follow but not precede, makes it no token.    *)
Clean == \A j \in begin .. cur - 1 : ~EndsWord(At(j)) /\ At(j) # Backslash
Soiled ==
  \E i \in begin .. cur - 1 :
    At(i) = Backslash /\ \A j \in begin .. i : At(j) # NUL

WordShape ==
  InWord =>
    /\ Delimited => StrChr(Quotes, delim) /\ delim = At(begin) /\ len > 0
    /\ ~Delimited => ~StrChr(Quotes, At(begin)) /\ (Clean \/ Soiled)
    /\ pc = "classify" =>
         IF Delimited THEN 2 <= len /\ cur <= Size /\ At(cur - 1) = delim
                      ELSE InBounds => EndsWord(At(cur))

(* No loop reads outside the text, and none copies a word that is not the    *)
(* text it has passed: CursorInSource and WordIsInSource, with what keeps   *)
(* them so from one step to the next.                                       *)
LexerInv ==
  TypeOK /\ CursorInSource /\ WordIsInSource /\ TokensAreBehind /\ WordShape

-----------------------------------------------------------------------------
(* Progress.                                                                *)

Rank(location, n) ==
  CASE location \in {"line", "block"} -> 5
    [] location = "trim" -> 4
    [] location = "scan" -> 3
    [] location = "word" -> IF n = 0 THEN 2 ELSE 6
    [] location = "classify" -> IF n = 0 THEN 1 ELSE 5
    [] OTHER -> 0
Measure == 8 * (Size + 2 - cur) + Rank(pc, len)

(* Every step of every loop brings the end of the call nearer, whatever the *)
(* text: it reads a character, or it moves on in lx_next_token.             *)
EveryStepCounts == [][Measure' \in 0 .. Measure - 1]_vars

(* lx_tokenize terminates on every text.                                    *)
Termination == <>(pc \in Ended)

-----------------------------------------------------------------------------
(* The abstract token stream.                                               *)

Lexemes ==
  [i \in DOMAIN toks |->
     [kind |-> toks[i].kind, from |-> spans[i].from, to |-> spans[i].to]]
Status ==
  CASE pc = "done"   -> "complete"
    [] pc = "failed" -> "rejected"
    [] pc = "panic"  -> "crashed"
    [] OTHER         -> "reading"

Stream == INSTANCE TokenStream
            WITH Kinds <- TokenKinds, size <- Size, out <- Lexemes,
                 status <- Status

(* The tokens lx_tokenize returns are a token stream of the source.         *)
ImplementsTokenStream == Stream!Spec

-----------------------------------------------------------------------------
(* What the repository says and the code does not do.                       *)

(* examples/tests/all_symbols.cimi:4 lists symbols of two characters.       *)
SymbolIsOneToken ==
  \A i \in DOMAIN spans :
    ~(toks[i].kind \in SymbolKinds /\ Adjacent(i) /\ DoubleAt(spans[i].from) # {}
        /\ spans[i].to = spans[i].from + 1)
=============================================================================
