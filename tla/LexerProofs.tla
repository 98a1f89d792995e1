---------------------------- MODULE LexerProofs ----------------------------
(***************************************************************************)
(* Theorems about Lexer.tla, for every set of source texts, every alphabet *)
(* and every keyword table that LexerAssumption allows; and, at the end,    *)
(* about KeywordTable.tla, the table that they share.                       *)
(***************************************************************************)
EXTENDS LexerProperties, KeywordTable, FiniteSetTheorems, SequenceTheorems, TLAPS

(* Reading the text: a character, or the NUL behind the last one.           *)
LEMMA AtIsChar == TypeOK => \A i \in Nat : At(i) \in SourceChar
<1> SUFFICES ASSUME TypeOK, NEW i \in Nat PROVE At(i) \in SourceChar
  OBVIOUS
<1>1. src \in Seq(SourceChar)
  BY LexerAssumption DEF TypeOK
<1>2. CASE i < Size
  BY <1>1, <1>2 DEF At, Size
<1>3. CASE ~(i < Size)
  BY <1>3 DEF At, SourceChar, Named
<1> QED BY <1>2, <1>3

(* A word is made of characters, and it is as long as `len` says.           *)
LEMMA WordIsSeq ==
  TypeOK => Word \in Seq(SourceChar) /\ Len(Word) = len
<1> SUFFICES ASSUME TypeOK PROVE Word \in Seq(SourceChar) /\ Len(Word) = len
  OBVIOUS
<1>1. len \in Nat /\ begin \in Nat
  BY DEF TypeOK
<1>2. ASSUME NEW i \in 1 .. len
      PROVE  (IF \E j \in begin .. begin + i - 1 : At(j) = NUL THEN NUL
              ELSE At(begin + i - 1)) \in SourceChar
  <2>1. begin + i - 1 \in Nat
    BY <1>1
  <2>2. At(begin + i - 1) \in SourceChar
    BY <2>1, AtIsChar
  <2> QED BY <2>2 DEF SourceChar, Named
<1>3. Word \in [1 .. len -> SourceChar]
  BY <1>2 DEF Word
<1> QED BY <1>1, <1>3, SeqDef

LEMMA WordTextIsSeq == TypeOK => WordText(Word) \in Seq(SourceChar)
<1> SUFFICES ASSUME TypeOK PROVE WordText(Word) \in Seq(SourceChar)
  OBVIOUS
<1>1. Word \in Seq(SourceChar) /\ Len(Word) \in Nat
  BY WordIsSeq DEF TypeOK
<1>2. SubSeq(Word, 2, Len(Word) - 1) \in Seq(SourceChar)
  BY <1>1, SubSeqProperties
<1> QED BY <1>1, <1>2 DEF WordText

(* Columns and spans are bytes, whatever the offsets.                       *)
LEMMA ByteRange ==
  ASSUME NEW a \in Int PROVE a % U8 \in 0 .. U8 - 1
BY LexerAssumption

LEMMA PositionsTyped ==
  ASSUME TypeOK, NEW n \in Nat
  PROVE  PosHere(n) \in Position /\ PosPast(n) \in Position
<1>1. (cur - bol + 1) \in Int /\ (cur - bol + 1 - n) \in Int
  BY DEF TypeOK
<1>2. (cur - bol + 1) % U8 \in 0 .. U8 - 1 /\ (cur - bol + 1 - n) % U8 \in 0 .. U8 - 1
  BY <1>1, ByteRange
<1>3. n % U8 \in 0 .. U8 - 1
  BY ByteRange
<1> QED BY <1>2, <1>3 DEF PosHere, PosPast, Position, TypeOK

(* A token of a known kind leaves the sequences of tokens well-typed.       *)
LEMMA EmitTyped ==
  ASSUME TypeOK, NEW kind \in TokenKinds, NEW pos \in Position,
         NEW text \in Seq(SourceChar), NEW from \in Nat, NEW to \in Nat,
         Emit(kind, pos, text, from, to)
  PROVE  toks' \in Seq(Token) /\ spans' \in Seq(Span) /\ error' = error
<1>1. [kind |-> kind, pos |-> pos, text |-> text] \in Token
  BY DEF Token
<1>2. [from |-> from, to |-> to] \in Span
  BY DEF Span
<1> QED BY <1>1, <1>2 DEF TypeOK, Emit

LEMMA SymbolKindsKnown ==
  /\ \A d \in DoubleSymbols : d[3] \in TokenKinds \ {"EOF"}
  /\ \A s \in SingleSymbols : s[2] \in TokenKinds \ {"EOF"}
<1>1. \A d \in DoubleSymbols : d[3] # "EOF"
  BY DEF DoubleSymbols
<1>2. \A s \in SingleSymbols : s[2] # "EOF"
  BY DEF SingleSymbols
<1> QED BY <1>1, <1>2 DEF TokenKinds, SymbolKinds

LEMMA WordKindKnown ==
  ASSUME NEW w, WordKind(w) # "INVALID" PROVE WordKind(w) \in TokenKinds \ {"EOF"}
BY DEF WordKind, TokenKinds, WordKinds, LiteralKinds

LEMMA TypeStep == TypeOK /\ [Next]_vars => TypeOK'
<1> SUFFICES ASSUME TypeOK, [Next]_vars PROVE TypeOK'
  OBVIOUS
<1>1. CASE Trim
  BY <1>1 DEF Trim, SkipBlank, EnterComment, EndTrim, Goto, TypeOK, Locations,
              wordVars, outVars
<1>2. CASE Comment
  BY <1>2 DEF Comment, LineComment, BlockComment, BumpNewline, EndBlockComment, Goto,
              TypeOK, Locations, wordVars, outVars
<1>3. CASE Scan
  <2>1. CASE ScanEof
    <3>1. PosPast(1) \in Position
      BY PositionsTyped
    <3>2. cur \in Nat /\ <<>> \in Seq(SourceChar) /\ "EOF" \in TokenKinds
      BY DEF TypeOK, TokenKinds
    <3>3. Emit("EOF", PosPast(1), <<>>, cur, cur)
      BY <2>1 DEF ScanEof
    <3>4. toks' \in Seq(Token) /\ spans' \in Seq(Span) /\ error' = error
      BY <3>1, <3>2, <3>3, EmitTyped
    <3> QED BY <2>1, <3>4 DEF ScanEof, Goto, TypeOK, Ended, wordVars
  <2>2. CASE ScanNewline
    <3>1. PosPast(1) \in Position
      BY PositionsTyped
    <3>2. cur \in Nat /\ cur + 1 \in Nat /\ <<>> \in Seq(SourceChar) /\ "NEWLINE" \in TokenKinds
      BY DEF TypeOK, TokenKinds
    <3>3. Emit("NEWLINE", PosPast(1), <<>>, cur, cur + 1)
      BY <2>2 DEF ScanNewline
    <3>4. toks' \in Seq(Token) /\ spans' \in Seq(Span) /\ error' = error
      BY <3>1, <3>2, <3>3, EmitTyped
    <3> QED BY <2>2, <3>4 DEF ScanNewline, BumpNewline, Goto, TypeOK, Locations, wordVars
  <2>3. CASE ScanDouble
    <3>1. PosHere(2) \in Position
      BY PositionsTyped
    <3>2. PICK d \in DoubleAt(cur) : Emit(d[3], PosHere(2), <<>>, cur, cur + 2)
      BY <2>3 DEF ScanDouble
    <3>3. cur \in Nat /\ cur + 2 \in Nat /\ <<>> \in Seq(SourceChar) /\ d[3] \in TokenKinds
      BY SymbolKindsKnown DEF DoubleAt, TypeOK
    <3>4. toks' \in Seq(Token) /\ spans' \in Seq(Span) /\ error' = error
      BY <3>1, <3>2, <3>3, EmitTyped
    <3> QED BY <2>3, <3>4 DEF ScanDouble, Goto, TypeOK, Locations, wordVars
  <2>4. CASE ScanSingle
    <3>1. PosHere(1) \in Position
      BY PositionsTyped
    <3>2. PICK s \in SingleAt(cur) : Emit(s[2], PosHere(1), <<>>, cur, cur + 1)
      BY <2>4 DEF ScanSingle
    <3>3. cur \in Nat /\ cur + 1 \in Nat /\ <<>> \in Seq(SourceChar) /\ s[2] \in TokenKinds
      BY SymbolKindsKnown DEF SingleAt, TypeOK
    <3>4. toks' \in Seq(Token) /\ spans' \in Seq(Span) /\ error' = error
      BY <3>1, <3>2, <3>3, EmitTyped
    <3> QED BY <2>4, <3>4 DEF ScanSingle, Goto, TypeOK, Locations, wordVars
  <2>5. CASE BeginWord
    BY <2>5 DEF BeginWord, StrChr, Goto, TypeOK, Locations, outVars
  <2> QED BY <1>3, <2>1, <2>2, <2>3, <2>4, <2>5 DEF Scan
<1>4. CASE ReadWord
  <2>1. CASE WordChar
    BY <2>1 DEF WordChar, TypeOK, outVars
  <2>2. CASE UnterminatedLiteral
    BY <2>2 DEF UnterminatedLiteral, Fail, TypeOK, Ended, wordVars
  <2>3. CASE EndWord
    BY <2>3 DEF EndWord, Goto, TypeOK, Locations, outVars
  <2> QED BY <1>4, <2>1, <2>2, <2>3 DEF ReadWord
<1>5. CASE Classify
  <2>1. CASE EmitWord
    <3>1. begin \in Nat /\ begin + len \in Nat /\ len \in Nat
      BY DEF TypeOK
    <3>2. PosPast(len) \in Position /\ WordText(Word) \in Seq(SourceChar)
      BY <3>1, PositionsTyped, WordTextIsSeq
    <3>3. WordKind(Word) \in TokenKinds
      BY <2>1, WordKindKnown DEF EmitWord
    <3>4. Emit(WordKind(Word), PosPast(len), WordText(Word), begin, begin + len)
      BY <2>1 DEF EmitWord
    <3>5. toks' \in Seq(Token) /\ spans' \in Seq(Span) /\ error' = error
      BY <3>1, <3>2, <3>3, <3>4, EmitTyped
    <3> QED BY <2>1, <3>5 DEF EmitWord, Goto, TypeOK, Locations, wordVars
  <2>2. CASE InvalidIdentifier
    BY <2>2 DEF InvalidIdentifier, Fail, TypeOK, Ended, wordVars
  <2>3. CASE EmptyWord
    BY <2>3 DEF EmptyWord, Goto, TypeOK, Locations, Ended, wordVars, outVars
  <2> QED BY <1>5, <2>1, <2>2, <2>3 DEF Classify
<1>6. CASE UNCHANGED vars
  BY <1>6 DEF vars, wordVars, outVars, TypeOK
<1> QED BY <1>1, <1>2, <1>3, <1>4, <1>5, <1>6 DEF Next

(* Every state the scanner reaches is well-typed; in particular every       *)
(* column and every span fits its byte, whatever the length of the line.    *)
THEOREM TypeCorrect == Spec => []TypeOK
<1>1. Init => TypeOK
  BY LexerAssumption DEF Init, TypeOK, Locations
<1>2. TypeOK /\ [Next]_vars => TypeOK'
  BY TypeStep
<1> QED BY <1>1, <1>2, PTL DEF Spec

-----------------------------------------------------------------------------
(* The inductive invariant.                                                 *)

LEMMA SizeIsNat == TypeOK => Size \in Nat
BY LexerAssumption DEF TypeOK, Size

LEMMA SourceConstant ==
  ASSUME TypeOK, [Next]_vars
  PROVE  src' = src /\ Size' = Size /\ Size \in Nat
<1>1. src \in Seq(SourceChar)
  BY LexerAssumption DEF TypeOK
<1>2. src' = src
  BY DEF Next, Trim, Comment, Scan, ReadWord, Classify, SkipBlank, EnterComment,
         EndTrim, LineComment, BlockComment, EndBlockComment, ScanEof, ScanNewline,
         ScanDouble, ScanSingle, BeginWord, WordChar, UnterminatedLiteral, EndWord,
         EmitWord, InvalidIdentifier, EmptyWord, vars
<1> QED BY <1>1, <1>2 DEF Size

LEMMA CursorStep ==
  ASSUME LexerInv, [Next]_vars
  PROVE  CursorInSource' /\ WordIsInSource'
<1>0. /\ cur \in Nat /\ bol \in Nat /\ begin \in Nat /\ len \in Nat
      /\ pc \in Locations \cup Ended
  BY DEF LexerInv, TypeOK
<1>1. Size' = Size /\ Size \in Nat
  BY SourceConstant DEF LexerInv
<1>2. CursorInSource /\ WordIsInSource
  BY DEF LexerInv
<1> USE <1>0, <1>1, <1>2 DEF CursorInSource, WordIsInSource
<1>3. CASE Trim
  BY <1>3 DEF Trim, SkipBlank, EnterComment, EndTrim, AtComment, InBounds, Goto,
              wordVars
<1>4. CASE Comment
  <2>1. CASE LineComment
    BY <2>1 DEF LineComment, InBounds, Goto, wordVars
  <2>2. CASE BlockComment
    BY <2>2 DEF BlockComment, BumpNewline, InBounds, wordVars
  <2>3. CASE EndBlockComment
    BY <2>3 DEF EndBlockComment, Goto, wordVars, Ended
  <2> QED BY <1>4, <2>1, <2>2, <2>3 DEF Comment
<1>5. CASE Scan
  <2>1. CASE ScanEof
    BY <2>1 DEF ScanEof, Goto, wordVars, Ended
  <2>2. CASE ScanNewline
    BY <2>2 DEF ScanNewline, BumpNewline, InBounds, Goto, wordVars
  <2>3. CASE ScanDouble
    BY <2>3 DEF ScanDouble, AtDouble, Goto, wordVars
  <2>4. CASE ScanSingle
    BY <2>4 DEF ScanSingle, InBounds, Goto, wordVars
  <2>5. CASE BeginWord
    BY <2>5 DEF BeginWord, InBounds, Goto
  <2> QED BY <1>5, <2>1, <2>2, <2>3, <2>4, <2>5 DEF Scan
<1>6. CASE ReadWord
  <2>1. CASE WordChar
    BY <2>1 DEF WordChar, InBounds
  <2>2. CASE UnterminatedLiteral
    BY <2>2 DEF UnterminatedLiteral, Fail, wordVars, Ended
  <2>3. CASE EndWord
    BY <2>3 DEF EndWord, InBounds, Goto
  <2> QED BY <1>6, <2>1, <2>2, <2>3 DEF ReadWord
<1>7. CASE Classify
  <2>1. CASE EmitWord
    BY <2>1 DEF EmitWord, Goto, wordVars
  <2>2. CASE InvalidIdentifier
    BY <2>2 DEF InvalidIdentifier, Fail, wordVars, Ended
  <2>3. CASE EmptyWord
    BY <2>3 DEF EmptyWord, Goto, wordVars, Ended
  <2> QED BY <1>7, <2>1, <2>2, <2>3 DEF Classify
<1>8. CASE UNCHANGED vars
  BY <1>8 DEF vars, wordVars
<1> QED BY <1>3, <1>4, <1>5, <1>6, <1>7, <1>8 DEF Next

(* Appending to the tokens moves the end of the last one to `to`.           *)
LEMMA EmitBehind ==
  ASSUME TypeOK, Len(toks) = Len(spans),
         NEW kind, NEW pos, NEW text, NEW from \in Nat, NEW to \in Nat,
         Emit(kind, pos, text, from, to)
  PROVE  /\ Len(toks') = Len(spans') /\ spans' # <<>>
         /\ spans'[Len(spans')].to = to
<1>1. [from |-> from, to |-> to] \in Span
  BY DEF Span
<1> QED BY <1>1 DEF TypeOK, Emit

LEMMA BehindStep ==
  ASSUME LexerInv, [Next]_vars
  PROVE  TokensAreBehind'
<1>0. /\ cur \in Nat /\ begin \in Nat /\ len \in Nat
      /\ spans \in Seq(Span) /\ TypeOK
  BY DEF LexerInv, TypeOK
<1>1. TokensAreBehind /\ WordIsInSource
  BY DEF LexerInv
<1>2. spans # <<>> => spans[Len(spans)].to \in Nat
  <2>1. spans # <<>> => Len(spans) \in 1 .. Len(spans)
    BY <1>0, EmptySeq
  <2>2. spans # <<>> => spans[Len(spans)] \in Span
    BY <1>0, <2>1, ElementOfSeq
  <2> QED BY <2>2 DEF Span
<1> USE <1>0, <1>1, <1>2 DEF TokensAreBehind, InWord
<1>3. CASE Trim
  BY <1>3 DEF Trim, SkipBlank, EnterComment, EndTrim, Goto, wordVars, outVars
<1>4. CASE Comment
  <2>1. CASE LineComment
    BY <2>1 DEF LineComment, Goto, wordVars, outVars
  <2>2. CASE BlockComment
    BY <2>2 DEF BlockComment, BumpNewline, wordVars, outVars
  <2>3. CASE EndBlockComment
    BY <2>3 DEF EndBlockComment, Goto, wordVars, outVars
  <2> QED BY <1>4, <2>1, <2>2, <2>3 DEF Comment
<1>5. CASE Scan
  <2>1. CASE ScanEof
    BY <2>1, EmitBehind DEF ScanEof, Goto
  <2>2. CASE ScanNewline
    BY <2>2, EmitBehind DEF ScanNewline, BumpNewline, Goto
  <2>3. CASE ScanDouble
    BY <2>3, EmitBehind DEF ScanDouble, Goto
  <2>4. CASE ScanSingle
    BY <2>4, EmitBehind DEF ScanSingle, Goto
  <2>5. CASE BeginWord
    BY <2>5 DEF BeginWord, Goto, outVars
  <2> QED BY <1>5, <2>1, <2>2, <2>3, <2>4, <2>5 DEF Scan
<1>6. CASE ReadWord
  <2>1. CASE WordChar
    BY <2>1 DEF WordChar, outVars
  <2>2. CASE UnterminatedLiteral
    BY <2>2 DEF UnterminatedLiteral, Fail
  <2>3. CASE EndWord
    BY <2>3 DEF EndWord, Goto, outVars
  <2> QED BY <1>6, <2>1, <2>2, <2>3 DEF ReadWord
<1>7. CASE Classify
  <2>1. CASE EmitWord
    BY <2>1, EmitBehind DEF EmitWord, Goto, WordIsInSource
  <2>2. CASE InvalidIdentifier
    BY <2>2 DEF InvalidIdentifier, Fail
  <2>3. CASE EmptyWord
    BY <2>3 DEF EmptyWord, Goto, wordVars, outVars, WordIsInSource
  <2> QED BY <1>7, <2>1, <2>2, <2>3 DEF Classify
<1>8. CASE UNCHANGED vars
  BY <1>8 DEF vars, wordVars, outVars
<1> QED BY <1>3, <1>4, <1>5, <1>6, <1>7, <1>8 DEF Next

(* What the word contains.                                                  *)

LEMMA ShapeStep ==
  ASSUME LexerInv, [Next]_vars
  PROVE  WordShape'
<1>0. /\ cur \in Nat /\ begin \in Nat /\ len \in Nat
      /\ delim \in Quotes \cup {NUL, Undelimited}
  BY DEF LexerInv, TypeOK
<1>1. WordShape /\ WordIsInSource
  BY DEF LexerInv
<1>2. src' = src /\ Size' = Size /\ Size \in Nat
  BY SourceConstant DEF LexerInv
<1>3. \A i \in Nat : At(i)' = At(i)
  BY <1>2 DEF At
<1>4. CASE ~InWord'
  BY <1>4 DEF WordShape
<1>5. CASE UNCHANGED vars
  BY <1>5, <1>1, <1>2 DEF vars, wordVars, WordShape, InWord, Clean, Soiled, Delimited,
     InBounds, At, Size
<1>6. CASE BeginWord
  <2>1. begin' = cur /\ pc' = "word" /\ InBounds
    BY <1>6 DEF BeginWord, Goto
  <2>2. CASE StrChr(Quotes, At(cur))
    BY <1>0, <1>3, <1>6, <2>1, <2>2
       DEF BeginWord, WordShape, Delimited, StrChr, Quotes, NUL, Undelimited
  <2>3. CASE ~StrChr(Quotes, At(cur))
    <3>1. delim' = Undelimited /\ cur' = cur
      BY <1>6, <2>3 DEF BeginWord
    <3>2. Clean'
      BY <1>0, <2>1, <3>1 DEF Clean
    <3> QED BY <1>0, <1>3, <2>1, <2>3, <3>1, <3>2 DEF WordShape, Delimited
  <2> QED BY <2>2, <2>3
<1>7. CASE WordChar
  <2>1. /\ pc = "word" /\ pc' = "word" /\ begin' = begin /\ delim' = delim
        /\ InBounds /\ ~Stops(At(cur)) /\ len' > 0
    BY <1>0, <1>7 DEF WordChar
  <2>2. /\ begin <= cur /\ begin' = begin
        /\ cur' = cur + 1 \/ cur' = cur + 2
    BY <1>0, <1>1, <1>7 DEF WordIsInSource, WordChar
  <2>3. CASE Delimited
    BY <1>0, <1>1, <1>3, <2>1, <2>3 DEF WordShape, InWord, Delimited
  <2>4. CASE ~Delimited
    <3>1. ~EndsWord(At(cur)) /\ At(cur) # NUL
      BY <2>1, <2>4 DEF Stops, EndsWord, StrChr
    <3>2. ~StrChr(Quotes, At(begin)) /\ (Clean \/ Soiled)
      BY <1>1, <2>1, <2>4 DEF WordShape, InWord
    <3>3. ASSUME Soiled PROVE Soiled'
      <4>1. PICK i \in begin .. cur - 1 :
               At(i) = Backslash /\ \A j \in begin .. i : At(j) # NUL
        BY <3>3 DEF Soiled
      <4>2. i \in begin' .. cur' - 1 /\ i \in Nat
        BY <1>0, <2>2
      <4>3. \A j \in begin .. i : j \in Nat
        BY <1>0, <4>2
      <4> QED BY <1>3, <2>1, <4>1, <4>2, <4>3 DEF Soiled
    <3>4. ASSUME Clean, At(cur) = Backslash PROVE Soiled'
      <4>1. \A j \in begin .. cur : j \in Nat /\ At(j) # NUL
        BY <1>0, <2>2, <3>1, <3>4 DEF Clean, EndsWord, StrChr
      <4>2. cur \in begin' .. cur' - 1
        BY <1>0, <2>2
      <4>3. PICK i \in Nat : i = cur
        BY <1>0
      <4> QED BY <1>3, <2>1, <3>4, <4>1, <4>2, <4>3 DEF Soiled
    <3>5. ASSUME Clean, At(cur) # Backslash PROVE Clean'
      <4>1. cur' = cur + 1
        BY <1>7, <3>5 DEF WordChar
      <4>2. \A j \in begin .. cur : j \in Nat /\ ~EndsWord(At(j)) /\ At(j) # Backslash
        BY <1>0, <2>2, <3>1, <3>5 DEF Clean
      <4>3. \A j \in begin' .. cur' - 1 : j \in begin .. cur
        BY <1>0, <2>1, <4>1
      <4> QED BY <1>3, <4>2, <4>3 DEF Clean
    <3>6. Clean' \/ Soiled'
      BY <3>2, <3>3, <3>4, <3>5
    <3> QED BY <1>0, <1>3, <2>1, <2>4, <3>2, <3>6 DEF WordShape, Delimited
  <2> QED BY <2>3, <2>4
<1>8. CASE EndWord
  <2>1. pc = "word" /\ pc' = "classify" /\ begin' = begin /\ delim' = delim
    BY <1>8 DEF EndWord, Goto
  <2>2. CASE Delimited
    BY <1>0, <1>1, <1>2, <1>3, <1>8, <2>1, <2>2
       DEF EndWord, WordShape, InWord, Delimited, Stops, InBounds
  <2>3. CASE ~Delimited
    <3>1. cur' = cur /\ (InBounds => EndsWord(At(cur)))
      BY <1>8, <2>3 DEF EndWord, Stops
    <3>2. ~StrChr(Quotes, At(begin)) /\ (Clean \/ Soiled)
      BY <1>1, <2>1, <2>3 DEF WordShape, InWord
    <3>3. (Clean' <=> Clean) /\ (Soiled' <=> Soiled)
      BY <1>2, <2>1, <3>1 DEF Clean, Soiled, At, Size
    <3>4. At(cur)' = At(cur) /\ InBounds' = InBounds
      BY <1>2, <3>1 DEF At, InBounds
    <3> QED BY <1>0, <1>3, <2>1, <2>3, <3>1, <3>2, <3>3, <3>4
            DEF WordShape, Delimited
  <2> QED BY <2>2, <2>3
<1> HIDE DEF InWord
<1>9. [Next]_vars => ~InWord' \/ UNCHANGED vars \/ BeginWord \/ WordChar \/ EndWord
  BY DEF Next, Trim, Comment, Scan, ReadWord, Classify, SkipBlank, EnterComment,
         EndTrim, LineComment, BlockComment, EndBlockComment, ScanEof, ScanNewline,
         ScanDouble, ScanSingle, UnterminatedLiteral, EmitWord, InvalidIdentifier,
         EmptyWord, Goto, Fail, InWord
<1> QED BY <1>4, <1>5, <1>6, <1>7, <1>8, <1>9

LEMMA InvariantStep == LexerInv /\ [Next]_vars => LexerInv'
BY TypeStep, CursorStep, BehindStep, ShapeStep DEF LexerInv

LEMMA InvariantInit == Init => LexerInv
<1> SUFFICES ASSUME Init PROVE LexerInv
  OBVIOUS
<1>1. TypeOK
  BY LexerAssumption DEF Init, TypeOK, Locations
<1>2. Size \in Nat
  BY <1>1, LexerAssumption DEF TypeOK, Size
<1>3. CursorInSource /\ WordIsInSource
  BY <1>2 DEF Init, CursorInSource, WordIsInSource
<1>4. TokensAreBehind /\ WordShape
  BY DEF Init, TokensAreBehind, WordShape, InWord
<1> QED BY <1>1, <1>3, <1>4 DEF LexerInv

(* The cursor, the word and the tokens fit together in every state of         *)
(* lx_tokenize: LexerInv is inductive.                                        *)
THEOREM LexerInvariant == Spec => []LexerInv
BY InvariantInit, InvariantStep, PTL DEF Spec

(* The cursor never runs away from the text: at most two characters beyond  *)
(* it, and beyond it only where the code tests IN_BOUNDS before it reads.   *)
THEOREM CursorCorrect == Spec => []CursorInSource
<1>1. LexerInv => CursorInSource
  BY DEF LexerInv
<1> QED BY <1>1, LexerInvariant, PTL

(* `len` counts the characters from `begin` to `cur`, and as_ncopy_cstr     *)
(* reads no further than the terminating NUL.                               *)
THEOREM WordCorrect == Spec => []WordIsInSource
<1>1. LexerInv => WordIsInSource
  BY DEF LexerInv
<1> QED BY <1>1, LexerInvariant, PTL

-----------------------------------------------------------------------------
(* Words and the tokens made of them.                                       *)

LEMMA BackslashSpoils ==
  ASSUME NEW w \in Seq(SourceChar), NEW k \in DOMAIN w, w[k] = Backslash,
         ~StrChr(Quotes, w[1])
  PROVE  WordKind(w) = "INVALID"
<1>1. LowerWord(w) \notin Keywords
  <2>1. Backslash \notin Letters
    BY LexerAssumption DEF Named
  <2>2. LowerWord(w)[k] = Backslash /\ k \in DOMAIN LowerWord(w)
    BY <2>1 DEF LowerWord
  <2>3. \A v \in Seq(Letters) : \A i \in DOMAIN v : v[i] \in Letters
    OBVIOUS
  <2> QED BY <2>1, <2>2, <2>3, LexerAssumption
<1>2. w[1] # "sq" /\ ~StrChr({"dq"}, w[1])
  BY DEF StrChr, Quotes
<1>3. ~IsNumber(w)
  BY DEF IsNumber, Backslash, Digits
<1>4. w \notin BoolWords
  <2>1. w # <<"t", "r", "u", "e">>
    BY DEF Backslash
  <2>2. w # <<"f", "a", "l", "s", "e">>
    BY DEF Backslash
  <2> QED BY <2>1, <2>2 DEF BoolWords
<1>5. ~IsIdent(w)
  BY LexerAssumption DEF IsIdent, Backslash, Digits, StrChr, NUL, Named
<1> QED BY <1>1, <1>2, <1>3, <1>4, <1>5 DEF WordKind

(* A word that becomes a token lies inside the text, and if it is not       *)
(* delimited nothing in it ends a word.                                     *)
LEMMA EmittedWord ==
  ASSUME LexerInv, pc = "classify", len > 0, WordKind(Word) # "INVALID"
  PROVE  /\ begin < cur /\ cur <= Size /\ begin + len = cur
         /\ ~Delimited => Clean
<1>1. /\ begin \in Nat /\ len \in Nat /\ cur \in Nat /\ Size \in Nat
      /\ begin + len = cur /\ cur <= Size + 1
  BY SizeIsNat DEF LexerInv, TypeOK, WordIsInSource
<1>2. WordShape /\ InWord
  BY DEF LexerInv, InWord
<1>3. CASE Delimited
  BY <1>1, <1>2, <1>3 DEF WordShape
<1>4. CASE ~Delimited
  <2>1. ~Soiled
    <3> SUFFICES ASSUME Soiled PROVE FALSE
      OBVIOUS
    <3>1. PICK i \in begin .. cur - 1 :
             At(i) = Backslash /\ \A j \in begin .. i : At(j) # NUL
      BY DEF Soiled
    <3>2. Word \in Seq(SourceChar) /\ Len(Word) = len
      BY WordIsSeq DEF LexerInv
    <3>3. i - begin + 1 \in DOMAIN Word /\ 1 \in 1 .. len
      BY <1>1, <3>1, <3>2
    <3>4. Word[i - begin + 1] = Backslash
      BY <1>1, <3>1, <3>2, <3>3 DEF Word
    <3>5. At(begin) # NUL /\ ~StrChr(Quotes, At(begin))
      BY <1>1, <1>2, <1>4, <3>1 DEF WordShape
    <3>6. Word[1] = At(begin)
      BY <1>1, <3>3, <3>5 DEF Word
    <3> QED BY <3>2, <3>3, <3>4, <3>5, <3>6, BackslashSpoils
  <2>2. Clean
    BY <1>2, <1>4, <2>1 DEF WordShape
  <2>3. cur <= Size
    <3> SUFFICES ASSUME cur = Size + 1 PROVE FALSE
      BY <1>1
    <3>1. Size \in begin .. cur - 1
      BY <1>1
    <3>2. At(Size) = NUL
      BY <1>1 DEF At
    <3> QED BY <2>2, <3>1, <3>2 DEF Clean, EndsWord, StrChr
  <2> QED BY <1>1, <2>2, <2>3
<1> QED BY <1>3, <1>4

-----------------------------------------------------------------------------
(* The tokens are a token stream.                                           *)

LEMMA LexemesAppend ==
  ASSUME TypeOK, Len(toks) = Len(spans),
         NEW kind, NEW pos, NEW text, NEW from, NEW to,
         Emit(kind, pos, text, from, to)
  PROVE  Lexemes' = Append(Lexemes, Stream!Lexeme(kind, from, to))
<1>1. /\ toks \in Seq(Token) /\ spans \in Seq(Span)
      /\ toks' = Append(toks, [kind |-> kind, pos |-> pos, text |-> text])
      /\ spans' = Append(spans, [from |-> from, to |-> to])
  BY DEF TypeOK, Emit
<1>2. DOMAIN toks' = 1 .. Len(toks) + 1 /\ DOMAIN toks = 1 .. Len(toks)
  BY <1>1
<1>3. \A i \in 1 .. Len(toks) : toks'[i] = toks[i] /\ spans'[i] = spans[i]
  BY <1>1
<1>4. toks'[Len(toks) + 1].kind = kind /\ spans'[Len(toks) + 1] = [from |-> from, to |-> to]
  BY <1>1
<1> QED BY <1>1, <1>2, <1>3, <1>4 DEF Lexemes, Stream!Lexeme

(* What the stream has consumed is the end of the last token.               *)
LEMMA ConsumedBehind ==
  ASSUME TypeOK, Len(toks) = Len(spans), NEW bound \in Nat,
         spans # <<>> => spans[Len(spans)].to <= bound
  PROVE  Stream!Consumed \in Nat /\ Stream!Consumed <= bound
<1>1. toks \in Seq(Token) /\ spans \in Seq(Span)
  BY DEF TypeOK
<1>2. CASE spans = <<>>
  BY <1>1, <1>2 DEF Stream!Consumed, Lexemes
<1>3. CASE spans # <<>>
  <2>1. Len(spans) \in 1 .. Len(spans)
    BY <1>1, <1>3, EmptySeq
  <2>2. spans[Len(spans)] \in Span
    BY <1>1, <2>1, ElementOfSeq
  <2>3. Len(Lexemes) = Len(spans) /\ Lexemes # <<>>
    BY <1>1, <2>1 DEF Lexemes
  <2>4. Lexemes[Len(spans)].to = spans[Len(spans)].to
    BY <1>1, <2>1 DEF Lexemes
  <2> QED BY <1>3, <2>2, <2>3, <2>4 DEF Stream!Consumed, Span
<1> QED BY <1>2, <1>3

(* A token of a kind other than EOF, made of text that no token has yet.    *)
LEMMA EmitDelivers ==
  ASSUME LexerInv, [Next]_vars, Status = "reading", Status' = "reading",
         NEW kind \in TokenKinds \ {"EOF"}, NEW pos, NEW text,
         NEW from \in Nat, NEW to \in Nat,
         Emit(kind, pos, text, from, to),
         spans # <<>> => spans[Len(spans)].to <= from,
         from < to, to <= Size
  PROVE  Stream!Deliver
<1>1. Lexemes' = Append(Lexemes, Stream!Lexeme(kind, from, to))
  BY LexemesAppend DEF LexerInv, TokensAreBehind
<1>2. Stream!Consumed \in Nat /\ Stream!Consumed <= from
  BY ConsumedBehind DEF LexerInv, TokensAreBehind
<1>3. Size' = Size /\ Size \in Nat
  BY SourceConstant DEF LexerInv
<1>4. from \in Stream!Consumed .. Size - 1 /\ to \in from + 1 .. Size
  BY <1>2, <1>3
<1> QED BY <1>1, <1>3, <1>4 DEF Stream!Deliver

(* Steps that give no token and do not end the call leave the stream alone. *)
LEMMA QuietStep ==
  ASSUME LexerInv, [Next]_vars, UNCHANGED <<toks, spans>>, Status' = Status
  PROVE  UNCHANGED Stream!vars
BY SourceConstant DEF LexerInv, Stream!vars, Lexemes

LEMMA StreamStep ==
  ASSUME LexerInv, [Next]_vars
  PROVE  [Stream!Next]_(Stream!vars)
<1>0. /\ cur \in Nat /\ begin \in Nat /\ len \in Nat /\ TypeOK
      /\ TokensAreBehind /\ CursorInSource /\ WordIsInSource
      /\ Size' = Size /\ Size \in Nat
  BY SourceConstant DEF LexerInv, TypeOK
<1>1. CASE Trim
  <2>1. UNCHANGED <<toks, spans>> /\ Status' = Status
    BY <1>1 DEF Trim, SkipBlank, EnterComment, EndTrim, Goto, outVars, Status
  <2> QED BY <2>1, QuietStep
<1>2. CASE Comment
  <2>1. UNCHANGED <<toks, spans>> /\ Status' = Status
    BY <1>2 DEF Comment, LineComment, BlockComment, EndBlockComment, Goto, outVars,
                Status
  <2> QED BY <2>1, QuietStep
<1>3. CASE Scan
  <2>1. CASE ScanEof
    <3>1. Lexemes' = Append(Lexemes, Stream!Lexeme("EOF", cur, cur))
      BY <1>0, <2>1, LexemesAppend DEF ScanEof, TokensAreBehind
    <3>2. cur \in Size .. Size + 2
      BY <1>0, <2>1 DEF ScanEof, InBounds, CursorInSource
    <3>3. Status = "reading" /\ Status' = "complete"
      BY <2>1 DEF ScanEof, Status, Goto
    <3> QED BY <1>0, <3>1, <3>2, <3>3 DEF Stream!Next, Stream!Finish
  <2>2. CASE ScanNewline
    <3>1. Status = "reading" /\ Status' = "reading"
      BY <2>2 DEF ScanNewline, Status, Goto
    <3>2. Emit("NEWLINE", PosPast(1), <<>>, cur, cur + 1) /\ cur + 1 <= Size
      BY <1>0, <2>2 DEF ScanNewline, InBounds
    <3>3. spans # <<>> => spans[Len(spans)].to <= cur
      BY <1>0, <2>2 DEF TokensAreBehind, InWord, ScanNewline
    <3>4. "NEWLINE" \in TokenKinds \ {"EOF"} /\ cur + 1 \in Nat /\ cur < cur + 1
      BY <1>0 DEF TokenKinds
    <3>5. Stream!Deliver
      BY <1>0, <3>1, <3>2, <3>3, <3>4, EmitDelivers
    <3> QED BY <3>5 DEF Stream!Next
  <2>3. CASE ScanDouble
    <3>1. Status = "reading" /\ Status' = "reading"
      BY <2>3 DEF ScanDouble, Status, Goto
    <3>2. PICK d \in DoubleAt(cur) : Emit(d[3], PosHere(2), <<>>, cur, cur + 2)
      BY <2>3 DEF ScanDouble
    <3>3. spans # <<>> => spans[Len(spans)].to <= cur
      BY <1>0, <2>3 DEF TokensAreBehind, InWord, ScanDouble
    <3>4. d[3] \in TokenKinds \ {"EOF"}
      BY SymbolKindsKnown DEF DoubleAt
    <3>5. cur + 2 \in Nat /\ cur < cur + 2 /\ cur + 2 <= Size
      BY <1>0, <2>3 DEF ScanDouble, AtDouble
    <3>6. Stream!Deliver
      BY <1>0, <3>1, <3>2, <3>3, <3>4, <3>5, EmitDelivers
    <3> QED BY <3>6 DEF Stream!Next
  <2>4. CASE ScanSingle
    <3>1. Status = "reading" /\ Status' = "reading"
      BY <2>4 DEF ScanSingle, Status, Goto
    <3>2. PICK s \in SingleAt(cur) : Emit(s[2], PosHere(1), <<>>, cur, cur + 1)
      BY <2>4 DEF ScanSingle
    <3>3. spans # <<>> => spans[Len(spans)].to <= cur
      BY <1>0, <2>4 DEF TokensAreBehind, InWord, ScanSingle
    <3>4. s[2] \in TokenKinds \ {"EOF"}
      BY SymbolKindsKnown DEF SingleAt
    <3>5. cur + 1 \in Nat /\ cur < cur + 1 /\ cur + 1 <= Size
      BY <1>0, <2>4 DEF ScanSingle, InBounds
    <3>6. Stream!Deliver
      BY <1>0, <3>1, <3>2, <3>3, <3>4, <3>5, EmitDelivers
    <3> QED BY <3>6 DEF Stream!Next
  <2>5. CASE BeginWord
    <3>1. UNCHANGED <<toks, spans>> /\ Status' = Status
      BY <2>5 DEF BeginWord, Goto, outVars, Status
    <3> QED BY <3>1, QuietStep
  <2> QED BY <1>3, <2>1, <2>2, <2>3, <2>4, <2>5 DEF Scan
<1>4. CASE ReadWord
  <2>1. CASE WordChar
    <3>1. UNCHANGED <<toks, spans>> /\ Status' = Status
      BY <2>1 DEF WordChar, outVars, Status
    <3> QED BY <3>1, QuietStep
  <2>2. CASE UnterminatedLiteral
    <3>1. Lexemes' = <<>> /\ Status = "reading" /\ Status' = "rejected"
      BY <2>2 DEF UnterminatedLiteral, Fail, Lexemes, Status
    <3> QED BY <1>0, <3>1 DEF Stream!Next, Stream!Reject
  <2>3. CASE EndWord
    <3>1. UNCHANGED <<toks, spans>> /\ Status' = Status
      BY <2>3 DEF EndWord, Goto, outVars, Status
    <3> QED BY <3>1, QuietStep
  <2> QED BY <1>4, <2>1, <2>2, <2>3 DEF ReadWord
<1>5. CASE Classify
  <2>1. CASE EmitWord
    <3>1. Status = "reading" /\ Status' = "reading"
      BY <2>1 DEF EmitWord, Status, Goto
    <3>2. begin + len \in Nat /\ begin < begin + len /\ begin + len <= Size
      BY <1>0, <2>1, EmittedWord DEF EmitWord
    <3>3. spans # <<>> => spans[Len(spans)].to <= begin
      BY <1>0, <2>1 DEF TokensAreBehind, InWord, EmitWord
    <3>4. WordKind(Word) \in TokenKinds \ {"EOF"}
      BY <2>1, WordKindKnown DEF EmitWord
    <3>5. Emit(WordKind(Word), PosPast(len), WordText(Word), begin, begin + len)
      BY <2>1 DEF EmitWord
    <3>6. Stream!Deliver
      BY <1>0, <3>1, <3>2, <3>3, <3>4, <3>5, EmitDelivers
    <3> QED BY <3>6 DEF Stream!Next
  <2>2. CASE InvalidIdentifier
    <3>1. Lexemes' = <<>> /\ Status = "reading" /\ Status' = "rejected"
      BY <2>2 DEF InvalidIdentifier, Fail, Lexemes, Status
    <3> QED BY <1>0, <3>1 DEF Stream!Next, Stream!Reject
  <2>3. CASE EmptyWord
    <3>1. Lexemes' = Lexemes /\ Status = "reading" /\ Status' = "crashed"
      BY <2>3 DEF EmptyWord, Goto, outVars, Lexemes, Status
    <3> QED BY <1>0, <3>1 DEF Stream!Next, Stream!Crash
  <2> QED BY <1>5, <2>1, <2>2, <2>3 DEF Classify
<1>6. CASE UNCHANGED vars
  <2>1. UNCHANGED <<toks, spans>> /\ Status' = Status
    BY <1>6 DEF vars, outVars, Status
  <2> QED BY <2>1, QuietStep
<1> QED BY <1>1, <1>2, <1>3, <1>4, <1>5, <1>6 DEF Next

(* lx_tokenize gives its caller a token stream of the source: lexemes in    *)
(* order, none empty, none overlapping another, none beyond the text, one   *)
(* EOF at the end of a complete stream and no token of a rejected text.     *)
THEOREM LexerImplementsTokenStream == Spec => ImplementsTokenStream
<1>1. Init => Stream!Init
  <2> SUFFICES ASSUME Init PROVE Stream!Init
    OBVIOUS
  <2>1. Size \in Nat
    BY InvariantInit, SizeIsNat DEF LexerInv
  <2>2. Lexemes = <<>> /\ Status = "reading"
    BY DEF Init, Lexemes, Status
  <2> QED BY <2>1, <2>2 DEF Stream!Init
<1>2. LexerInv /\ [Next]_vars => [Stream!Next]_(Stream!vars)
  BY StreamStep
<1> QED BY <1>1, <1>2, LexerInvariant, PTL DEF Spec, ImplementsTokenStream, Stream!Spec

-----------------------------------------------------------------------------
(* Progress.                                                                *)

LEMMA RankValues ==
  \A n \in Nat :
    /\ Rank("line", n) = 5 /\ Rank("block", n) = 5
    /\ Rank("trim", n) = 4 /\ Rank("scan", n) = 3
    /\ Rank("word", n) = IF n = 0 THEN 2 ELSE 6
    /\ Rank("classify", n) = IF n = 0 THEN 1 ELSE 5
    /\ Rank("done", n) = 0 /\ Rank("failed", n) = 0 /\ Rank("panic", n) = 0
BY DEF Rank

LEMMA MeasureStep ==
  ASSUME LexerInv, Next
  PROVE  Measure' \in 0 .. Measure - 1
<1>0. /\ cur \in Nat /\ len \in Nat /\ pc \in Locations \cup Ended
      /\ cur' \in Nat /\ len' \in Nat /\ pc' \in Locations \cup Ended
  BY TypeStep DEF LexerInv, TypeOK
<1>1. Size \in Nat /\ Size' = Size
  BY SourceConstant DEF LexerInv
<1>2. cur <= Size + 2 /\ cur' <= Size + 2
  BY <1>1, CursorStep DEF LexerInv, CursorInSource
<1>3. Rank(pc, len) \in 0 .. 6 /\ Rank(pc', len') \in 0 .. 6
  BY <1>0, RankValues DEF Locations, Ended
<1> SUFFICES 8 * (cur' - cur) + Rank(pc, len) - Rank(pc', len') > 0
  BY <1>0, <1>1, <1>2, <1>3 DEF Measure
<1> USE <1>0, RankValues
<1>7. CASE Trim
  <2>1. CASE SkipBlank
    BY <2>1 DEF SkipBlank
  <2>2. CASE EnterComment
    BY <2>2 DEF EnterComment, Goto
  <2>3. CASE EndTrim
    BY <2>3 DEF EndTrim, Goto
  <2> QED BY <1>7, <2>1, <2>2, <2>3 DEF Trim
<1>8. CASE Comment
  <2>1. CASE LineComment
    BY <2>1 DEF LineComment, Goto
  <2>2. CASE BlockComment
    BY <2>2 DEF BlockComment, BumpNewline
  <2>3. CASE EndBlockComment
    BY <2>3 DEF EndBlockComment, Goto
  <2> QED BY <1>8, <2>1, <2>2, <2>3 DEF Comment
<1>9. CASE Scan
  <2>1. CASE ScanEof
    BY <2>1 DEF ScanEof, Goto
  <2>2. CASE ScanNewline
    BY <2>2 DEF ScanNewline, BumpNewline, Goto
  <2>3. CASE ScanDouble
    BY <2>3 DEF ScanDouble, Goto
  <2>4. CASE ScanSingle
    BY <2>4 DEF ScanSingle, Goto
  <2>5. CASE BeginWord
    BY <2>5 DEF BeginWord, Goto
  <2> QED BY <1>9, <2>1, <2>2, <2>3, <2>4, <2>5 DEF Scan
<1>10. CASE ReadWord
  <2>1. CASE WordChar
    BY <2>1 DEF WordChar
  <2>2. CASE UnterminatedLiteral
    BY <2>2 DEF UnterminatedLiteral, Fail
  <2>3. CASE EndWord
    BY <2>3 DEF EndWord, Goto
  <2> QED BY <1>10, <2>1, <2>2, <2>3 DEF ReadWord
<1>11. CASE Classify
  <2>1. CASE EmitWord
    BY <2>1 DEF EmitWord, Goto
  <2>2. CASE InvalidIdentifier
    BY <2>2 DEF InvalidIdentifier, Fail
  <2>3. CASE EmptyWord
    BY <2>3 DEF EmptyWord, Goto
  <2> QED BY <1>11, <2>1, <2>2, <2>3 DEF Classify
<1> QED BY <1>7, <1>8, <1>9, <1>10, <1>11 DEF Next

(* Every step of lx_tokenize brings its end nearer: no loop of the scanner  *)
(* runs for ever on any text.                                               *)
THEOREM LexerProgress == Spec => EveryStepCounts
<1>1. LexerInv /\ [Next]_vars => [Measure' \in 0 .. Measure - 1]_vars
  BY MeasureStep
<1> QED BY <1>1, LexerInvariant, PTL DEF Spec, EveryStepCounts
-----------------------------------------------------------------------------
(* What the text says of the tokens.                                        *)

(* What the characters from a up to b are, for a token of kind k.           *)
IsSymbol(a, b) ==
  \/ b = a + 2 /\ b < Size
  \/ b = a + 1 /\ a < Size /\ SingleAt(a) # {} /\ (a + 2 < Size => ~SpellsMarker(a))
ClosesAt(f, last) ==
  ~Escaped(f, last) /\ \A j \in f + 1 .. last - 1 : At(j) = At(f) => Escaped(f, j)
IsLiteral(a, b) ==
  StrChr(Quotes, At(a)) /\ a < b - 1 /\ At(b - 1) = At(a) /\ ClosesAt(a, b - 1)
IsWord(a, b) ==
  /\ \A j \in a .. b - 1 : ~EndsWord(At(j)) /\ At(j) # Backslash
  /\ b < Size => EndsWord(At(b))
IsLexeme(k, a, b) ==
  /\ k = "EOF" => b = a /\ a >= Size
  /\ k # "EOF" => a < b
  /\ k = "NEWLINE" => At(a) = NL
  /\ k \in SymbolKinds => IsSymbol(a, b)
  /\ k \in LiteralKinds => IsLiteral(a, b)
  /\ k \in WordKinds => IsWord(a, b)

LexemesAreWhole ==
  \A i \in DOMAIN toks : IsLexeme(toks[i].kind, spans[i].from, spans[i].to)

(* The run of k backslashes before j, in a literal that opens at f.          *)
IsRun(f, j, k) ==
  /\ f < j /\ k \in 0 .. j - f - 1
  /\ \A m \in 1 .. k : At(j - m) = Backslash
  /\ j - k - 1 = f \/ At(j - k - 1) # Backslash

(* Where lx_next_token has got to: no blank and no comment is left, a word    *)
(* begins with no symbol, and a literal is open.                             *)
NothingToTrim ==
  pc = "scan" => /\ InBounds => At(cur) \notin Blanks
                 /\ ~AtComment("/") /\ ~AtComment("*")
WordBegins ==
  InWord =>
    /\ At(begin) \notin Blanks \cup {NL} /\ SingleAt(begin) = {}
    /\ begin + 2 < Size => DoubleAt(begin) = {}
LiteralIsOpen ==
  /\ pc = "word" /\ Delimited => /\ ClosesAt(begin, cur)
                                 /\ \E k \in Nat : IsRun(begin, cur, k) /\ k % 2 # 1
  /\ pc = "classify" /\ Delimited => ClosesAt(begin, cur - 1)
NotFailedYet == pc \notin Ended => error # "EOF"

TextInv ==
  /\ LexerInv /\ LexemesAreWhole /\ NothingToTrim /\ WordBegins /\ LiteralIsOpen
  /\ NotFailedYet /\ FailuresAreJust

LEMMA TextStays ==
  ASSUME src' = src
  PROVE  /\ Size' = Size /\ \A i : At(i)' = At(i)
         /\ \A i : DoubleAt(i)' = DoubleAt(i) /\ SingleAt(i)' = SingleAt(i)
         /\ \A f, j : Escaped(f, j)' <=> Escaped(f, j)
         /\ \A k, a, b : IsLexeme(k, a, b)' <=> IsLexeme(k, a, b)
         /\ \A f, j : ClosesAt(f, j)' <=> ClosesAt(f, j)
<1>1. Size' = Size /\ \A i : At(i)' = At(i)
  BY DEF Size, At
<1>2. \A i : DoubleAt(i)' = DoubleAt(i) /\ SingleAt(i)' = SingleAt(i)
  BY <1>1 DEF DoubleAt, SingleAt
<1>3. \A f, j : Escaped(f, j)' <=> Escaped(f, j)
  BY <1>1 DEF Escaped
<1>4. \A f, j : ClosesAt(f, j)' <=> ClosesAt(f, j)
  BY <1>1, <1>3 DEF ClosesAt
<1>5. \A i : SpellsMarker(i)' <=> SpellsMarker(i)
  BY <1>1, <1>2 DEF SpellsMarker
<1>6. \A a, b : IsSymbol(a, b)' <=> IsSymbol(a, b)
  BY <1>1, <1>2, <1>5 DEF IsSymbol
<1>7. \A a, b : IsLiteral(a, b)' <=> IsLiteral(a, b)
  BY <1>1, <1>4 DEF IsLiteral
<1>8. \A a, b : IsWord(a, b)' <=> IsWord(a, b)
  BY <1>1 DEF IsWord
<1>9. \A k, a, b : IsLexeme(k, a, b)' <=> IsLexeme(k, a, b)
  BY <1>1, <1>6, <1>7, <1>8 DEF IsLexeme
<1> QED  BY <1>1, <1>2, <1>3, <1>4, <1>9

(* The tokens that Emit leaves.                                             *)
LEMMA EmitParts ==
  ASSUME TypeOK, Len(toks) = Len(spans),
         NEW kind, NEW pos, NEW text, NEW from, NEW to,
         Emit(kind, pos, text, from, to)
  PROVE  LET n == Len(toks)
         IN  /\ n \in Nat /\ DOMAIN toks = 1 .. n /\ DOMAIN spans = 1 .. n
             /\ DOMAIN toks' = 1 .. n + 1 /\ DOMAIN spans' = 1 .. n + 1
             /\ Len(spans') = n + 1 /\ Len(toks') = n + 1
             /\ \A i \in 1 .. n : toks'[i] = toks[i] /\ spans'[i] = spans[i]
             /\ toks'[n + 1].kind = kind /\ toks'[n + 1].pos = pos
             /\ spans'[n + 1].from = from /\ spans'[n + 1].to = to
             /\ \A i \in 1 .. n + 1 : i \in 1 .. n \/ i = n + 1
<1> DEFINE n == Len(toks)
<1>1. /\ toks \in Seq(Token) /\ spans \in Seq(Span)
      /\ toks' = Append(toks, [kind |-> kind, pos |-> pos, text |-> text])
      /\ spans' = Append(spans, [from |-> from, to |-> to])
  BY DEF TypeOK, Emit
<1>2. n \in Nat /\ DOMAIN toks = 1 .. n /\ DOMAIN spans = 1 .. n
  BY <1>1
<1>3. DOMAIN toks' = 1 .. n + 1 /\ DOMAIN spans' = 1 .. n + 1
  BY <1>1
<1>4. Len(spans') = n + 1 /\ Len(toks') = n + 1
  BY <1>1
<1>5. \A i \in 1 .. n : toks'[i] = toks[i] /\ spans'[i] = spans[i]
  BY <1>1
<1>6. /\ toks'[n + 1] = [kind |-> kind, pos |-> pos, text |-> text]
      /\ spans'[n + 1] = [from |-> from, to |-> to]
  BY <1>1
<1>7. \A i \in 1 .. n + 1 : i \in 1 .. n \/ i = n + 1
  BY <1>2
<1> HIDE DEF n
<1> QED  BY <1>2, <1>3, <1>4, <1>5, <1>6, <1>7 DEF n

LEMMA EmitKeepsWhole ==
  ASSUME LexerInv, LexemesAreWhole, src' = src,
         NEW kind, NEW pos, NEW text, NEW from, NEW to,
         Emit(kind, pos, text, from, to), IsLexeme(kind, from, to)
  PROVE  LexemesAreWhole'
<1> DEFINE n == Len(toks)
<1>1. /\ DOMAIN toks = 1 .. n /\ DOMAIN toks' = 1 .. n + 1
      /\ \A i \in 1 .. n : toks'[i] = toks[i] /\ spans'[i] = spans[i]
      /\ toks'[n + 1].kind = kind /\ spans'[n + 1].from = from /\ spans'[n + 1].to = to
      /\ \A i \in 1 .. n + 1 : i \in 1 .. n \/ i = n + 1
  BY EmitParts DEF LexerInv, TokensAreBehind
<1>2. \A k, a, b : IsLexeme(k, a, b)' <=> IsLexeme(k, a, b)
  BY TextStays
<1> HIDE DEF n
<1>3. ASSUME NEW i \in DOMAIN toks'
      PROVE  IsLexeme(toks'[i].kind, spans'[i].from, spans'[i].to)
  BY <1>1, <1>3 DEF LexemesAreWhole
<1> QED  BY <1>2, <1>3 DEF LexemesAreWhole

-----------------------------------------------------------------------------
(* Which characters of a literal are escaped.                                *)

LEMMA RunGrows ==
  ASSUME NEW f \in Nat, NEW j \in Nat, NEW k \in Nat, IsRun(f, j, k)
  PROVE  /\ At(j) = Backslash => IsRun(f, j + 1, k + 1)
         /\ At(j) # Backslash => IsRun(f, j + 1, 0)
<1>1. /\ f < j /\ k \in 0 .. j - f - 1
      /\ \A m \in 1 .. k : At(j - m) = Backslash
      /\ j - k - 1 = f \/ At(j - k - 1) # Backslash
  BY DEF IsRun
<1>2. ASSUME At(j) = Backslash PROVE IsRun(f, j + 1, k + 1)
  <2>1. f < j + 1 /\ k + 1 \in 0 .. (j + 1) - f - 1 /\ (j + 1) - (k + 1) - 1 = j - k - 1
    BY <1>1
  <2>2. ASSUME NEW m \in 1 .. k + 1 PROVE At((j + 1) - m) = Backslash
    <3>1. CASE m = 1
      <4>1. (j + 1) - m = j
        BY <3>1
      <4> QED  BY <1>2, <4>1
    <3>2. CASE m # 1
      <4>1. m - 1 \in 1 .. k /\ (j + 1) - m = j - (m - 1)
        BY <3>2
      <4> QED  BY <1>1, <4>1
    <3> QED  BY <3>1, <3>2
  <2> QED  BY <1>1, <2>1, <2>2 DEF IsRun
<1>3. ASSUME At(j) # Backslash PROVE IsRun(f, j + 1, 0)
  <2>1. f < j + 1 /\ 0 \in 0 .. (j + 1) - f - 1 /\ (j + 1) - 0 - 1 = j
    BY <1>1
  <2>2. \A m \in 1 .. 0 : FALSE
    OBVIOUS
  <2> QED  BY <1>3, <2>1, <2>2 DEF IsRun
<1> QED  BY <1>2, <1>3

(* There is one run before a character, and it tells whether it is escaped.  *)
LEMMA RunDecides ==
  ASSUME NEW f \in Nat, NEW j \in Nat, NEW k \in Nat, IsRun(f, j, k)
  PROVE  Escaped(f, j) <=> k % 2 = 1
<1>1. ASSUME NEW a \in Nat, NEW b \in Nat, IsRun(f, j, a), IsRun(f, j, b), a < b
      PROVE  FALSE
  <2>1. b <= j - f - 1 /\ a + 1 \in 1 .. b /\ j - (a + 1) = j - a - 1 /\ j - a - 1 # f
    BY <1>1 DEF IsRun
  <2>2. At(j - a - 1) = Backslash
    <3>1. At(j - (a + 1)) = Backslash
      BY <1>1, <2>1 DEF IsRun
    <3> QED  BY <2>1, <3>1
  <2>3. At(j - a - 1) # Backslash
    BY <1>1, <2>1 DEF IsRun
  <2> QED  BY <2>2, <2>3
<1>2. ASSUME NEW a \in Nat, IsRun(f, j, a) PROVE a = k
  <2>1. a < k \/ k < a \/ a = k
    OBVIOUS
  <2> QED  BY <1>1, <1>2, <2>1
<1>3. ASSUME NEW a \in 1 .. j - f - 1
      PROVE  /\ a \in Nat
             /\ IsRun(f, j, a) <=>
                  (/\ \A m \in 1 .. a : At(j - m) = Backslash
                   /\ j - a - 1 = f \/ At(j - a - 1) # Backslash)
  <2>1. a \in 0 .. j - f - 1 /\ f < j /\ a \in Nat
    OBVIOUS
  <2> QED  BY <2>1 DEF IsRun
<1>4. ASSUME Escaped(f, j) PROVE k % 2 = 1
  <2>1. PICK a \in 1 .. j - f - 1 : a % 2 = 1 /\ IsRun(f, j, a)
    BY <1>3, <1>4 DEF Escaped
  <2> QED  BY <1>2, <1>3, <2>1
<1>5. ASSUME k % 2 = 1 PROVE Escaped(f, j)
  <2>1. k # 0
    <3>1. 0 % 2 # 1
      OBVIOUS
    <3> QED  BY <1>5, <3>1
  <2>2. k \in 1 .. j - f - 1
    BY <2>1 DEF IsRun
  <2> QED  BY <1>3, <1>5, <2>2 DEF Escaped
<1> QED  BY <1>4, <1>5

LEMMA Parity ==
  ASSUME NEW k \in Nat, k % 2 # 1
  PROVE  (k + 1) % 2 = 1 /\ ((k + 1) + 1) % 2 # 1 /\ 0 % 2 # 1
OBVIOUS

(* A character that is no delimiter, or one behind a backslash.              *)
LEMMA OpenGrows ==
  ASSUME NEW f \in Nat, NEW j \in Nat, ClosesAt(f, j),
         NEW k \in Nat, IsRun(f, j, k), k % 2 # 1, At(j) # At(f)
  PROVE  /\ At(j) # Backslash => ClosesAt(f, j + 1) /\ IsRun(f, j + 1, 0)
         /\ At(j) = Backslash =>
              /\ ClosesAt(f, j + 2)
              /\ \E l \in Nat : IsRun(f, j + 2, l) /\ l % 2 # 1
<1>1. /\ j + 1 \in Nat /\ j + 2 \in Nat /\ (j + 1) + 1 = j + 2 /\ k + 1 \in Nat
      /\ (k + 1) + 1 \in Nat /\ 0 \in Nat
      /\ \A m \in f + 1 .. (j + 1) - 1 : m \in f + 1 .. j - 1 \/ m = j
      /\ \A m \in f + 1 .. (j + 2) - 1 : m \in f + 1 .. j - 1 \/ m = j \/ m = j + 1
  OBVIOUS
<1>2. (k + 1) % 2 = 1 /\ ((k + 1) + 1) % 2 # 1 /\ 0 % 2 # 1
  BY Parity
<1>3. \A m \in f + 1 .. j - 1 : At(m) = At(f) => Escaped(f, m)
  BY DEF ClosesAt
<1>4. ASSUME At(j) # Backslash PROVE ClosesAt(f, j + 1) /\ IsRun(f, j + 1, 0)
  <2>1. IsRun(f, j + 1, 0)
    BY <1>4, RunGrows
  <2>2. ~Escaped(f, j + 1)
    BY <1>1, <1>2, <2>1, RunDecides
  <2> QED  BY <1>1, <1>3, <2>1, <2>2 DEF ClosesAt
<1>5. ASSUME At(j) = Backslash
      PROVE  /\ ClosesAt(f, j + 2)
             /\ \E l \in Nat : IsRun(f, j + 2, l) /\ l % 2 # 1
  <2>1. IsRun(f, j + 1, k + 1)
    BY <1>5, RunGrows
  <2>2. Escaped(f, j + 1)
    BY <1>1, <1>2, <2>1, RunDecides
  <2>3. IsRun(f, (j + 1) + 1, (k + 1) + 1) \/ IsRun(f, (j + 1) + 1, 0)
    BY <1>1, <2>1, RunGrows
  <2>4. PICK l \in Nat : IsRun(f, j + 2, l) /\ l % 2 # 1
    BY <1>1, <1>2, <2>3
  <2>5. ~Escaped(f, j + 2)
    BY <1>1, <2>4, RunDecides
  <2> QED  BY <1>1, <1>3, <2>2, <2>4, <2>5 DEF ClosesAt
<1> QED  BY <1>4, <1>5

LEMMA OpensHere ==
  ASSUME NEW f \in Nat
  PROVE  ClosesAt(f, f + 1) /\ IsRun(f, f + 1, 0) /\ 0 % 2 # 1
<1>1. f + 1 \in Nat /\ 0 \in 0 .. (f + 1) - f - 1 /\ (f + 1) - 0 - 1 = f /\ f < f + 1
  OBVIOUS
<1>2. (\A m \in 1 .. 0 : FALSE) /\ \A m \in f + 1 .. (f + 1) - 1 : FALSE
  OBVIOUS
<1>3. IsRun(f, f + 1, 0)
  BY <1>1, <1>2 DEF IsRun
<1>4. 0 % 2 # 1 /\ 0 \in Nat
  OBVIOUS
<1>5. ~Escaped(f, f + 1)
  BY <1>1, <1>3, <1>4, RunDecides
<1> QED  BY <1>2, <1>3, <1>4, <1>5 DEF ClosesAt

-----------------------------------------------------------------------------
(* The tokens of every step.                                                *)

LEMMA KindsDiffer ==
  /\ \A k \in SymbolKinds : k \notin LiteralKinds \cup WordKinds \cup {"EOF", "NEWLINE"}
  /\ \A k \in LiteralKinds : k \notin WordKinds \cup {"EOF", "NEWLINE"}
  /\ \A k \in WordKinds : k \notin {"EOF", "NEWLINE"}
<1>1. \A d \in DoubleSymbols : d[3] \notin LiteralKinds \cup WordKinds \cup {"EOF", "NEWLINE"}
  BY DEF DoubleSymbols, LiteralKinds, WordKinds
<1>2. \A t \in SingleSymbols : t[2] \notin LiteralKinds \cup WordKinds \cup {"EOF", "NEWLINE"}
  BY DEF SingleSymbols, LiteralKinds, WordKinds
<1>3. \A k \in SymbolKinds : (\E d \in DoubleSymbols : k = d[3]) \/ (\E t \in SingleSymbols : k = t[2])
  BY DEF SymbolKinds
<1>4. \A k \in SymbolKinds : k \notin LiteralKinds \cup WordKinds \cup {"EOF", "NEWLINE"}
  BY <1>1, <1>2, <1>3
<1> QED  BY <1>4 DEF LiteralKinds, WordKinds

(* A word is a literal if and only if it has a delimiter.                    *)
LEMMA LiteralIsDelimited ==
  ASSUME LexerInv, pc = "classify", len > 0, WordKind(Word) # "INVALID"
  PROVE  /\ WordKind(Word) \in LiteralKinds => Delimited
         /\ WordKind(Word) \in WordKinds => ~Delimited
         /\ WordKind(Word) \in LiteralKinds \cup WordKinds
<1>1. Word \in Seq(SourceChar) /\ Len(Word) = len /\ 1 \in 1 .. len /\ begin \in Nat
  BY WordIsSeq DEF LexerInv, TypeOK
<1>2. Word[1] = At(begin)
  <2>1. \A j \in begin .. begin + 1 - 1 : j = begin
    BY <1>1
  <2>2. begin \in begin .. begin + 1 - 1 /\ begin + 1 - 1 = begin
    BY <1>1
  <2>3. Word[1] = IF \E j \in begin .. begin + 1 - 1 : At(j) = NUL THEN NUL
                  ELSE At(begin + 1 - 1)
    BY <1>1 DEF Word
  <2> QED  BY <2>1, <2>2, <2>3
<1>3. /\ Delimited => StrChr(Quotes, Word[1])
      /\ ~Delimited => ~StrChr(Quotes, Word[1])
  BY <1>2 DEF LexerInv, WordShape, InWord
<1>4. WordKind(Word) \in LiteralKinds \cup WordKinds
  BY DEF WordKind, LiteralKinds, WordKinds
<1>5. ASSUME Delimited PROVE WordKind(Word) \in LiteralKinds
  <2>1. Word[1] \in Quotes \cup {NUL}
    BY <1>3, <1>5 DEF StrChr
  <2>2. Word[1] \notin Letters
    BY <2>1, LexerAssumption DEF Named
  <2>3. LowerWord(Word)[1] = Word[1] /\ 1 \in DOMAIN LowerWord(Word)
    BY <1>1, <2>2 DEF LowerWord
  <2>4. \A v \in Seq(Letters) : \A i \in DOMAIN v : v[i] \in Letters
    OBVIOUS
  <2>5. LowerWord(Word) \notin Keywords
    BY <2>2, <2>3, <2>4, LexerAssumption
  <2>6. Word[1] = "sq" \/ StrChr({"dq"}, Word[1])
    BY <2>1 DEF Quotes, StrChr
  <2>7. ~IsNumber(Word)
    <3>1. Word[1] \notin Digits \cup {"."} /\ 1 \in DOMAIN Word
      BY <1>1, <2>6 DEF StrChr, Digits, NUL
    <3> QED  BY <3>1 DEF IsNumber
  <2>8. Word \notin BoolWords
    <3>1. Word[1] # "t" /\ Word[1] # "f"
      BY <2>6 DEF StrChr, NUL
    <3> QED  BY <3>1 DEF BoolWords
  <2>9. ~IsIdent(Word)
    BY <2>2, <2>6 DEF IsIdent, StrChr, NUL
  <2>10. "LITERAL_CHAR" \in LiteralKinds /\ "LITERAL_STRING" \in LiteralKinds
    BY DEF LiteralKinds
  <2> QED  BY <2>5, <2>6, <2>7, <2>8, <2>9, <2>10 DEF WordKind
<1>6. ASSUME ~Delimited PROVE WordKind(Word) \notin LiteralKinds
  BY <1>3, <1>6 DEF WordKind, LiteralKinds, StrChr, Quotes
<1> QED  BY <1>4, <1>5, <1>6, KindsDiffer

LEMMA EmittedWordIsWhole ==
  ASSUME TextInv, pc = "classify", len > 0, WordKind(Word) # "INVALID"
  PROVE  IsLexeme(WordKind(Word), begin, begin + len)
<1>1. /\ begin < cur /\ cur <= Size /\ begin + len = cur /\ (~Delimited => Clean)
      /\ begin \in Nat /\ cur \in Nat
  BY EmittedWord DEF TextInv, LexerInv, TypeOK
<1>2. WordShape /\ LiteralIsOpen /\ InWord
  BY DEF TextInv, LexerInv, InWord
<1>3. /\ WordKind(Word) \in LiteralKinds => Delimited
      /\ WordKind(Word) \in WordKinds => ~Delimited
      /\ WordKind(Word) \in LiteralKinds \cup WordKinds
  BY LiteralIsDelimited DEF TextInv
<1>4. ASSUME Delimited PROVE IsLiteral(begin, cur)
  <2>1. StrChr(Quotes, At(begin)) /\ At(cur - 1) = At(begin) /\ 2 <= len
    BY <1>2, <1>4 DEF WordShape
  <2>2. ClosesAt(begin, cur - 1)
    BY <1>4 DEF TextInv, LiteralIsOpen
  <2>3. begin < cur - 1
    BY <1>1, <2>1 DEF TextInv, LexerInv, TypeOK
  <2> QED  BY <2>1, <2>2, <2>3 DEF IsLiteral
<1>5. ASSUME ~Delimited PROVE IsWord(begin, cur)
  <2>1. Clean /\ (InBounds => EndsWord(At(cur)))
    BY <1>1, <1>2, <1>5 DEF WordShape
  <2> QED  BY <2>1 DEF IsWord, Clean, InBounds
<1>6. /\ WordKind(Word) \in LiteralKinds => IsLiteral(begin, cur)
      /\ WordKind(Word) \in WordKinds => IsWord(begin, cur)
  BY <1>3, <1>4, <1>5
<1> QED  BY <1>1, <1>3, <1>6, KindsDiffer DEF IsLexeme

LEMMA LexemesStep ==
  ASSUME TextInv, [Next]_vars PROVE LexemesAreWhole'
<1>0. /\ src' = src /\ Size' = Size /\ Size \in Nat /\ cur \in Nat /\ begin \in Nat
      /\ LexerInv /\ LexemesAreWhole
  BY SourceConstant DEF TextInv, LexerInv, TypeOK
<1>1. ASSUME UNCHANGED <<toks, spans>> PROVE LexemesAreWhole'
  <2>1. \A k, a, b : IsLexeme(k, a, b)' <=> IsLexeme(k, a, b)
    BY <1>0, TextStays
  <2> QED  BY <1>0, <1>1, <2>1 DEF LexemesAreWhole
<1>2. ASSUME toks' = <<>> PROVE LexemesAreWhole'
  BY <1>2 DEF LexemesAreWhole
<1>3. ASSUME NEW kind, NEW pos, NEW text, NEW from, NEW to,
             Emit(kind, pos, text, from, to), IsLexeme(kind, from, to)
      PROVE  LexemesAreWhole'
  BY <1>0, <1>3, EmitKeepsWhole
<1>4. CASE ScanEof
  <2>1. Emit("EOF", PosPast(1), <<>>, cur, cur) /\ cur >= Size
    BY <1>0, <1>4 DEF ScanEof, InBounds
  <2>2. IsLexeme("EOF", cur, cur)
    BY <1>0, <2>1, KindsDiffer DEF IsLexeme
  <2> QED  BY <1>3, <2>1, <2>2
<1>5. CASE ScanNewline
  <2>1. Emit("NEWLINE", PosPast(1), <<>>, cur, cur + 1) /\ At(cur) = NL
    BY <1>5 DEF ScanNewline
  <2>2. IsLexeme("NEWLINE", cur, cur + 1)
    BY <1>0, <2>1, KindsDiffer DEF IsLexeme
  <2> QED  BY <1>3, <2>1, <2>2
<1>6. CASE ScanDouble
  <2>1. cur + 2 < Size /\ cur < cur + 2
    BY <1>0, <1>6 DEF ScanDouble, AtDouble
  <2>2. PICK d \in DoubleAt(cur) : Emit(d[3], PosHere(2), <<>>, cur, cur + 2)
    BY <1>6 DEF ScanDouble
  <2>3. d[3] \in SymbolKinds
    BY DEF DoubleAt, SymbolKinds
  <2>4. IsSymbol(cur, cur + 2)
    BY <2>1 DEF IsSymbol
  <2>5. IsLexeme(d[3], cur, cur + 2)
    BY <2>1, <2>3, <2>4, KindsDiffer DEF IsLexeme
  <2> QED  BY <1>3, <2>2, <2>5
<1>7. CASE ScanSingle
  <2>1. cur < Size /\ ~AtDouble /\ pc = "scan" /\ cur < cur + 1
    BY <1>0, <1>7 DEF ScanSingle, InBounds
  <2>2. PICK t \in SingleAt(cur) : Emit(t[2], PosHere(1), <<>>, cur, cur + 1)
    BY <1>7 DEF ScanSingle
  <2>3. t[2] \in SymbolKinds
    BY DEF SingleAt, SymbolKinds
  <2>4. ~AtComment("/") /\ ~AtComment("*")
    BY <2>1 DEF TextInv, NothingToTrim
  <2>5. cur + 2 < Size => ~SpellsMarker(cur)
    BY <2>1, <2>4 DEF SpellsMarker, AtDouble, AtComment
  <2>6. IsSymbol(cur, cur + 1)
    BY <2>1, <2>2, <2>5 DEF IsSymbol
  <2>7. IsLexeme(t[2], cur, cur + 1)
    BY <2>1, <2>3, <2>6, KindsDiffer DEF IsLexeme
  <2> QED  BY <1>3, <2>2, <2>7
<1>8. CASE EmitWord
  <2>1. /\ pc = "classify" /\ len > 0 /\ WordKind(Word) # "INVALID"
        /\ Emit(WordKind(Word), PosPast(len), WordText(Word), begin, begin + len)
    BY <1>8 DEF EmitWord
  <2>2. IsLexeme(WordKind(Word), begin, begin + len)
    BY <2>1, EmittedWordIsWhole
  <2> QED  BY <1>3, <2>1, <2>2
<1>9. CASE UnterminatedLiteral \/ InvalidIdentifier
  BY <1>2, <1>9 DEF UnterminatedLiteral, InvalidIdentifier, Fail
<1>10. \/ ScanEof \/ ScanNewline \/ ScanDouble \/ ScanSingle \/ EmitWord
       \/ UnterminatedLiteral \/ InvalidIdentifier \/ UNCHANGED <<toks, spans>>
  BY DEF Next, Trim, Comment, Scan, ReadWord, Classify, SkipBlank, EnterComment,
         EndTrim, LineComment, BlockComment, EndBlockComment, BeginWord, WordChar,
         EndWord, EmptyWord, vars, outVars
<1> QED  BY <1>1, <1>4, <1>5, <1>6, <1>7, <1>8, <1>9, <1>10

LEMMA TrimmedStep ==
  ASSUME TextInv, [Next]_vars PROVE NothingToTrim'
<1>0. src' = src /\ Size' = Size /\ \A i : At(i)' = At(i)
  BY SourceConstant, TextStays DEF TextInv, LexerInv
<1>1. CASE pc' # "scan"
  BY <1>1 DEF NothingToTrim
<1>2. CASE EndTrim
  <2>1. /\ InBounds => At(cur) \notin Blanks
        /\ ~AtComment("/") /\ ~AtComment("*") /\ cur' = cur
    BY <1>2 DEF EndTrim
  <2> QED  BY <1>0, <2>1 DEF NothingToTrim, InBounds, AtComment
<1>3. CASE UNCHANGED vars
  <2>1. cur' = cur /\ pc' = pc
    BY <1>3 DEF vars
  <2> QED  BY <1>0, <2>1 DEF TextInv, NothingToTrim, InBounds, AtComment
<1>4. pc' # "scan" \/ EndTrim \/ UNCHANGED vars
  BY DEF Next, Trim, Comment, Scan, ReadWord, Classify, SkipBlank, EnterComment,
         EndTrim, LineComment, BlockComment, EndBlockComment, ScanEof, ScanNewline,
         ScanDouble, ScanSingle, BeginWord, WordChar, UnterminatedLiteral, EndWord,
         EmitWord, InvalidIdentifier, EmptyWord, Goto, Fail
<1> QED  BY <1>1, <1>2, <1>3, <1>4

LEMMA WordBeginsStep ==
  ASSUME TextInv, [Next]_vars PROVE WordBegins'
<1>0. /\ src' = src /\ Size' = Size /\ \A i : At(i)' = At(i)
      /\ \A i : DoubleAt(i)' = DoubleAt(i) /\ SingleAt(i)' = SingleAt(i)
  BY SourceConstant, TextStays DEF TextInv, LexerInv
<1>1. CASE ~InWord'
  BY <1>1 DEF WordBegins
<1>2. CASE BeginWord
  <2>1. /\ pc = "scan" /\ InBounds /\ At(cur) # NL /\ ~AtDouble /\ SingleAt(cur) = {}
        /\ begin' = cur
    BY <1>2 DEF BeginWord
  <2>2. At(cur) \notin Blanks
    BY <2>1 DEF TextInv, NothingToTrim
  <2> QED  BY <1>0, <2>1, <2>2 DEF WordBegins, AtDouble
<1>3. CASE InWord /\ begin' = begin
  <2>1. /\ At(begin) \notin Blanks \cup {NL} /\ SingleAt(begin) = {}
        /\ begin + 2 < Size => DoubleAt(begin) = {}
    BY <1>3 DEF TextInv, WordBegins
  <2> QED  BY <1>0, <1>3, <2>1 DEF WordBegins
<1>4. ~InWord' \/ BeginWord \/ (InWord /\ begin' = begin)
  BY DEF Next, Trim, Comment, Scan, ReadWord, Classify, SkipBlank, EnterComment,
         EndTrim, LineComment, BlockComment, EndBlockComment, ScanEof, ScanNewline,
         ScanDouble, ScanSingle, WordChar, UnterminatedLiteral, EndWord,
         EmitWord, InvalidIdentifier, EmptyWord, Goto, Fail, InWord, vars, wordVars
<1> QED  BY <1>1, <1>2, <1>3, <1>4

LEMMA LiteralIsOpenStep ==
  ASSUME TextInv, [Next]_vars PROVE LiteralIsOpen'
<1>0. /\ src' = src /\ \A i : At(i)' = At(i)
      /\ \A f, j : ClosesAt(f, j)' <=> ClosesAt(f, j)
      /\ cur \in Nat /\ begin \in Nat /\ WordShape
  BY SourceConstant, TextStays DEF TextInv, LexerInv, TypeOK
<1>1. \A f, j, k : IsRun(f, j, k)' <=> IsRun(f, j, k)
  BY <1>0 DEF IsRun
<1>2. CASE ~InWord'
  BY <1>2 DEF LiteralIsOpen, InWord
<1>3. CASE BeginWord
  <2>1. pc' = "word" /\ begin' = cur
    BY <1>3 DEF BeginWord, Goto
  <2>2. Delimited' => cur' = cur + 1
    BY <1>3 DEF BeginWord, Delimited
  <2>3. ClosesAt(cur, cur + 1) /\ IsRun(cur, cur + 1, 0) /\ 0 % 2 # 1 /\ 0 \in Nat
    BY <1>0, OpensHere
  <2>4. ASSUME Delimited'
        PROVE  ClosesAt(begin', cur') /\ \E k \in Nat : IsRun(begin', cur', k) /\ k % 2 # 1
    BY <2>1, <2>2, <2>3, <2>4
  <2> QED  BY <1>0, <1>1, <2>1, <2>4 DEF LiteralIsOpen
<1>4. CASE WordChar
  <2>1. /\ pc = "word" /\ pc' = "word" /\ begin' = begin /\ delim' = delim
        /\ ~Stops(At(cur))
    BY <1>4 DEF WordChar
  <2>2. /\ At(cur) = Backslash => cur' = cur + 2
        /\ At(cur) # Backslash => cur' = cur + 1
    BY <1>4 DEF WordChar
  <2>3. Delimited' <=> Delimited
    BY <2>1 DEF Delimited
  <2>4. ASSUME Delimited
        PROVE  ClosesAt(begin, cur') /\ \E k \in Nat : IsRun(begin, cur', k) /\ k % 2 # 1
    <3>1. ClosesAt(begin, cur)
      BY <2>1, <2>4 DEF TextInv, LiteralIsOpen
    <3>2. PICK k \in Nat : IsRun(begin, cur, k) /\ k % 2 # 1
      BY <2>1, <2>4 DEF TextInv, LiteralIsOpen
    <3>3. At(cur) # At(begin)
      BY <1>0, <2>1, <2>4 DEF Stops, WordShape, InWord
    <3>4. /\ At(cur) # Backslash => ClosesAt(begin, cur + 1) /\ IsRun(begin, cur + 1, 0)
          /\ At(cur) = Backslash =>
               /\ ClosesAt(begin, cur + 2)
               /\ \E l \in Nat : IsRun(begin, cur + 2, l) /\ l % 2 # 1
      BY <1>0, <3>1, <3>2, <3>3, OpenGrows
    <3>5. 0 \in Nat /\ 0 % 2 # 1
      OBVIOUS
    <3>6. CASE At(cur) = Backslash
      BY <2>2, <3>4, <3>6
    <3>7. CASE At(cur) # Backslash
      BY <2>2, <3>4, <3>5, <3>7
    <3> QED  BY <3>6, <3>7
  <2> QED  BY <1>0, <1>1, <2>1, <2>3, <2>4 DEF LiteralIsOpen
<1>5. CASE EndWord
  <2>1. pc = "word" /\ pc' = "classify" /\ begin' = begin /\ delim' = delim
    BY <1>5 DEF EndWord, Goto
  <2>2. Delimited => cur' - 1 = cur
    BY <1>0, <1>5 DEF EndWord
  <2>3. Delimited => ClosesAt(begin, cur)
    BY <2>1 DEF TextInv, LiteralIsOpen
  <2>4. Delimited' <=> Delimited
    BY <2>1 DEF Delimited
  <2> QED  BY <1>0, <2>1, <2>2, <2>3, <2>4 DEF LiteralIsOpen
<1>6. CASE UNCHANGED vars
  <2>1. UNCHANGED <<pc, begin, cur, delim>>
    BY <1>6 DEF vars, wordVars
  <2> QED  BY <1>0, <1>1, <2>1 DEF TextInv, LiteralIsOpen, Delimited
<1>7. ~InWord' \/ BeginWord \/ WordChar \/ EndWord \/ UNCHANGED vars
  BY DEF Next, Trim, Comment, Scan, ReadWord, Classify, SkipBlank, EnterComment,
         EndTrim, LineComment, BlockComment, EndBlockComment, ScanEof, ScanNewline,
         ScanDouble, ScanSingle, UnterminatedLiteral, EmitWord, InvalidIdentifier,
         EmptyWord, Goto, Fail, InWord
<1> QED  BY <1>2, <1>3, <1>4, <1>5, <1>6, <1>7

(* The word that nothing is in stands before a '!'.                          *)
LEMMA EmptyWordIsBang ==
  ASSUME TextInv, pc = "classify", len = 0
  PROVE  At(begin) = "!" /\ (At(begin + 1) = "=" => begin + 2 = Size)
<1>1. /\ begin < Size /\ begin + len = cur /\ cur \in Nat /\ begin \in Nat /\ InWord
      /\ WordShape /\ Size \in Nat
  BY SizeIsNat DEF TextInv, LexerInv, WordIsInSource, TypeOK, InWord
<1>2. cur = begin /\ InBounds
  BY <1>1 DEF InBounds
<1>3. ~Delimited /\ EndsWord(At(begin)) /\ ~StrChr(Quotes, At(begin))
  BY <1>1, <1>2 DEF WordShape
<1>4. /\ At(begin) \notin Blanks \cup {NL} /\ SingleAt(begin) = {}
      /\ begin + 2 < Size => DoubleAt(begin) = {}
  BY <1>1 DEF TextInv, WordBegins
<1>5. At(begin) \in Operators \cup Separators
  BY <1>3, <1>4 DEF EndsWord, StrChr
<1>6. At(begin) = "!"
  <2>1. \A c \in Operators \cup Separators : c # "!" => \E s \in SingleSymbols : s[1] = c
    BY DEF Operators, Separators, SingleSymbols
  <2> QED  BY <1>4, <1>5, <2>1 DEF SingleAt
<1>7. <<"!", "=", "NEQ">> \in DoubleSymbols
  BY DEF DoubleSymbols
<1>8. ~(begin + 2 < Size /\ At(begin + 1) = "=")
  BY <1>4, <1>6, <1>7 DEF DoubleAt
<1>9. At(begin + 1) = "=" => begin + 1 < Size
  BY DEF At, NUL
<1> QED  BY <1>1, <1>6, <1>8, <1>9

(* A word without a NUL is the text it was copied from; one that no kind     *)
(* takes is neither a name nor a number.                                    *)
LEMMA RefusedWord ==
  ASSUME TextInv, pc = "classify", len > 0, WordKind(Word) = "INVALID"
  PROVE  /\ ~StrChr(Quotes, At(begin))
         /\ begin + len < Size => EndsWord(At(begin + len))
         /\ NoWord(begin, begin + len)
<1>1. /\ begin + len = cur /\ cur \in Nat /\ begin \in Nat /\ len \in Nat /\ InWord
      /\ WordShape
  BY DEF TextInv, LexerInv, WordIsInSource, TypeOK, InWord
<1> DEFINE w == Word  Usual == Letters \cup Digits \cup {"_", "."}
<1>2. /\ DOMAIN w = 1 .. len
      /\ \A i \in 1 .. len :
           (\A j \in begin .. begin + i - 1 : At(j) # NUL) => w[i] = At(begin + i - 1)
      /\ w[1] = At(begin)
  BY <1>1 DEF Word
<1> HIDE DEF w
<1>3. w[1] # "sq" /\ ~StrChr({"dq"}, w[1]) /\ ~IsNumber(w) /\ ~IsIdent(w)
  BY DEF WordKind, w
<1>4. ~StrChr(Quotes, At(begin))
  BY <1>2, <1>3 DEF StrChr, Quotes
<1>5. ~Delimited
  BY <1>1, <1>4 DEF WordShape
<1>6. begin + len < Size => EndsWord(At(begin + len))
  BY <1>1, <1>5 DEF WordShape, InBounds
<1>7. ASSUME \A j \in begin .. begin + len - 1 : At(j) \in Usual
      PROVE  /\ At(begin) \in Digits \cup {"."}
             /\ \/ len = 1 /\ At(begin) = "."
                \/ \E j \in begin .. begin + len - 1 : At(j) \in Letters \cup {"_"}
                \/ \E i, j \in begin .. begin + len - 1 : i < j /\ At(i) = "." /\ At(j) = "."
  <2>1. NUL \notin Usual
    BY LexerAssumption DEF Named, NUL, Digits
  <2>2. ASSUME NEW i \in 1 .. len
        PROVE  begin + i - 1 \in begin .. begin + len - 1 /\ w[i] = At(begin + i - 1)
    <3>1. begin + i - 1 \in begin .. begin + len - 1
      BY <1>1
    <3>2. ASSUME NEW j \in begin .. begin + i - 1 PROVE At(j) # NUL
      <4>1. j \in begin .. begin + len - 1
        BY <1>1
      <4>2. At(j) \in Usual
        BY <1>7, <4>1
      <4> QED  BY <2>1, <4>2
    <3> QED  BY <1>2, <3>1, <3>2
  <2>3. \A i \in 1 .. len : w[i] \in Usual
    BY <1>7, <2>2
  <2>4. w[1] \notin Letters \cup {"_"}
    BY <1>2, <1>3, <2>3 DEF IsIdent, StrChr
  <2>5. At(begin) \in Digits \cup {"."}
    <3>1. 1 \in 1 .. len
      BY <1>1
    <3>2. w[1] \in Usual
      BY <2>3, <3>1
    <3> QED  BY <1>2, <2>4, <3>2
  <2>6. CASE w = <<".">>
    <3>1. len = 1 /\ w[1] = "."
      <4>1. 1 .. len = DOMAIN <<".">> /\ DOMAIN <<".">> = 1 .. 1
        BY <1>2, <2>6
      <4>2. len = 1
        BY <1>1, <4>1
      <4> QED  BY <2>6, <4>2
    <3> QED  BY <1>2, <2>5, <3>1
  <2>7. CASE \E i \in 1 .. len : w[i] \notin Digits \cup {"."}
    <3>1. PICK i \in 1 .. len : w[i] \in Letters \cup {"_"}
      BY <2>3, <2>7
    <3> QED  BY <2>2, <2>5, <3>1
  <2>8. CASE \E i, j \in 1 .. len : w[i] = "." /\ w[j] = "." /\ i # j
    <3>1. PICK i, j \in 1 .. len : w[i] = "." /\ w[j] = "." /\ i < j
      BY <1>1, <2>8
    <3>2. begin + i - 1 < begin + j - 1
      BY <1>1, <3>1
    <3> QED  BY <2>2, <2>5, <3>1, <3>2
  <2> QED  BY <1>2, <1>3, <2>6, <2>7, <2>8 DEF IsNumber
<1>8. /\ begin + len = begin + 1 <=> len = 1
      /\ begin .. (begin + len) - 1 = begin .. begin + len - 1
  BY <1>1
<1>9. \/ \E j \in begin .. (begin + len) - 1 :
           At(j) \notin Letters \cup Digits \cup {"_", "."}
      \/ /\ At(begin) \in Digits \cup {"."}
         /\ \/ begin + len = begin + 1 /\ At(begin) = "."
            \/ \E j \in begin .. (begin + len) - 1 : At(j) \in Letters \cup {"_"}
            \/ \E i, j \in begin .. (begin + len) - 1 : i < j /\ At(i) = "." /\ At(j) = "."
  BY <1>7, <1>8
<1>10. NoWord(begin, begin + len)
  BY <1>9 DEF NoWord
<1> QED  BY <1>4, <1>6, <1>10

LEMMA FailuresStep ==
  ASSUME TextInv, [Next]_vars PROVE NotFailedYet' /\ FailuresAreJust'
<1> USE DEF NotFailedYet, FailuresAreJust, EofErrorIsJust, InvalidWordIsJust,
            PanicOnlyOnBang
<1>0. /\ src' = src /\ Size' = Size /\ Size \in Nat /\ \A i : At(i)' = At(i)
      /\ \A f, j : Escaped(f, j)' <=> Escaped(f, j)
      /\ \A f, t : NoWord(f, t)' <=> NoWord(f, t)
      /\ cur \in Nat /\ begin \in Nat /\ WordShape /\ pc \in Locations \cup Ended
      /\ error \in {"NULL", "EOF", "INVALID_IDENTIFIER"}
  <2>1. src' = src /\ Size' = Size /\ Size \in Nat /\ \A i : At(i)' = At(i)
    BY SourceConstant, TextStays DEF TextInv, LexerInv, TypeOK
  <2>2. \A f, t : NoWord(f, t)' <=> NoWord(f, t)
    BY <2>1 DEF NoWord
  <2> QED  BY <2>1, <2>2, SourceConstant, TextStays DEF TextInv, LexerInv, TypeOK
<1>1. CASE UNCHANGED vars
  <2>1. UNCHANGED <<pc, begin, len, error>>
    BY <1>1 DEF vars, wordVars, outVars
  <2> QED  BY <1>0, <2>1 DEF TextInv
<1>2. CASE UnterminatedLiteral
  <2>1. /\ pc = "word" /\ ~InBounds /\ Delimited /\ pc' = "failed" /\ begin' = begin
        /\ error' = "EOF"
    BY <1>2 DEF UnterminatedLiteral, Fail, wordVars
  <2>2. StrChr(Quotes, At(begin))
    BY <1>0, <2>1 DEF WordShape, InWord
  <2>3. \A j \in begin + 1 .. cur - 1 : At(j) = At(begin) => Escaped(begin, j)
    BY <2>1 DEF TextInv, LiteralIsOpen, ClosesAt
  <2>4. \A j \in begin + 1 .. Size - 1 : j \in begin + 1 .. cur - 1
    BY <1>0, <2>1 DEF InBounds
  <2> QED  BY <1>0, <2>1, <2>2, <2>3, <2>4 DEF Ended
<1>3. CASE InvalidIdentifier
  <2>1. /\ pc = "classify" /\ len > 0 /\ WordKind(Word) = "INVALID"
        /\ pc' = "failed" /\ begin' = begin /\ len' = len
        /\ error' = "INVALID_IDENTIFIER"
    BY <1>3 DEF InvalidIdentifier, Fail, wordVars
  <2>2. /\ ~StrChr(Quotes, At(begin))
        /\ begin + len < Size => EndsWord(At(begin + len))
        /\ NoWord(begin, begin + len)
    BY <2>1, RefusedWord
  <2> QED  BY <1>0, <2>1, <2>2 DEF Ended
<1>4. CASE EmptyWord
  <2>1. pc = "classify" /\ len = 0 /\ pc' = "panic" /\ begin' = begin /\ error' = error
    BY <1>4 DEF EmptyWord, Goto, wordVars, outVars
  <2>2. At(begin) = "!" /\ (At(begin + 1) = "=" => begin + 2 = Size)
    BY <2>1, EmptyWordIsBang
  <2>3. error = "NULL"
    BY <1>0, <2>1 DEF TextInv
  <2> QED  BY <1>0, <2>1, <2>2, <2>3 DEF Ended
<1>5. CASE Next /\ ~UnterminatedLiteral /\ ~InvalidIdentifier /\ ~EmptyWord
  <2>1. pc \notin Ended /\ pc' \notin {"failed", "panic"}
    BY <1>5 DEF Next, Trim, Comment, Scan, ReadWord, Classify, SkipBlank, EnterComment,
         EndTrim, LineComment, BlockComment, EndBlockComment, ScanEof, ScanNewline,
         ScanDouble, ScanSingle, BeginWord, WordChar, EndWord, EmitWord, Goto, Ended
  <2>2. error' = error
    BY <1>5 DEF Next, Trim, Comment, Scan, ReadWord, Classify, SkipBlank, EnterComment,
         EndTrim, LineComment, BlockComment, EndBlockComment, ScanEof, ScanNewline,
         ScanDouble, ScanSingle, BeginWord, WordChar, EndWord, EmitWord, Emit, outVars
  <2>3. error = "NULL"
    BY <2>1 DEF TextInv, Ended
  <2> QED  BY <2>1, <2>2, <2>3 DEF Ended
<1> QED  BY <1>1, <1>2, <1>3, <1>4, <1>5

LEMMA TextStep == TextInv /\ [Next]_vars => TextInv'
<1> SUFFICES ASSUME TextInv, [Next]_vars PROVE TextInv'
  OBVIOUS
<1>1. LexerInv'
  BY InvariantStep DEF TextInv
<1> QED  BY <1>1, LexemesStep, TrimmedStep, WordBeginsStep, LiteralIsOpenStep, FailuresStep
         DEF TextInv

LEMMA TextInit == Init => TextInv
<1> SUFFICES ASSUME Init PROVE TextInv
  OBVIOUS
<1>1. LexerInv
  BY InvariantInit
<1>2. pc = "trim" /\ toks = <<>> /\ error = "NULL"
  BY DEF Init
<1> QED  BY <1>1, <1>2 DEF TextInv, LexemesAreWhole, NothingToTrim, WordBegins, InWord,
            LiteralIsOpen, NotFailedYet, FailuresAreJust, EofErrorIsJust,
            InvalidWordIsJust, PanicOnlyOnBang

(* What the loops know of the text they have passed holds in every state:     *)
(* tokens are whole lexemes, an open literal has had no delimiter yet, and    *)
(* no error is set before its time.                                           *)
THEOREM TextInvariant == Spec => []TextInv
BY TextInit, TextStep, PTL DEF Spec

(* A text is given up only for a literal that is open at its end, however     *)
(* many escapes there are, for a word that is spelled like no token, or for  *)
(* a '!' that stands alone or in a "!=" that ends the text.                  *)
THEOREM OnlyJustFailures == Spec => []FailuresAreJust
<1>1. TextInv => FailuresAreJust
  BY DEF TextInv
<1> QED  BY <1>1, TextInvariant, PTL

LEMMA LexemeParts ==
  ASSUME TextInv, NEW i \in DOMAIN toks
  PROVE  /\ IsLexeme(toks[i].kind, spans[i].from, spans[i].to)
         /\ spans[i].from \in Nat /\ spans[i].to \in Nat
         /\ toks[i].kind \in {"EOF", "NEWLINE"} \cup SymbolKinds \cup LiteralKinds \cup WordKinds
<1>1. /\ toks \in Seq(Token) /\ spans \in Seq(Span) /\ Len(toks) = Len(spans)
  BY DEF TextInv, LexerInv, TypeOK, TokensAreBehind
<1>2. i \in 1 .. Len(spans) /\ i \in 1 .. Len(toks)
  BY <1>1
<1>3. spans[i] \in Span /\ toks[i] \in Token
  BY <1>1, <1>2, ElementOfSeq
<1>4. toks[i].kind \in TokenKinds
  BY <1>3 DEF Token
<1> QED  BY <1>3, <1>4 DEF TextInv, LexemesAreWhole, Span, TokenKinds

(* The scanner never looks behind, and yet a literal ends at its first        *)
(* delimiter that is not escaped: the runs of backslashes have the parity     *)
(* that its steps of two suppose.                                            *)
THEOREM LiteralsCloseRight == Spec => []LiteralsCloseAtFirstDelimiter
<1>1. TextInv => LiteralsCloseAtFirstDelimiter
  <2> SUFFICES ASSUME TextInv, NEW i \in DOMAIN toks, toks[i].kind \in LiteralKinds
               PROVE  LET f == spans[i].from  last == spans[i].to - 1
                      IN  /\ f < last /\ At(last) = At(f) /\ ~Escaped(f, last)
                          /\ \A j \in f + 1 .. last - 1 : At(j) = At(f) => Escaped(f, j)
    BY DEF LiteralsCloseAtFirstDelimiter
  <2>1. IsLiteral(spans[i].from, spans[i].to)
    BY LexemeParts DEF IsLexeme
  <2> QED  BY <2>1 DEF IsLiteral, ClosesAt
<1> QED  BY <1>1, TextInvariant, PTL

LEMMA MarkersAre ==
  ASSUME NEW p, SpellsMarker(p)
  PROVE  /\ At(p) \in Operators /\ At(p + 1) \in {"=", ">", "<", "/", "*"}
<1>1. \A d \in DoubleSymbols : d[1] \in Operators /\ d[2] \in {"=", ">", "<"}
  BY DEF DoubleSymbols, Operators
<1> QED  BY <1>1 DEF SpellsMarker, DoubleAt, Operators

(* No token is cut short: a word goes on to where a word must end, and two    *)
(* symbols side by side spell no longer one, but at the very end of the text, *)
(* where the bound of lx_next_double_symbol is one too small.                *)
THEOREM TokensAreNotCut == Spec => []TokensAreWhole
<1>1. TextInv => WordsAreMaximal
  <2> SUFFICES ASSUME TextInv, NEW i \in DOMAIN toks, toks[i].kind \in WordKinds
               PROVE  IsWord(spans[i].from, spans[i].to)
    BY DEF WordsAreMaximal, IsWord
  <2> QED  BY LexemeParts DEF IsLexeme
<1>2. TextInv => MarkersAreWhole
  <2> SUFFICES ASSUME TextInv, NEW i \in DOMAIN spans, Adjacent(i),
                      spans[i].to = spans[i].from + 1, SpellsMarker(spans[i].from)
               PROVE  spans[i + 1].to = Size
    BY DEF MarkersAreWhole
  <2> DEFINE a == spans[i].from
             b == spans[i + 1].to
             k == toks[i].kind
             l == toks[i + 1].kind
  <2>1. /\ Len(toks) = Len(spans) /\ toks \in Seq(Token) /\ spans \in Seq(Span)
        /\ Size \in Nat
    BY SizeIsNat DEF TextInv, LexerInv, TypeOK, TokensAreBehind
  <2>2. i \in DOMAIN toks /\ i + 1 \in DOMAIN toks /\ spans[i + 1].from = a + 1
    BY <2>1 DEF Adjacent
  <2>3. /\ IsLexeme(k, a, a + 1) /\ a \in Nat
        /\ k \in {"EOF", "NEWLINE"} \cup SymbolKinds \cup LiteralKinds \cup WordKinds
    BY <2>2, LexemeParts
  <2>4. /\ IsLexeme(l, a + 1, b) /\ b \in Nat
        /\ l \in {"EOF", "NEWLINE"} \cup SymbolKinds \cup LiteralKinds \cup WordKinds
    BY <2>2, LexemeParts
  <2>5. At(a) \in Operators /\ At(a + 1) \in {"=", ">", "<", "/", "*"}
    BY MarkersAre
  <2> HIDE DEF a, b, k, l
  <2>6. EndsWord(At(a)) /\ EndsWord(At(a + 1)) /\ At(a) # NL /\ At(a + 1) # NL
    BY <2>5 DEF EndsWord, StrChr, Operators, NL
  <2>7. ~StrChr(Quotes, At(a + 1)) /\ At(a + 1) # NUL
    BY <2>5 DEF StrChr, Quotes, NUL
  <2>8. k \in SymbolKinds
    <3>1. ~IsWord(a, a + 1)
      <4>1. a \in a .. (a + 1) - 1
        BY <2>3
      <4> QED  BY <2>6, <4>1 DEF IsWord
    <3>2. ~IsLiteral(a, a + 1)
      BY <2>3 DEF IsLiteral
    <3>3. a # a + 1
      BY <2>3
    <3> QED  BY <2>3, <2>6, <3>1, <3>2, <3>3 DEF IsLexeme
  <2>9. a + 1 < Size /\ ~(a + 2 < Size)
    <3>1. IsSymbol(a, a + 1)
      BY <2>3, <2>8 DEF IsLexeme
    <3>2. a + 1 # a + 2
      BY <2>3
    <3>3. a + 2 < Size => ~SpellsMarker(a)
      BY <3>1, <3>2 DEF IsSymbol
    <3>4. ~(a + 1 < Size) => At(a + 1) = NUL
      BY DEF At
    <3> QED  BY <2>7, <3>3, <3>4 DEF a
  <2>10. l \in SymbolKinds
    <3>1. ~IsLiteral(a + 1, b)
      BY <2>7 DEF IsLiteral
    <3>2. l = "EOF" => ~(a + 1 < Size)
      BY <2>1, <2>3, <2>4 DEF IsLexeme
    <3>3. l \in WordKinds => a + 1 \in (a + 1) .. b - 1
      BY <2>3, <2>4, KindsDiffer DEF IsLexeme
    <3>4. l \notin WordKinds
      BY <2>4, <2>6, <3>3 DEF IsLexeme, IsWord
    <3> QED  BY <2>4, <2>6, <2>9, <3>1, <3>2, <3>4 DEF IsLexeme
  <2>11. IsSymbol(a + 1, b)
    BY <2>4, <2>10 DEF IsLexeme
  <2>12. b = Size
    BY <2>1, <2>3, <2>9, <2>11 DEF IsSymbol
  <2> QED  BY <2>12 DEF b
<1>3. TextInv => TokensAreWhole
  BY <1>1, <1>2 DEF TokensAreWhole
<1> QED  BY <1>3, TextInvariant, PTL

-----------------------------------------------------------------------------
(* What lies between two tokens.                                            *)

(* Where the text that no token has yet begins, and where the next may.       *)
Gap == IF spans = <<>> THEN 0 ELSE spans[Len(spans)].to
Place == IF InWord THEN begin ELSE cur

(* In a comment that opens at q: the characters up to p do not end it.       *)
IsTrivia(g, p) == p < Size => At(p) \in Blanks \/ InComment(g, p)
OpensLine(q, p) ==
  q + 2 <= p /\ At(q) = "/" /\ At(q + 1) = "/" /\ \A r \in q .. p - 1 : At(r) # NL
OpensBlock(q, p) ==
  /\ q + 2 <= p /\ At(q) = "/" /\ At(q + 1) = "*"
  /\ \A r \in q + 2 .. p - 1 : ~(At(r) = "*" /\ At(r + 1) = "/")
GapIsTrivia ==
  /\ pc \notin Ended => \A p \in Gap .. Place - 1 : IsTrivia(Gap, p)
  /\ pc = "line" => \E q \in Gap .. cur - 2 : OpensLine(q, cur)
  /\ pc = "block" => \E q \in Gap .. cur - 2 : OpensBlock(q, cur)
GapInv == TextInv /\ GapsAreTrivia /\ GapIsTrivia

(* GapsAreTrivia, in these words.                                           *)
GapBefore(i) == IF i = 1 THEN 0 ELSE spans[i - 1].to
AllGaps ==
  \A i \in DOMAIN spans :
    \A p \in GapBefore(i) .. spans[i].from - 1 : IsTrivia(GapBefore(i), p)

LEMMA AllGapsAre ==
  (AllGaps <=> GapsAreTrivia) /\ (AllGaps' <=> GapsAreTrivia')
BY DEF AllGaps, GapsAreTrivia, GapBefore, IsTrivia

LEMMA IntervalSplits ==
  ASSUME NEW a \in Nat, NEW b \in Nat, NEW c \in Nat, NEW p \in a .. c - 1
  PROVE  p \in a .. b - 1 \/ p \in b .. c - 1
OBVIOUS

LEMMA CommentIsTrivia ==
  ASSUME NEW g \in Nat, NEW q \in Nat, NEW p \in Nat, g <= q
  PROVE  /\ OpensLine(q, p) => \A x \in q .. p - 1 : IsTrivia(g, x)
         /\ OpensBlock(q, p) => \A x \in q .. p + 1 : IsTrivia(g, x)
<1>1. ASSUME OpensLine(q, p), NEW x \in q .. p - 1 PROVE IsTrivia(g, x)
  <2>1. q \in g .. x /\ \A r \in q .. x : r \in q .. p - 1
    OBVIOUS
  <2>2. At(q) = "/" /\ At(q + 1) = "/" /\ \A r \in q .. x : At(r) # NL
    BY <1>1, <2>1 DEF OpensLine
  <2> QED  BY <2>1, <2>2 DEF IsTrivia, InComment
<1>2. ASSUME OpensBlock(q, p), NEW x \in q .. p + 1 PROVE IsTrivia(g, x)
  <2>1. q \in g .. x /\ \A r \in q + 2 .. x - 2 : r \in q + 2 .. p - 1
    OBVIOUS
  <2>2. /\ At(q) = "/" /\ At(q + 1) = "*"
        /\ \A r \in q + 2 .. x - 2 : ~(At(r) = "*" /\ At(r + 1) = "/")
    BY <1>2, <2>1 DEF OpensBlock
  <2> QED  BY <2>1, <2>2 DEF IsTrivia, InComment
<1> QED  BY <1>1, <1>2

LEMMA CommentGrows ==
  ASSUME NEW q \in Nat, NEW p \in Nat
  PROVE  /\ OpensLine(q, p) /\ At(p) # NL => OpensLine(q, p + 1)
         /\ OpensBlock(q, p) /\ ~(At(p) = "*" /\ At(p + 1) = "/") => OpensBlock(q, p + 1)
         /\ At(p) = "/" /\ At(p + 1) = "/" => OpensLine(p, p + 2)
         /\ At(p) = "/" /\ At(p + 1) = "*" => OpensBlock(p, p + 2)
<1>1. /\ \A r \in q .. (p + 1) - 1 : r \in q .. p - 1 \/ r = p
      /\ \A r \in q + 2 .. (p + 1) - 1 : r \in q + 2 .. p - 1 \/ r = p
      /\ \A r \in p .. (p + 2) - 1 : r = p \/ r = p + 1
      /\ \A r \in p + 2 .. (p + 2) - 1 : FALSE
      /\ q + 2 <= p => q + 2 <= p + 1
      /\ p + 2 <= p + 2
  OBVIOUS
<1>2. OpensLine(q, p) /\ At(p) # NL => OpensLine(q, p + 1)
  BY <1>1 DEF OpensLine
<1>3. OpensBlock(q, p) /\ ~(At(p) = "*" /\ At(p + 1) = "/") => OpensBlock(q, p + 1)
  BY <1>1 DEF OpensBlock
<1>4. At(p) = "/" /\ At(p + 1) = "/" => OpensLine(p, p + 2)
  BY <1>1 DEF OpensLine, NL
<1>5. At(p) = "/" /\ At(p + 1) = "*" => OpensBlock(p, p + 2)
  BY <1>1 DEF OpensBlock
<1> QED  BY <1>2, <1>3, <1>4, <1>5

LEMMA TriviaStays ==
  ASSUME src' = src
  PROVE  /\ \A g, p : IsTrivia(g, p)' <=> IsTrivia(g, p)
         /\ \A q, p : OpensLine(q, p)' <=> OpensLine(q, p)
         /\ \A q, p : OpensBlock(q, p)' <=> OpensBlock(q, p)
<1>1. Size' = Size /\ \A i : At(i)' = At(i)
  BY TextStays
<1>2. \A g, p : InComment(g, p)' <=> InComment(g, p)
  BY <1>1 DEF InComment
<1> QED  BY <1>1, <1>2 DEF IsTrivia, OpensLine, OpensBlock

(* Where the gap and the place are.                                          *)
LEMMA GapIsBehind ==
  ASSUME TextInv, pc \notin Ended
  PROVE  /\ Gap \in Nat /\ Place \in Nat /\ Gap <= Place /\ cur \in Nat
         /\ Len(toks) = Len(spans) /\ TypeOK
<1>1. /\ spans \in Seq(Span) /\ Len(toks) = Len(spans) /\ begin \in Nat /\ cur \in Nat
      /\ spans # <<>> => spans[Len(spans)].to <= Place
      /\ TypeOK
  BY DEF TextInv, LexerInv, TypeOK, TokensAreBehind, Place
<1>2. Place \in Nat
  BY <1>1 DEF Place
<1>3. spans # <<>> => spans[Len(spans)] \in Span
  BY <1>1, EmptySeq, ElementOfSeq
<1> QED  BY <1>1, <1>2, <1>3 DEF Gap, Span

(* No token, and what has been passed is trivia.                             *)
LEMMA GapMoves ==
  ASSUME GapInv, pc \notin Ended, src' = src, UNCHANGED <<toks, spans>>, Place' \in Nat,
         pc' \notin Ended => \A p \in Place .. Place' - 1 : IsTrivia(Gap, p),
         pc' = "line" => \E q \in Gap .. cur' - 2 : OpensLine(q, cur'),
         pc' = "block" => \E q \in Gap .. cur' - 2 : OpensBlock(q, cur')
  PROVE  GapsAreTrivia' /\ GapIsTrivia'
<1>1. /\ \A g, p : IsTrivia(g, p)' <=> IsTrivia(g, p)
      /\ \A q, p : OpensLine(q, p)' <=> OpensLine(q, p)
      /\ \A q, p : OpensBlock(q, p)' <=> OpensBlock(q, p)
  BY TriviaStays
<1>2. Gap' = Gap /\ Gap \in Nat /\ Place \in Nat
  BY GapIsBehind DEF GapInv, Gap
<1>3. \A p \in Gap .. Place' - 1 : p \in Gap .. Place - 1 \/ p \in Place .. Place' - 1
  BY <1>2, IntervalSplits
<1>4. \A p \in Gap .. Place - 1 : IsTrivia(Gap, p)
  BY DEF GapInv, GapIsTrivia
<1>5. GapIsTrivia'
  BY <1>1, <1>2, <1>3, <1>4 DEF GapIsTrivia
<1>6. AllGaps'
  <2>1. AllGaps /\ \A i : GapBefore(i)' = GapBefore(i)
    BY AllGapsAre DEF GapInv, GapBefore
  <2> QED  BY <1>1, <2>1 DEF AllGaps
<1> QED  BY <1>5, <1>6, AllGapsAre

(* A token, which begins in the place.                                       *)
LEMMA GapCloses ==
  ASSUME GapInv, pc \notin Ended, src' = src,
         NEW kind, NEW pos, NEW text, NEW to \in Nat, Emit(kind, pos, text, Place, to),
         pc' \notin {"line", "block"}, pc' \notin Ended => Place' = to
  PROVE  GapsAreTrivia' /\ GapIsTrivia'
<1> DEFINE n == Len(spans)
<1>1. /\ \A g, p : IsTrivia(g, p)' <=> IsTrivia(g, p)
      /\ Gap \in Nat /\ Place \in Nat /\ Len(toks) = n /\ TypeOK
  BY TriviaStays, GapIsBehind DEF GapInv
<1>2. /\ n \in Nat /\ DOMAIN spans = 1 .. n /\ DOMAIN spans' = 1 .. n + 1
      /\ Len(spans') = n + 1
      /\ \A i \in 1 .. n : spans'[i] = spans[i]
      /\ spans'[n + 1].from = Place /\ spans'[n + 1].to = to
      /\ \A i \in 1 .. n + 1 : i \in 1 .. n \/ i = n + 1
  BY <1>1, EmitParts
<1>3. Gap = IF n = 0 THEN 0 ELSE spans[n].to
  <2>1. spans = <<>> <=> n = 0
    BY <1>1, EmptySeq DEF TypeOK
  <2> QED  BY <2>1 DEF Gap
<1>4. Gap' = to
  <2>1. spans' # <<>>
    BY <1>2
  <2> QED  BY <1>2, <2>1 DEF Gap
<1>5. GapIsTrivia'
  <2>1. pc' \notin Ended => \A p \in Gap' .. Place' - 1 : FALSE
    BY <1>4
  <2> QED  BY <2>1 DEF GapIsTrivia
<1>6. /\ \A p \in Gap .. Place - 1 : IsTrivia(Gap, p)
      /\ AllGaps
  BY AllGapsAre DEF GapInv, GapIsTrivia
<1> HIDE DEF n
<1>7. ASSUME NEW i \in 1 .. n + 1
      PROVE  \A p \in GapBefore(i)' .. spans'[i].from - 1 : IsTrivia(GapBefore(i)', p)
  <2>1. CASE i = n + 1
    <3>1. n = 0 \/ n \in 1 .. n
      BY <1>2
    <3>2. GapBefore(i)' = Gap
      BY <1>2, <1>3, <2>1, <3>1 DEF GapBefore
    <3> QED  BY <1>2, <1>6, <2>1, <3>2
  <2>2. CASE i \in 1 .. n
    <3>1. i # 1 => i - 1 \in 1 .. n
      BY <1>2, <2>2
    <3>2. GapBefore(i)' = GapBefore(i)
      BY <1>2, <3>1 DEF GapBefore
    <3> QED  BY <1>2, <1>6, <2>2, <3>2 DEF AllGaps
  <2> QED  BY <1>2, <2>1, <2>2
<1>8. AllGaps'
  BY <1>1, <1>2, <1>7 DEF AllGaps
<1> QED  BY <1>5, <1>8, AllGapsAre

LEMMA GapStep ==
  ASSUME GapInv, [Next]_vars PROVE GapsAreTrivia' /\ GapIsTrivia'
<1>0. TextInv /\ TypeOK /\ src' = src
  BY SourceConstant DEF GapInv, TextInv, LexerInv
<1>1. pc \notin Ended => /\ Gap \in Nat /\ cur \in Nat /\ Gap <= Place
                         /\ Place = IF InWord THEN begin ELSE cur
  BY <1>0, GapIsBehind DEF Place
<1>2. ASSUME UNCHANGED <<toks, spans>>, pc \notin Ended, pc' \in Ended
      PROVE  GapsAreTrivia' /\ GapIsTrivia'
  <2>1. \A g, p : IsTrivia(g, p)' <=> IsTrivia(g, p)
    BY <1>0, TriviaStays
  <2>2. AllGaps /\ \A i : GapBefore(i)' = GapBefore(i)
    BY <1>2, AllGapsAre DEF GapInv, GapBefore
  <2>3. AllGaps'
    BY <1>2, <2>1, <2>2 DEF AllGaps
  <2>4. GapIsTrivia'
    BY <1>2 DEF GapIsTrivia, Ended
  <2> QED  BY <2>3, <2>4, AllGapsAre
<1>3. ASSUME toks' = <<>>, spans' = <<>>, pc' = "failed"
      PROVE  GapsAreTrivia' /\ GapIsTrivia'
  BY <1>3 DEF GapsAreTrivia, GapIsTrivia, Ended
<1>4. CASE SkipBlank
  <2>1. /\ pc = "trim" /\ pc' = "trim" /\ At(cur) \in Blanks /\ cur' = cur + 1
        /\ UNCHANGED <<toks, spans>> /\ pc \notin Ended
    BY <1>4 DEF SkipBlank, outVars, Ended
  <2>2. Place = cur /\ Place' = cur + 1 /\ cur \in Nat /\ cur + 1 \in Nat
    BY <1>1, <2>1 DEF Place, InWord
  <2>3. \A p \in cur .. (cur + 1) - 1 : p = cur
    BY <2>2
  <2>4. \A p \in Place .. Place' - 1 : IsTrivia(Gap, p)
    BY <2>1, <2>2, <2>3 DEF IsTrivia
  <2> QED  BY <1>0, <2>1, <2>2, <2>4, GapMoves
<1>5. CASE EnterComment
  <2>1. /\ pc = "trim" /\ cur' = cur + 2 /\ UNCHANGED <<toks, spans>> /\ pc \notin Ended
        /\ \/ AtComment("/") /\ pc' = "line"
           \/ AtComment("*") /\ pc' = "block"
    BY <1>5 DEF EnterComment, outVars, Ended, Goto
  <2>2. /\ Place = cur /\ Place' = cur + 2 /\ cur \in Nat /\ cur + 2 \in Nat
        /\ Gap \in Nat /\ Gap <= cur
    BY <1>1, <2>1 DEF Place, InWord
  <2>3. cur \in Gap .. (cur + 2) - 2 /\ \A p \in cur .. (cur + 2) - 1 : p \in cur .. (cur + 2) + 1
    BY <2>2
  <2>4. CASE pc' = "line"
    <3>1. OpensLine(cur, cur + 2)
      BY <2>1, <2>2, <2>4, CommentGrows DEF AtComment
    <3>2. \A p \in cur .. (cur + 2) - 1 : IsTrivia(Gap, p)
      BY <2>2, <3>1, CommentIsTrivia
    <3> QED  BY <1>0, <2>1, <2>2, <2>3, <2>4, <3>1, <3>2, GapMoves
  <2>5. CASE pc' = "block"
    <3>1. OpensBlock(cur, cur + 2)
      BY <2>1, <2>2, <2>5, CommentGrows DEF AtComment
    <3>2. \A p \in cur .. (cur + 2) - 1 : IsTrivia(Gap, p)
      BY <2>2, <2>3, <3>1, CommentIsTrivia
    <3> QED  BY <1>0, <2>1, <2>2, <2>3, <2>5, <3>1, <3>2, GapMoves
  <2> QED  BY <2>1, <2>4, <2>5
<1>6. CASE EndTrim \/ EndWord
  <2>1. /\ pc \notin Ended /\ UNCHANGED <<toks, spans>>
        /\ Place' = Place /\ pc' \notin {"line", "block"}
    BY <1>6 DEF EndTrim, EndWord, outVars, wordVars, Ended, Goto, Place, InWord
  <2>2. Place \in Nat /\ \A p \in Place .. Place - 1 : FALSE
    BY <1>0, <2>1, GapIsBehind
  <2> QED  BY <1>0, <2>1, <2>2, GapMoves
<1>7. CASE LineComment
  <2>1. pc = "line" /\ pc \notin Ended /\ UNCHANGED <<toks, spans>> /\ Place = cur
    BY <1>7 DEF LineComment, outVars, Ended, Place, InWord
  <2>2. PICK q \in Gap .. cur - 2 : OpensLine(q, cur)
    BY <2>1 DEF GapInv, GapIsTrivia
  <2>3. /\ Gap \in Nat /\ cur \in Nat /\ cur + 1 \in Nat /\ q \in Nat /\ Gap <= q
        /\ q \in Gap .. (cur + 1) - 2
        /\ \A p \in cur .. cur - 1 : FALSE
        /\ \A p \in cur .. (cur + 1) - 1 : p \in q .. (cur + 1) - 1
    BY <1>1, <2>1
  <2>4. CASE cur' = cur + 1 /\ UNCHANGED pc /\ At(cur) # NL
    <3>1. OpensLine(q, cur + 1)
      BY <2>2, <2>3, <2>4, CommentGrows
    <3>2. \A p \in q .. (cur + 1) - 1 : IsTrivia(Gap, p)
      BY <2>3, <3>1, CommentIsTrivia
    <3>3. Place' = cur + 1
      BY <2>1, <2>4 DEF Place, InWord
    <3> QED  BY <1>0, <2>1, <2>3, <2>4, <3>1, <3>2, <3>3, GapMoves
  <2>5. CASE pc' = "trim" /\ UNCHANGED cur
    <3>1. Place' = cur
      BY <2>5 DEF Place, InWord
    <3> QED  BY <1>0, <2>1, <2>3, <2>5, <3>1, GapMoves
  <2> QED  BY <1>7, <2>4, <2>5 DEF LineComment, Goto
<1>8. CASE BlockComment \/ EndBlockComment
  <2>1. pc = "block" /\ pc \notin Ended /\ UNCHANGED <<toks, spans>> /\ Place = cur
    BY <1>8 DEF BlockComment, EndBlockComment, outVars, Ended, Place, InWord
  <2>2. PICK q \in Gap .. cur - 2 : OpensBlock(q, cur)
    BY <2>1 DEF GapInv, GapIsTrivia
  <2>3. /\ Gap \in Nat /\ cur \in Nat /\ cur + 1 \in Nat /\ cur + 2 \in Nat
        /\ q \in Nat /\ Gap <= q /\ q \in Gap .. (cur + 1) - 2
        /\ \A p \in cur .. (cur + 1) - 1 : p \in q .. cur + 1
        /\ \A p \in cur .. (cur + 2) - 1 : p \in q .. cur + 1
    BY <1>1, <2>1
  <2>4. \A p \in q .. cur + 1 : IsTrivia(Gap, p)
    BY <2>2, <2>3, CommentIsTrivia
  <2>5. CASE BlockComment
    <3>1. cur' = cur + 1 /\ pc' = "block" /\ ~AtBlockEnd
      BY <1>8, <2>1, <2>5 DEF BlockComment, BumpNewline
    <3>2. OpensBlock(q, cur + 1)
      BY <2>2, <2>3, <3>1, CommentGrows DEF AtBlockEnd
    <3>3. Place' = cur + 1
      BY <3>1 DEF Place, InWord
    <3> QED  BY <1>0, <2>1, <2>3, <2>4, <3>1, <3>2, <3>3, GapMoves
  <2>6. CASE EndBlockComment
    <3>1. cur' = cur + 2 /\ pc' = "trim"
      BY <2>6 DEF EndBlockComment, Goto
    <3>2. Place' = cur + 2
      BY <3>1 DEF Place, InWord
    <3> QED  BY <1>0, <2>1, <2>3, <2>4, <3>1, <3>2, GapMoves
  <2> QED  BY <1>8, <2>5, <2>6
<1>9. CASE ScanEof
  <2>1. /\ pc \notin Ended /\ Place = cur /\ cur \in Nat /\ pc' = "done"
        /\ Emit("EOF", PosPast(1), <<>>, cur, cur)
    BY <1>0, <1>9 DEF ScanEof, Ended, Place, InWord, Goto, TypeOK
  <2> QED  BY <1>0, <2>1, GapCloses DEF Ended
<1>10. CASE ScanNewline \/ ScanSingle
  <2>1. /\ pc \notin Ended /\ Place = cur /\ cur + 1 \in Nat /\ pc' = "trim"
        /\ Place' = cur + 1
        /\ \E kind, pos : Emit(kind, pos, <<>>, cur, cur + 1)
    BY <1>0, <1>10 DEF ScanNewline, ScanSingle, BumpNewline, Ended, Place, InWord, Goto, TypeOK
  <2> QED  BY <1>0, <2>1, GapCloses
<1>11. CASE ScanDouble
  <2>1. /\ pc \notin Ended /\ Place = cur /\ cur + 2 \in Nat /\ pc' = "trim"
        /\ Place' = cur + 2
        /\ \E kind, pos : Emit(kind, pos, <<>>, cur, cur + 2)
    BY <1>0, <1>11 DEF ScanDouble, Ended, Place, InWord, Goto, TypeOK
  <2> QED  BY <1>0, <2>1, GapCloses
<1>12. CASE BeginWord \/ WordChar
  <2>1. /\ pc \notin Ended /\ UNCHANGED <<toks, spans>>
        /\ Place' = Place /\ pc' \notin {"line", "block"}
    BY <1>12 DEF BeginWord, WordChar, outVars, Ended, Goto, Place, InWord
  <2>2. Place \in Nat /\ \A p \in Place .. Place - 1 : FALSE
    BY <1>0, <2>1, GapIsBehind
  <2> QED  BY <1>0, <2>1, <2>2, GapMoves
<1>13. CASE EmitWord
  <2>1. begin + len = cur /\ pc = "classify"
    BY <1>0, <1>13 DEF EmitWord, TextInv, LexerInv, WordIsInSource
  <2>2. /\ pc \notin Ended /\ Place = begin /\ begin + len \in Nat /\ pc' = "trim"
        /\ Place' = begin + len
        /\ Emit(WordKind(Word), PosPast(len), WordText(Word), begin, begin + len)
    BY <1>0, <1>13, <2>1 DEF EmitWord, Ended, Place, InWord, Goto, TypeOK
  <2> QED  BY <1>0, <2>2, GapCloses
<1>14. CASE UnterminatedLiteral \/ InvalidIdentifier
  BY <1>3, <1>14 DEF UnterminatedLiteral, InvalidIdentifier, Fail
<1>15. CASE EmptyWord
  BY <1>2, <1>15 DEF EmptyWord, Goto, outVars, Ended
<1>16. CASE UNCHANGED vars
  <2>1. /\ \A g, p : IsTrivia(g, p)' <=> IsTrivia(g, p)
        /\ \A q, p : OpensLine(q, p)' <=> OpensLine(q, p)
        /\ \A q, p : OpensBlock(q, p)' <=> OpensBlock(q, p)
    BY <1>0, TriviaStays
  <2>2. /\ AllGaps /\ GapIsTrivia /\ UNCHANGED <<toks, spans, pc, cur, begin>>
        /\ Gap' = Gap /\ Place' = Place
    BY <1>16, AllGapsAre DEF GapInv, vars, outVars, wordVars, Gap, Place, InWord
  <2>3. AllGaps'
    <3>1. \A i : GapBefore(i)' = GapBefore(i)
      BY <2>2 DEF GapBefore
    <3> QED  BY <2>1, <2>2, <3>1 DEF AllGaps
  <2>4. GapIsTrivia'
    BY <2>1, <2>2 DEF GapIsTrivia
  <2> QED  BY <2>3, <2>4, AllGapsAre
<1> QED  BY <1>4, <1>5, <1>6, <1>7, <1>8, <1>9, <1>10, <1>11, <1>12, <1>13, <1>14, <1>15,
            <1>16 DEF Next, Trim, Comment, Scan, ReadWord, Classify

LEMMA GapInvariant == Spec => []GapInv
<1>1. Init => GapInv
  <2> SUFFICES ASSUME Init PROVE GapInv
    OBVIOUS
  <2>1. spans = <<>> /\ cur = 0 /\ pc = "trim"
    BY DEF Init
  <2>2. \A p \in 0 .. 0 - 1 : FALSE
    OBVIOUS
  <2> QED  BY <2>1, <2>2, TextInit DEF GapInv, GapsAreTrivia, GapIsTrivia, Gap, Place, InWord
<1>2. GapInv /\ [Next]_vars => GapInv'
  BY GapStep, TextStep DEF GapInv
<1> QED  BY <1>1, <1>2, PTL DEF Spec

(* No text is lost: lx_trim_spaces and lx_trim_comment skip blanks and         *)
(* comments only, and a block comment ends where the text says it does.       *)
THEOREM OnlyTriviaIsSkipped == Spec => []GapsAreTrivia
<1>1. GapInv => GapsAreTrivia
  BY DEF GapInv
<1> QED  BY <1>1, GapInvariant, PTL

-----------------------------------------------------------------------------
(* Where the tokens stand.                                                  *)

SpansAreBehind ==
  \A i \in DOMAIN spans : /\ spans[i].from <= spans[i].to
                          /\ pc \notin Ended => spans[i].to <= Place
LinesAreCounted ==
  pc \notin Ended => /\ row = 1 + Cardinality(LineBreaks(Place))
                     /\ bol = LineStart(Place)
PositionInv == TextInv /\ SpansAreBehind /\ LinesAreCounted /\ PositionsAreFaithful

(* PositionsAreFaithful, in these words; LineStart, of the line breaks.       *)
IsPlaced(k, pos, a, b) ==
  /\ pos.row = 1 + Cardinality(LineBreaks(a))
  /\ pos.col = (a - LineStart(a) + (IF k \in {"EOF", "NEWLINE"} THEN 0 ELSE 1)) % U8
  /\ k # "EOF" => pos.span = (b - a) % U8
AllPlaced ==
  \A i \in DOMAIN toks : IsPlaced(toks[i].kind, toks[i].pos, spans[i].from, spans[i].to)
StartOf(S) == IF S = {} THEN 0 ELSE 1 + CHOOSE q \in S : \A r \in S : r <= q

LEMMA AllPlacedAre ==
  /\ AllPlaced <=> PositionsAreFaithful
  /\ AllPlaced' <=> PositionsAreFaithful'
  /\ \A p : LineStart(p) = StartOf(LineBreaks(p)) /\ LineStart(p)' = StartOf(LineBreaks(p)')
<1>1. AllPlaced <=> PositionsAreFaithful
  BY DEF AllPlaced, PositionsAreFaithful, IsPlaced
<1>2. AllPlaced' <=> PositionsAreFaithful'
  BY DEF AllPlaced, PositionsAreFaithful, IsPlaced
<1>3. \A p : LineStart(p) = StartOf(LineBreaks(p)) /\ LineStart(p)' = StartOf(LineBreaks(p)')
  BY DEF LineStart, StartOf
<1> QED  BY <1>1, <1>2, <1>3

(* A stretch of text without a line break, and one line break.                *)
LEMMA NoBreak ==
  ASSUME src' = src, Size \in Nat, NEW a \in Nat, NEW b \in Nat, a <= b,
         \A q \in 0 .. a - 1 : InLiteral(q)' <=> InLiteral(q),
         \A q \in a .. b - 1 : q < Size /\ At(q) = NL => InLiteral(q)'
  PROVE  LineBreaks(b)' = LineBreaks(a)
<1>1. Size' = Size /\ \A i : At(i)' = At(i)
  BY TextStays
<1>2. \A q \in 0 .. Size - 1 : /\ q < b => q \in 0 .. a - 1 \/ q \in a .. b - 1
                               /\ q < a => q \in 0 .. a - 1 /\ q < b
                               /\ q \in a .. b - 1 => ~(q < a)
                               /\ q < Size
                               /\ q \in 0 .. a - 1 => q < a
  BY <1>1
<1> QED  BY <1>1, <1>2 DEF LineBreaks

LEMMA OneBreak ==
  ASSUME src' = src, Size \in Nat, NEW a \in Nat, a < Size, At(a) = NL, ~InLiteral(a)',
         \A q \in 0 .. a - 1 : InLiteral(q)' <=> InLiteral(q)
  PROVE  LineBreaks(a + 1)' = LineBreaks(a) \cup {a}
<1>1. Size' = Size /\ \A i : At(i)' = At(i)
  BY TextStays
<1>2. /\ \A q \in 0 .. Size - 1 : /\ q < a + 1 => q \in 0 .. a - 1 \/ q = a
                                  /\ q < a => q \in 0 .. a - 1 /\ q < a + 1
                                  /\ q \in 0 .. a - 1 => q < a
      /\ a \in 0 .. Size - 1 /\ a < a + 1
  OBVIOUS
<1> QED  BY <1>1, <1>2 DEF LineBreaks

LEMMA AddsOne ==
  ASSUME NEW a \in Nat, NEW S \in SUBSET (0 .. a - 1)
  PROVE  Cardinality(S \cup {a}) = Cardinality(S) + 1 /\ StartOf(S \cup {a}) = a + 1
<1>1. IsFiniteSet(S)
  <2>1. IsFiniteSet(0 .. a - 1)
    BY FS_Interval
  <2> QED  BY <2>1, FS_Subset
<1>2. a \notin S /\ \A r \in S : r <= a /\ ~(a <= r)
  OBVIOUS
<1>3. Cardinality(S \cup {a}) = Cardinality(S) + 1
  BY <1>1, <1>2, FS_AddElement
<1>4. StartOf(S \cup {a}) = a + 1
  <2>1. \A q \in S \cup {a} : (\A r \in S \cup {a} : r <= q) <=> q = a
    BY <1>2
  <2> DEFINE T == S \cup {a}
             top == CHOOSE q \in T : \A r \in T : r <= q
  <2>2. a \in T /\ (\A r \in T : r <= a) /\ T # {}
    BY <2>1
  <2>3. top \in T /\ \A r \in T : r <= top
    BY <2>2
  <2>4. top = a
    BY <2>1, <2>3
  <2>5. StartOf(T) = 1 + top
    BY <2>2 DEF StartOf
  <2> HIDE DEF top
  <2>6. 1 + top = a + 1
    BY <2>4
  <2> QED  BY <2>5, <2>6
<1> QED  BY <1>3, <1>4

LEMMA BreaksAreBehind ==
  ASSUME NEW a \in Nat PROVE LineBreaks(a) \in SUBSET (0 .. a - 1)
BY DEF LineBreaks

LEMMA PlacedStay ==
  ASSUME src' = src, Size \in Nat, NEW p \in Nat,
         \A q \in 0 .. p - 1 : InLiteral(q)' <=> InLiteral(q)
  PROVE  \A k, pos, b : \A a \in 0 .. p : IsPlaced(k, pos, a, b)' <=> IsPlaced(k, pos, a, b)
<1> SUFFICES ASSUME NEW k, NEW pos, NEW b, NEW a \in 0 .. p
             PROVE  IsPlaced(k, pos, a, b)' <=> IsPlaced(k, pos, a, b)
  OBVIOUS
<1>1. LineBreaks(a)' = LineBreaks(a)
  <2>1. a \in Nat /\ (\A q \in a .. a - 1 : FALSE) /\ \A q \in 0 .. a - 1 : q \in 0 .. p - 1
    OBVIOUS
  <2> QED  BY <2>1, NoBreak
<1>2. LineStart(a)' = LineStart(a)
  BY <1>1, AllPlacedAre
<1> QED  BY <1>1, <1>2 DEF IsPlaced

(* No token: the tokens stay where they stand.                               *)
LEMMA PlacedMoves ==
  ASSUME PositionInv, pc \notin Ended, src' = src, UNCHANGED <<toks, spans>>,
         Place' \in Nat, Place <= Place'
  PROVE  SpansAreBehind' /\ PositionsAreFaithful' /\ \A q : InLiteral(q)' <=> InLiteral(q)
<1>1. \A q : InLiteral(q)' <=> InLiteral(q)
  BY DEF InLiteral
<1>2. /\ Place \in Nat /\ spans \in Seq(Span) /\ toks \in Seq(Token)
      /\ Len(toks) = Len(spans) /\ Size \in Nat
  BY GapIsBehind, SizeIsNat DEF PositionInv, TypeOK
<1>3. \A i \in DOMAIN spans : /\ spans[i].from \in Nat /\ spans[i].to \in Nat
                              /\ spans[i].from <= spans[i].to /\ spans[i].to <= Place
  <2>1. ASSUME NEW i \in DOMAIN spans PROVE spans[i] \in Span
    <3>1. i \in 1 .. Len(spans)
      BY <1>2
    <3> QED  BY <1>2, <3>1, ElementOfSeq
  <2>2. \A i \in DOMAIN spans : spans[i].from <= spans[i].to /\ spans[i].to <= Place
    BY DEF PositionInv, SpansAreBehind
  <2> QED  BY <2>1, <2>2 DEF Span
<1>4. \A i \in DOMAIN spans : spans[i].to <= Place' /\ spans[i].from \in 0 .. Place
  BY <1>2, <1>3
<1>5. SpansAreBehind'
  BY <1>3, <1>4 DEF SpansAreBehind
<1>6. \A k, pos, b : \A a \in 0 .. Place : IsPlaced(k, pos, a, b)' <=> IsPlaced(k, pos, a, b)
  BY <1>1, <1>2, PlacedStay
<1>7. AllPlaced /\ DOMAIN toks = DOMAIN spans
  BY <1>2, AllPlacedAre DEF PositionInv
<1>8. AllPlaced'
  BY <1>4, <1>6, <1>7 DEF AllPlaced
<1> QED  BY <1>1, <1>5, <1>8, AllPlacedAre

(* A token, which begins in the place: only its own text can become literal. *)
LEMMA PlacedEmit ==
  ASSUME PositionInv, pc \notin Ended, src' = src,
         NEW kind, NEW pos, NEW text, NEW to \in Nat, Emit(kind, pos, text, Place, to),
         Place <= to, pc' \notin Ended => Place' = to, IsPlaced(kind, pos, Place, to)
  PROVE  /\ SpansAreBehind' /\ PositionsAreFaithful'
         /\ \A q \in 0 .. Place - 1 : InLiteral(q)' <=> InLiteral(q)
         /\ \A q \in Place .. to - 1 : InLiteral(q)' <=> kind \in LiteralKinds
<1> DEFINE n == Len(toks)
           p == Place
<1>1. /\ p \in Nat /\ spans \in Seq(Span) /\ Len(toks) = Len(spans) /\ TypeOK
      /\ Size \in Nat
  BY GapIsBehind, SizeIsNat DEF PositionInv, TypeOK
<1>2. \A i \in DOMAIN spans : /\ spans[i].from \in Nat /\ spans[i].to \in Nat
                              /\ spans[i].from <= spans[i].to /\ spans[i].to <= p
  <2>1. ASSUME NEW i \in DOMAIN spans PROVE spans[i] \in Span
    <3>1. i \in 1 .. Len(spans)
      BY <1>1
    <3> QED  BY <1>1, <3>1, ElementOfSeq
  <2>2. \A i \in DOMAIN spans : spans[i].from <= spans[i].to /\ spans[i].to <= Place
    BY DEF PositionInv, SpansAreBehind
  <2> QED  BY <2>1, <2>2 DEF Span
<1>3. /\ n \in Nat /\ DOMAIN toks = 1 .. n /\ DOMAIN spans = 1 .. n
      /\ DOMAIN toks' = 1 .. n + 1 /\ DOMAIN spans' = 1 .. n + 1
      /\ n + 1 \in 1 .. n + 1
      /\ \A i \in 1 .. n : toks'[i] = toks[i] /\ spans'[i] = spans[i] /\ i \in 1 .. n + 1
      /\ toks'[n + 1].kind = kind /\ toks'[n + 1].pos = pos
      /\ spans'[n + 1].from = p /\ spans'[n + 1].to = to
      /\ \A i \in 1 .. n + 1 : i \in 1 .. n \/ i = n + 1
  BY <1>1, EmitParts
<1>4. AllPlaced /\ SpansAreBehind
  BY AllPlacedAre DEF PositionInv
<1>5. p <= to /\ IsPlaced(kind, pos, p, to) /\ (pc' \notin Ended => Place' = to)
  OBVIOUS
<1> HIDE DEF n, p
<1>6. \A i \in 1 .. n : spans[i].to <= to /\ spans[i].from \in 0 .. p
  BY <1>1, <1>2, <1>3, <1>5
<1>7. SpansAreBehind'
  <2>1. ASSUME NEW i \in 1 .. n + 1
        PROVE  spans'[i].from <= spans'[i].to /\ spans'[i].to <= to
    <3>1. CASE i \in 1 .. n
      BY <1>2, <1>3, <1>6, <3>1
    <3>2. CASE i = n + 1
      BY <1>3, <1>5, <3>2
    <3> QED  BY <1>3, <3>1, <3>2
  <2> QED  BY <1>3, <1>5, <2>1 DEF SpansAreBehind
<1>8. ASSUME NEW q \in 0 .. p - 1 PROVE InLiteral(q)' <=> InLiteral(q)
  <2>1. ~(p <= q)
    BY <1>1
  <2> QED  BY <1>3, <2>1 DEF InLiteral
<1>9. ASSUME NEW q \in p .. to - 1 PROVE InLiteral(q)' <=> kind \in LiteralKinds
  <2>1. p <= q /\ q < to
    BY <1>1
  <2>2. ASSUME NEW i \in 1 .. n PROVE ~(q < spans[i].to)
    <3>1. i \in DOMAIN spans /\ p \in Nat
      BY <1>1, <1>3
    <3>2. spans[i].to \in Nat /\ spans[i].to <= p
      BY <1>2, <3>1
    <3> QED  BY <2>1, <3>1, <3>2
  <2> QED  BY <1>3, <2>1, <2>2 DEF InLiteral
<1>10. \A k, x, b : \A a \in 0 .. p : IsPlaced(k, x, a, b)' <=> IsPlaced(k, x, a, b)
  BY <1>1, <1>8, PlacedStay
<1>11. ASSUME NEW i \in 1 .. n + 1
       PROVE  /\ IsPlaced(toks'[i].kind, toks'[i].pos, spans'[i].from, spans'[i].to)
              /\ spans'[i].from \in 0 .. p
  <2>1. p \in 0 .. p
    BY <1>1
  <2>2. CASE i = n + 1
    BY <1>3, <1>5, <2>1, <2>2
  <2>3. CASE i \in 1 .. n
    BY <1>3, <1>4, <1>6, <2>3 DEF AllPlaced
  <2> QED  BY <1>3, <2>2, <2>3
<1>12. AllPlaced'
  BY <1>3, <1>10, <1>11 DEF AllPlaced
<1> QED  BY <1>7, <1>8, <1>9, <1>12, AllPlacedAre DEF p

(* The lines that end before the place, from the place c of the next state.   *)
LEMMA LinesAre ==
  ASSUME NEW c \in Nat, Place' = c,
         pc' \notin Ended => /\ row' = 1 + Cardinality(LineBreaks(c)')
                             /\ bol' = StartOf(LineBreaks(c)')
  PROVE  LinesAreCounted'
<1>1. LineBreaks(Place)' = LineBreaks(c)'
  BY DEF LineBreaks
<1>2. LineStart(Place)' = StartOf(LineBreaks(Place)')
  BY DEF LineStart, StartOf
<1> QED  BY <1>1, <1>2 DEF LinesAreCounted

LEMMA LinesStay ==
  ASSUME LinesAreCounted, pc \notin Ended, src' = src, Size \in Nat, Place \in Nat,
         row' = row, bol' = bol, NEW c \in Nat, Place' = c, Place <= c,
         \A q \in 0 .. Place - 1 : InLiteral(q)' <=> InLiteral(q),
         \A q \in Place .. c - 1 : q < Size /\ At(q) = NL => InLiteral(q)'
  PROVE  LinesAreCounted'
<1>1. LineBreaks(c)' = LineBreaks(Place)
  BY NoBreak
<1>2. row = 1 + Cardinality(LineBreaks(Place)) /\ bol = StartOf(LineBreaks(Place))
  BY AllPlacedAre DEF LinesAreCounted
<1> QED  BY <1>1, <1>2, LinesAre

LEMMA LinesMove ==
  ASSUME LinesAreCounted, pc \notin Ended, src' = src, Size \in Nat,
         NEW p \in Nat, Place = p, Place' = p + 1, row' = row + 1, bol' = p + 1,
         p < Size, At(p) = NL, ~InLiteral(p)',
         \A q \in 0 .. p - 1 : InLiteral(q)' <=> InLiteral(q)
  PROVE  LinesAreCounted'
<1> DEFINE S == LineBreaks(p)
<1>1. row = 1 + Cardinality(S) /\ S \in SUBSET (0 .. p - 1)
  BY BreaksAreBehind DEF LinesAreCounted
<1>2. LineBreaks(p + 1)' = S \cup {p}
  BY OneBreak
<1>3. p + 1 \in Nat
  OBVIOUS
<1> HIDE DEF S
<1>4. Cardinality(S \cup {p}) = Cardinality(S) + 1 /\ StartOf(S \cup {p}) = p + 1
  BY <1>1, AddsOne
<1>5. IsFiniteSet(S)
  <2>1. IsFiniteSet(0 .. p - 1)
    BY FS_Interval
  <2> QED  BY <1>1, <2>1, FS_Subset
<1>6. Cardinality(S) \in Nat
  BY <1>5, FS_CardinalityType
<1>7. row' = 1 + Cardinality(LineBreaks(p + 1)')
  <2>1. Cardinality(LineBreaks(p + 1)') = Cardinality(S \cup {p})
    BY <1>2
  <2>2. row' = 1 + Cardinality(S) + 1 /\ Cardinality(S \cup {p}) = Cardinality(S) + 1
    BY <1>1, <1>4
  <2> HIDE DEF S
  <2>3. row' = 1 + Cardinality(S \cup {p})
    BY <1>6, <2>2
  <2> QED  BY <2>1, <2>3
<1>8. bol' = StartOf(LineBreaks(p + 1)')
  BY <1>2, <1>4
<1> QED  BY <1>3, <1>7, <1>8, LinesAre

(* POS_HERE and POS, where the scanner uses them.                             *)
LEMMA PositionsArePlaced ==
  ASSUME PositionInv, pc \notin Ended
  PROVE  /\ ~InWord => \A kind : \A n \in Nat : kind \notin {"EOF", "NEWLINE"} =>
                         IsPlaced(kind, PosHere(n), Place, cur + n)
         /\ ~InWord => /\ IsPlaced("EOF", PosPast(1), Place, cur)
                       /\ IsPlaced("NEWLINE", PosPast(1), Place, cur + 1)
         /\ InWord /\ begin + len = cur =>
              \A kind : kind \notin {"EOF", "NEWLINE"} =>
                IsPlaced(kind, PosPast(len), Place, cur)
<1> DEFINE s == LineStart(Place)
<1>1. row = 1 + Cardinality(LineBreaks(Place)) /\ bol = s
  BY DEF PositionInv, LinesAreCounted
<1>2. bol \in Nat /\ cur \in Nat /\ begin \in Nat /\ len \in Nat
  BY GapIsBehind DEF PositionInv, TypeOK
<1>3. ~InWord => Place = cur
  BY DEF Place
<1>4. InWord => Place = begin
  BY DEF Place
<1> HIDE DEF s
<1>5. ASSUME ~InWord, NEW kind, NEW n \in Nat, kind \notin {"EOF", "NEWLINE"}
      PROVE  IsPlaced(kind, PosHere(n), Place, cur + n)
  <2>1. (cur + n) - Place = n /\ Place - s + 1 = cur - bol + 1
    BY <1>1, <1>2, <1>3, <1>5
  <2> QED  BY <1>1, <1>5, <2>1 DEF IsPlaced, PosHere, s
<1>6. ASSUME ~InWord
      PROVE  /\ IsPlaced("EOF", PosPast(1), Place, cur)
             /\ IsPlaced("NEWLINE", PosPast(1), Place, cur + 1)
  <2>1. (cur + 1) - Place = 1 /\ Place - s + 0 = cur - bol + 1 - 1
    BY <1>1, <1>2, <1>3, <1>6
  <2> QED  BY <1>1, <2>1 DEF IsPlaced, PosPast, s
<1>7. ASSUME InWord, begin + len = cur, NEW kind, kind \notin {"EOF", "NEWLINE"}
      PROVE  IsPlaced(kind, PosPast(len), Place, cur)
  <2>1. cur - Place = len /\ Place - s + 1 = cur - bol + 1 - len
    BY <1>1, <1>2, <1>4, <1>7
  <2> QED  BY <1>1, <1>7, <2>1 DEF IsPlaced, PosPast, s
<1> QED  BY <1>5, <1>6, <1>7

(* A step that takes no token and passes no newline.                          *)
LEMMA PositionMoves ==
  ASSUME PositionInv, pc \notin Ended, src' = src, UNCHANGED <<toks, spans, row, bol>>,
         NEW c \in Nat, Place' = c, Place <= c,
         \A q \in Place .. c - 1 : q < Size => At(q) # NL
  PROVE  SpansAreBehind' /\ LinesAreCounted' /\ PositionsAreFaithful'
<1>1. SpansAreBehind' /\ PositionsAreFaithful' /\ \A q : InLiteral(q)' <=> InLiteral(q)
  BY PlacedMoves
<1>2. Size \in Nat /\ Place \in Nat /\ LinesAreCounted
  BY SizeIsNat, GapIsBehind DEF PositionInv
<1>3. LinesAreCounted'
  BY <1>1, <1>2, LinesStay
<1> QED  BY <1>1, <1>3

(* A step that takes a token with no newline in it, or a literal.             *)
LEMMA PositionEmits ==
  ASSUME PositionInv, pc \notin Ended, src' = src, UNCHANGED <<row, bol>>,
         NEW kind, NEW pos, NEW text, NEW to \in Nat, Emit(kind, pos, text, Place, to),
         Place <= to, Place' = to, IsPlaced(kind, pos, Place, to),
         kind \notin LiteralKinds => \A q \in Place .. to - 1 : q < Size => At(q) # NL
  PROVE  SpansAreBehind' /\ LinesAreCounted' /\ PositionsAreFaithful'
<1>1. /\ SpansAreBehind' /\ PositionsAreFaithful'
      /\ \A q \in 0 .. Place - 1 : InLiteral(q)' <=> InLiteral(q)
      /\ \A q \in Place .. to - 1 : InLiteral(q)' <=> kind \in LiteralKinds
  BY PlacedEmit
<1>2. Size \in Nat /\ Place \in Nat /\ LinesAreCounted
  BY SizeIsNat, GapIsBehind DEF PositionInv
<1>3. \A q \in Place .. to - 1 : q < Size /\ At(q) = NL => InLiteral(q)'
  BY <1>1
<1>4. LinesAreCounted'
  BY <1>1, <1>2, <1>3, LinesStay
<1> QED  BY <1>1, <1>4

LEMMA PositionStep ==
  ASSUME PositionInv, [Next]_vars
  PROVE  SpansAreBehind' /\ LinesAreCounted' /\ PositionsAreFaithful'
<1>0. /\ TextInv /\ LexerInv /\ TypeOK /\ src' = src /\ Size \in Nat
      /\ cur \in Nat /\ begin \in Nat /\ len \in Nat
  BY SourceConstant DEF PositionInv, TextInv, LexerInv, TypeOK
<1>1. pc \notin Ended => Place \in Nat /\ Place = IF InWord THEN begin ELSE cur
  BY <1>0, GapIsBehind DEF Place
<1>2. cur + 1 \in Nat /\ cur + 2 \in Nat /\ cur <= cur + 1 /\ cur <= cur + 2 /\ cur <= cur
      /\ begin <= begin
      /\ (\A q \in cur .. (cur + 1) - 1 : q = cur)
      /\ (\A q \in cur .. (cur + 2) - 1 : q = cur \/ q = cur + 1)
      /\ (\A q \in cur .. cur - 1 : FALSE)
      /\ (\A q \in begin .. begin - 1 : FALSE)
  BY <1>0
<1>3. CASE SkipBlank
  <2>1. /\ Place = cur /\ Place' = cur + 1 /\ pc \notin Ended /\ UNCHANGED <<toks, spans, row, bol>>
        /\ At(cur) # NL
    BY <1>3 DEF SkipBlank, outVars, Ended, Place, InWord, Blanks, NL
  <2> QED  BY <1>0, <1>2, <2>1, PositionMoves
<1>4. CASE EnterComment
  <2>1. /\ Place = cur /\ Place' = cur + 2 /\ pc \notin Ended /\ UNCHANGED <<toks, spans, row, bol>>
        /\ At(cur) # NL /\ At(cur + 1) # NL
    BY <1>4 DEF EnterComment, outVars, Ended, Place, InWord, AtComment, NL, Goto
  <2> QED  BY <1>0, <1>2, <2>1, PositionMoves
<1>5. CASE EndTrim
  <2>1. /\ Place = cur /\ Place' = cur /\ pc \notin Ended /\ UNCHANGED <<toks, spans, row, bol>>
    BY <1>5 DEF EndTrim, outVars, Ended, Place, InWord, Goto
  <2> QED  BY <1>0, <1>2, <2>1, PositionMoves
<1>6. CASE LineComment
  <2>1. /\ Place = cur /\ pc \notin Ended /\ UNCHANGED <<toks, spans, row, bol>>
        /\ \/ Place' = cur
           \/ Place' = cur + 1 /\ At(cur) # NL
    BY <1>6 DEF LineComment, outVars, Ended, Place, InWord, Goto
  <2> QED  BY <1>0, <1>2, <2>1, PositionMoves
<1>7. CASE BlockComment
  <2>1. /\ Place = cur /\ Place' = cur + 1 /\ pc \notin Ended /\ UNCHANGED <<toks, spans>>
        /\ cur < Size
        /\ \/ At(cur) # NL /\ UNCHANGED <<row, bol>>
           \/ At(cur) = NL /\ row' = row + 1 /\ bol' = cur + 1
    BY <1>7 DEF BlockComment, outVars, Ended, Place, InWord, BumpNewline, InBounds
  <2>2. CASE At(cur) # NL
    BY <1>0, <1>2, <2>1, <2>2, PositionMoves
  <2>3. CASE At(cur) = NL
    <3>1. SpansAreBehind' /\ PositionsAreFaithful' /\ \A q : InLiteral(q)' <=> InLiteral(q)
      BY <1>0, <1>2, <2>1, PlacedMoves
    <3>2. ~InLiteral(cur)
      <4>1. \A i \in DOMAIN spans : spans[i].to \in Nat /\ spans[i].to <= cur
        BY <1>0, <2>1, LexemeParts DEF PositionInv, SpansAreBehind, LexerInv, TypeOK,
           TokensAreBehind
      <4>2. DOMAIN toks = DOMAIN spans
        BY <1>0 DEF LexerInv, TypeOK, TokensAreBehind
      <4>3. \A i \in DOMAIN spans : ~(cur < spans[i].to)
        BY <1>0, <4>1
      <4> QED  BY <4>2, <4>3 DEF InLiteral
    <3>3. LinesAreCounted'
      BY <1>0, <2>1, <2>3, <3>1, <3>2, LinesMove DEF PositionInv
    <3> QED  BY <3>1, <3>3
  <2> QED  BY <2>2, <2>3
<1>8. CASE EndBlockComment
  <2>1. /\ Place = cur /\ Place' = cur + 2 /\ pc \notin Ended /\ UNCHANGED <<toks, spans, row, bol>>
        /\ cur < Size => At(cur) # NL /\ At(cur + 1) # NL
    BY <1>8 DEF EndBlockComment, outVars, Ended, Place, InWord, NL, Goto, InBounds, AtBlockEnd
  <2>2. cur + 1 < Size => cur < Size
    BY <1>0
  <2> QED  BY <1>0, <1>2, <2>1, <2>2, PositionMoves
<1>9. CASE ScanEof
  <2>1. /\ Place = cur /\ Place' = cur /\ pc \notin Ended /\ UNCHANGED <<row, bol>> /\ ~InWord
        /\ Emit("EOF", PosPast(1), <<>>, cur, cur)
    BY <1>9 DEF ScanEof, Ended, Place, InWord, Goto
  <2>2. IsPlaced("EOF", PosPast(1), Place, cur)
    BY <2>1, PositionsArePlaced
  <2> QED  BY <1>0, <1>2, <2>1, <2>2, PositionEmits
<1>10. CASE ScanNewline
  <2>1. /\ Place = cur /\ Place' = cur + 1 /\ pc \notin Ended /\ ~InWord
        /\ row' = row + 1 /\ bol' = cur + 1 /\ At(cur) = NL /\ cur < Size
        /\ Emit("NEWLINE", PosPast(1), <<>>, cur, cur + 1)
    BY <1>10 DEF ScanNewline, Ended, Place, InWord, Goto, BumpNewline, InBounds
  <2>2. IsPlaced("NEWLINE", PosPast(1), Place, cur + 1)
    BY <2>1, PositionsArePlaced
  <2>3. /\ SpansAreBehind' /\ PositionsAreFaithful'
        /\ \A q \in 0 .. cur - 1 : InLiteral(q)' <=> InLiteral(q)
        /\ \A q \in cur .. (cur + 1) - 1 : InLiteral(q)' <=> "NEWLINE" \in LiteralKinds
    BY <1>0, <1>2, <2>1, <2>2, PlacedEmit
  <2>4. PICK p \in Nat : p = cur
    BY <1>0
  <2>5. ~InLiteral(p)'
    <3>1. p \in cur .. (cur + 1) - 1 /\ "NEWLINE" \notin LiteralKinds
      BY <1>0, <2>4, KindsDiffer
    <3> QED  BY <2>3, <3>1, Zenon
  <2>6. LinesAreCounted'
    <3>1. /\ LinesAreCounted /\ pc \notin Ended /\ Place = p /\ Place' = p + 1
          /\ row' = row + 1 /\ bol' = p + 1 /\ p < Size /\ At(p) = NL
      BY <2>1, <2>4 DEF PositionInv
    <3>2. \A q \in 0 .. p - 1 : InLiteral(q)' <=> InLiteral(q)
      BY <2>3, <2>4
    <3> QED  BY <1>0, <2>5, <3>1, <3>2, LinesMove
  <2> QED  BY <2>3, <2>6
<1>11. CASE ScanDouble
  <2>1. /\ Place = cur /\ Place' = cur + 2 /\ pc \notin Ended /\ ~InWord
        /\ UNCHANGED <<row, bol>>
    BY <1>11 DEF ScanDouble, Ended, Place, InWord, Goto
  <2>2. PICK d \in DoubleAt(cur) : Emit(d[3], PosHere(2), <<>>, cur, cur + 2)
    BY <1>11 DEF ScanDouble
  <2>3. d[3] \in SymbolKinds /\ At(cur) # NL /\ At(cur + 1) # NL
    <3>1. \A e \in DoubleSymbols : e[1] # NL /\ e[2] # NL
      BY DEF DoubleSymbols, NL
    <3> QED  BY <3>1 DEF DoubleAt, SymbolKinds
  <2>4. IsPlaced(d[3], PosHere(2), Place, cur + 2)
    BY <2>1, <2>3, KindsDiffer, PositionsArePlaced
  <2> QED  BY <1>0, <1>2, <2>1, <2>2, <2>3, <2>4, PositionEmits
<1>12. CASE ScanSingle
  <2>1. /\ Place = cur /\ Place' = cur + 1 /\ pc \notin Ended /\ ~InWord
        /\ UNCHANGED <<row, bol>>
    BY <1>12 DEF ScanSingle, Ended, Place, InWord, Goto
  <2>2. PICK t \in SingleAt(cur) : Emit(t[2], PosHere(1), <<>>, cur, cur + 1)
    BY <1>12 DEF ScanSingle
  <2>3. t[2] \in SymbolKinds /\ At(cur) # NL
    <3>1. \A e \in SingleSymbols : e[1] # NL
      BY DEF SingleSymbols, NL
    <3> QED  BY <3>1 DEF SingleAt, SymbolKinds
  <2>4. IsPlaced(t[2], PosHere(1), Place, cur + 1)
    BY <2>1, <2>3, KindsDiffer, PositionsArePlaced
  <2> QED  BY <1>0, <1>2, <2>1, <2>2, <2>3, <2>4, PositionEmits
<1>13. CASE BeginWord
  <2>1. /\ Place = cur /\ Place' = cur /\ pc \notin Ended /\ UNCHANGED <<toks, spans, row, bol>>
    BY <1>13 DEF BeginWord, outVars, Ended, Place, InWord, Goto
  <2> QED  BY <1>0, <1>2, <2>1, PositionMoves
<1>14. CASE WordChar \/ EndWord
  <2>1. /\ Place = begin /\ Place' = begin /\ pc \notin Ended
        /\ UNCHANGED <<toks, spans, row, bol>>
    BY <1>14 DEF WordChar, EndWord, outVars, Ended, Place, InWord, Goto
  <2> QED  BY <1>0, <1>2, <2>1, PositionMoves
<1>15. CASE EmitWord
  <2>1. /\ pc = "classify" /\ len > 0 /\ WordKind(Word) # "INVALID"
        /\ Emit(WordKind(Word), PosPast(len), WordText(Word), begin, begin + len)
        /\ pc' = "trim" /\ UNCHANGED <<cur, row, bol>>
    BY <1>15 DEF EmitWord, Goto
  <2>2. begin + len = cur /\ begin <= cur
    BY <1>0, <2>1 DEF LexerInv, WordIsInSource
  <2>3. InWord /\ Place = begin /\ Place' = cur /\ pc \notin Ended
    BY <2>1 DEF Ended, Place, InWord
  <2>4. /\ WordKind(Word) \in LiteralKinds \cup WordKinds
        /\ IsLexeme(WordKind(Word), begin, cur)
    BY <1>0, <2>1, <2>2, LiteralIsDelimited, EmittedWordIsWhole
  <2>5. IsPlaced(WordKind(Word), PosPast(len), Place, cur)
    BY <2>2, <2>3, <2>4, KindsDiffer, PositionsArePlaced
  <2>6. WordKind(Word) \notin LiteralKinds => \A q \in begin .. cur - 1 : At(q) # NL
    BY <2>4 DEF IsLexeme, IsWord, EndsWord
  <2> HIDE DEF WordKind
  <2> QED  BY <1>0, <2>1, <2>2, <2>3, <2>5, <2>6, PositionEmits
<1>16. CASE UnterminatedLiteral \/ InvalidIdentifier
  BY <1>16 DEF UnterminatedLiteral, InvalidIdentifier, Fail, SpansAreBehind, LinesAreCounted,
     PositionsAreFaithful, Ended
<1>17. CASE EmptyWord
  <2>1. /\ Place = begin /\ Place' = cur /\ pc \notin Ended /\ begin = cur
        /\ UNCHANGED <<toks, spans, row, bol>>
    BY <1>0, <1>17 DEF EmptyWord, outVars, Ended, Place, InWord, Goto, LexerInv, WordIsInSource
  <2> QED  BY <1>0, <1>2, <2>1, PositionMoves
<1>18. CASE UNCHANGED vars
  <2>1. UNCHANGED <<src, cur, row, bol, pc, begin, toks, spans>>
    BY <1>18 DEF vars, wordVars, outVars
  <2>2. Size' = Size /\ Place' = Place /\ \A i : At(i)' = At(i)
    BY <2>1 DEF Size, Place, InWord, At
  <2>3. \A q : InLiteral(q)' <=> InLiteral(q)
    BY <2>1 DEF InLiteral
  <2>4. \A p : LineBreaks(p)' = LineBreaks(p)
    BY <2>2, <2>3 DEF LineBreaks
  <2>5. \A p : LineStart(p)' = LineStart(p)
    BY <2>4, AllPlacedAre
  <2>6. SpansAreBehind'
    BY <2>1, <2>2 DEF PositionInv, SpansAreBehind
  <2>7. \A k, pos, a, b : IsPlaced(k, pos, a, b)' <=> IsPlaced(k, pos, a, b)
    BY <2>4, <2>5 DEF IsPlaced
  <2>8. AllPlaced'
    BY <2>1, <2>7, AllPlacedAre DEF PositionInv, AllPlaced
  <2>9. LinesAreCounted'
    <3>1. LineBreaks(Place)' = LineBreaks(Place)
      BY <2>2, <2>3 DEF LineBreaks
    <3>2. LineStart(Place)' = LineStart(Place)
      BY <3>1 DEF LineStart
    <3> QED  BY <2>1, <3>1, <3>2 DEF PositionInv, LinesAreCounted
  <2> QED  BY <2>6, <2>8, <2>9, AllPlacedAre
<1> QED  BY <1>3, <1>4, <1>5, <1>6, <1>7, <1>8, <1>9, <1>10, <1>11, <1>12, <1>13, <1>14, <1>15,
            <1>16, <1>17, <1>18 DEF Next, Trim, Comment, Scan, ReadWord, Classify

LEMMA PositionInvariant == Spec => []PositionInv
<1>1. Init => PositionInv
  <2> SUFFICES ASSUME Init PROVE PositionInv
    OBVIOUS
  <2>1. /\ spans = <<>> /\ toks = <<>> /\ cur = 0 /\ row = 1 /\ bol = 0 /\ pc = "trim"
    BY DEF Init
  <2>2. LineBreaks(0) = {} /\ Place = 0
    <3>1. \A q \in 0 .. Size - 1 : ~(q < 0)
      OBVIOUS
    <3> QED  BY <2>1, <3>1 DEF LineBreaks, Place, InWord
  <2>3. Cardinality({}) = 0
    BY FS_EmptySet
  <2>4. LinesAreCounted
    <3>1. LineStart(Place) = 0
      BY <2>2 DEF LineStart
    <3>2. row = 1 + Cardinality(LineBreaks(Place))
      <4>1. Cardinality(LineBreaks(Place)) = 0
        BY <2>2, <2>3
      <4> QED  BY <2>1, <4>1
    <3> QED  BY <2>1, <3>1, <3>2 DEF LinesAreCounted
  <2>5. DOMAIN spans = {} /\ DOMAIN toks = {}
    BY <2>1
  <2>6. SpansAreBehind /\ PositionsAreFaithful
    BY <2>5 DEF SpansAreBehind, PositionsAreFaithful
  <2> QED  BY <2>4, <2>6, TextInit DEF PositionInv
<1>2. PositionInv /\ [Next]_vars => PositionInv'
  BY PositionStep, TextStep DEF PositionInv
<1> QED  BY <1>1, <1>2, PTL DEF Spec

(* The row and the column of a token are those of its text, newlines in        *)
(* block comments counted and those in literals not, whatever the lexer has    *)
(* passed: row, bol and POS are kept together in every loop.                  *)
THEOREM PositionsAreRight == Spec => []PositionsAreFaithful
<1>1. PositionInv => PositionsAreFaithful
  BY DEF PositionInv
<1> QED  BY <1>1, PositionInvariant, PTL

-----------------------------------------------------------------------------
(* The keyword table (KeywordTable.tla), for any lexers and parsers that share *)
(* it, any words, and any number of calls: the rows that are kept.            *)

Kept == {t \in Tables : t = Len(order) \/ order[t + 1] = "lx_new"}

RowsOf(S) == UNION {Table(t) : t \in S}

LEMMA InRowsOf == ASSUME NEW S, NEW r PROVE r \in RowsOf(S) <=> \E t \in S : r \in Table(t)
BY DEF RowsOf

(* A row belongs to one table.                                               *)
LEMMA RowsOfTables ==
  ASSUME NEW S, NEW k
  PROVE  /\ RowsOf(S \cup {k}) = RowsOf(S) \cup Table(k)
         /\ RowsOf(S \ {k}) = RowsOf(S) \ Table(k)
         /\ k \in S => Table(k) \subseteq RowsOf(S)
<1>1. \A t, r : t # k /\ r \in Table(t) => r \notin Table(k)
  BY DEF Table
<1>2. ASSUME NEW r PROVE r \in RowsOf(S \cup {k}) <=> r \in RowsOf(S) \/ r \in Table(k)
  BY InRowsOf, Zenon
<1>3. ASSUME NEW r
      PROVE  r \in RowsOf(S \ {k}) <=> r \in RowsOf(S) /\ r \notin Table(k)
  BY <1>1, InRowsOf
<1>4. ASSUME k \in S, NEW r \in Table(k) PROVE r \in RowsOf(S)
  BY <1>4, InRowsOf
<1> QED  BY <1>2, <1>3, <1>4

(* What the history says of the last table, and of no table.                 *)
LEMMA PointerIs ==
  ASSUME TableInv
  PROVE  /\ order \in Seq({"lx_new", "lx_free"}) /\ Len(order) \in Nat
         /\ kwt \in 0 .. Len(order) /\ Kept \subseteq 1 .. Len(order)
         /\ kwt # 0 <=> Len(order) > 0 /\ order[Len(order)] = "lx_new"
         /\ kwt # 0 => kwt = Len(order) /\ kwt \in Kept
         /\ kwt = 0 => Len(order) \notin Kept
         /\ rows = RowsOf(Kept)
<1>1. order \in Seq({"lx_new", "lx_free"}) /\ kwt \in 0 .. Len(order)
  BY DEF TableInv, TableTypeOK
<1>2. kwt = IF order # <<>> /\ order[Len(order)] = "lx_new" THEN Len(order) ELSE 0
  BY DEF TableInv, PointerIsLast
<1>3. Len(order) \in Nat /\ (order # <<>> <=> Len(order) > 0)
  BY <1>1
<1>4. kwt # 0 <=> Len(order) > 0 /\ order[Len(order)] = "lx_new"
  BY <1>2, <1>3
<1>5. Len(order) \in Kept <=> Len(order) > 0 /\ order[Len(order)] = "lx_new"
  BY <1>3 DEF Kept, Tables
<1>6. Kept \subseteq 1 .. Len(order)
  BY DEF Kept, Tables
<1>7. rows = RowsOf(Kept)
  BY DEF TableInv, RowsAreAccountedFor, Kept, RowsOf
<1> QED  BY <1>1, <1>2, <1>3, <1>4, <1>5, <1>6, <1>7

(* What a call adds to the history.                                          *)
LEMMA CountedIs ==
  ASSUME TableInv, NEW call \in {"lx_new", "lx_free"}, Counted(call)
  PROVE  /\ order' \in Seq({"lx_new", "lx_free"}) /\ Len(order') = Len(order) + 1
         /\ order'[Len(order')] = call /\ order' # <<>>
         /\ \A k \in 1 .. Len(order) : order'[k] = order[k]
BY PointerIs DEF Counted

LEMMA KeptGrows ==
  ASSUME TableInv, Counted("lx_new") PROVE Kept' = Kept \cup {Len(order')}
<1> DEFINE n == Len(order)
<1>1. /\ n \in Nat /\ Len(order') = n + 1 /\ order'[n + 1] = "lx_new"
      /\ \A k \in 1 .. n : order'[k] = order[k]
  BY PointerIs, CountedIs
<1>2. \A t : t \in Tables' <=> t \in Tables \/ t = n + 1
  BY <1>1 DEF Tables
<1>3. \A t \in Tables : t \in 1 .. n /\ (t = n \/ t + 1 \in 1 .. n)
  BY <1>1 DEF Tables
<1>4. \A t \in Tables : order'[t + 1] = "lx_new" <=> t = n \/ order[t + 1] = "lx_new"
  BY <1>1, <1>3
<1>5. \A t \in Tables : t # n + 1
  BY <1>1, <1>3
<1> QED  BY <1>1, <1>2, <1>4, <1>5 DEF Kept

LEMMA KeptShrinks ==
  ASSUME TableInv, Counted("lx_free") PROVE Kept' = Kept \ {kwt}
<1> DEFINE n == Len(order)
<1>1. /\ n \in Nat /\ Len(order') = n + 1 /\ order'[n + 1] = "lx_free"
      /\ \A k \in 1 .. n : order'[k] = order[k]
  BY PointerIs, CountedIs
<1>2. \A t : t \in Tables' <=> t \in Tables
  BY <1>1 DEF Tables
<1>3. \A t \in Tables : t \in 1 .. n /\ (t = n \/ t + 1 \in 1 .. n) /\ t # n + 1
  BY <1>1 DEF Tables
<1>4. \A t \in Tables : order'[t + 1] = "lx_new" <=> t # n /\ order[t + 1] = "lx_new"
  BY <1>1, <1>3
<1>5. \A t : t \in Kept' <=> t \in Kept /\ t # n
  BY <1>1, <1>2, <1>3, <1>4 DEF Kept
<1>6. kwt = n \/ (kwt = 0 /\ n \notin Kept)
  BY PointerIs
<1>7. 0 \notin Kept
  BY PointerIs
<1> QED  BY <1>5, <1>6, <1>7

-----------------------------------------------------------------------------
(* The calls.                                                                *)

(* A lexer's fields, as With leaves them.                                    *)
LexersFine ==
  /\ DOMAIN lexer \subseteq Lexers
  /\ \A l \in DOMAIN lexer :
       /\ lexer[l].cur \in 0 .. Len(Src[l])
       /\ lexer[l].toks \in Seq({"keyword", "identifier"})
       /\ Len(lexer[l].toks) = lexer[l].cur

LEMMA WithKeeps ==
  ASSUME LexersFine, NEW l \in Lexers, NEW c \in 0 .. Len(Src[l]),
         NEW read \in Seq({"keyword", "identifier"}), Len(read) = c,
         With(l, [cur |-> c, toks |-> read])
  PROVE  LexersFine'
<1> DEFINE fields == [cur |-> c, toks |-> read]
<1>1. lexer' = [m \in DOMAIN lexer \cup {l} |-> IF m = l THEN fields ELSE lexer[m]]
  BY DEF With
<1>2. fields.cur = c /\ fields.toks = read
  OBVIOUS
<1>3. /\ DOMAIN lexer' = DOMAIN lexer \cup {l} /\ lexer'[l] = fields
      /\ \A m \in DOMAIN lexer \ {l} : lexer'[m] = lexer[m]
  <2> HIDE DEF fields
  <2> QED  BY <1>1
<1> HIDE DEF fields
<1> QED  BY <1>2, <1>3 DEF LexersFine

(* A call that makes a table.                                                *)
LEMMA NewKeeps ==
  ASSUME TableInv, Counted("lx_new"), lx_kwt_setup, misused' = misused,
         parsers' \subseteq Parsers, LexersFine'
  PROVE  TableInv'
<1> DEFINE n == Len(order')
<1>1. /\ order' \in Seq({"lx_new", "lx_free"}) /\ n = Len(order) + 1
      /\ order'[n] = "lx_new" /\ order' # <<>>
  BY CountedIs
<1>2. kwt' = n /\ rows' = rows \cup Table(n)
  BY DEF lx_kwt_setup
<1>3. Kept' = Kept \cup {n} /\ rows = RowsOf(Kept)
      /\ Len(order) \in Nat /\ Kept \subseteq 1 .. Len(order)
  BY KeptGrows, PointerIs
<1>4. rows' = RowsOf(Kept')
  BY <1>2, <1>3, RowsOfTables
<1>5. Kept' \subseteq 1 .. n /\ kwt' \in 0 .. n
  <2>1. Kept' \subseteq 1 .. Len(order) \cup {n} /\ kwt' \in {0, n}
    BY <1>2, <1>3
  <2>2. n = Len(order) + 1 /\ Len(order) \in Nat
    BY <1>1, <1>3
  <2> HIDE DEF n
  <2>3. 1 .. Len(order) \cup {n} \subseteq 1 .. n /\ {0, n} \subseteq 0 .. n
    BY <2>2, SMT
  <2> QED  BY <2>1, <2>3
<1>6. rows' \subseteq (1 .. n) \X Reserved
  <2> SUFFICES ASSUME NEW r \in rows' PROVE r \in (1 .. n) \X Reserved
    OBVIOUS
  <2>1. PICK t \in Kept' : r \in Table(t)
    BY <1>4, InRowsOf
  <2>2. t \in 1 .. n
    BY <1>5, <2>1
  <2> HIDE DEF n
  <2> QED  BY <2>1, <2>2 DEF Table
<1>7. PointerIsLast'
  BY <1>1, <1>2 DEF PointerIsLast
<1> QED
  BY <1>1, <1>4, <1>5, <1>6, <1>7
  DEF TableInv, TableTypeOK, RowsAreAccountedFor, RowsAreFreedOnce, Kept, RowsOf, LexersFine

(* A call that frees the table the pointer leads to.                         *)
LEMMA FreeKeeps ==
  ASSUME TableInv, Counted("lx_free"), lx_kwt_free,
         parsers' \subseteq Parsers, LexersFine'
  PROVE  TableInv'
<1> DEFINE n == Len(order')
<1>1. /\ order' \in Seq({"lx_new", "lx_free"}) /\ n = Len(order) + 1
      /\ order'[n] = "lx_free" /\ order' # <<>>
  BY CountedIs
<1>2. /\ kwt' = 0 /\ rows' = rows \ Table(kwt)
      /\ misused' = (misused \/ (kwt # 0 /\ ~(Table(kwt) \subseteq rows)))
  BY DEF lx_kwt_free
<1>3. /\ Kept' = Kept \ {kwt} /\ rows = RowsOf(Kept)
      /\ Len(order) \in Nat /\ Kept \subseteq 1 .. Len(order)
      /\ kwt # 0 => kwt \in Kept
  BY KeptShrinks, PointerIs
<1>4. rows' = RowsOf(Kept')
  BY <1>2, <1>3, RowsOfTables
<1>5. Kept' \subseteq 1 .. n /\ kwt' \in 0 .. n
  <2>1. Kept' \subseteq 1 .. Len(order) \cup {n} /\ kwt' \in {0, n}
    BY <1>2, <1>3
  <2>2. n = Len(order) + 1 /\ Len(order) \in Nat
    BY <1>1, <1>3
  <2> HIDE DEF n
  <2>3. 1 .. Len(order) \cup {n} \subseteq 1 .. n /\ {0, n} \subseteq 0 .. n
    BY <2>2, SMT
  <2> QED  BY <2>1, <2>3
<1>6. rows' \subseteq (1 .. n) \X Reserved
  <2> SUFFICES ASSUME NEW r \in rows' PROVE r \in (1 .. n) \X Reserved
    OBVIOUS
  <2>1. PICK t \in Kept' : r \in Table(t)
    BY <1>4, InRowsOf
  <2>2. t \in 1 .. n
    BY <1>5, <2>1
  <2> HIDE DEF n
  <2> QED  BY <2>1, <2>2 DEF Table
<1>7. PointerIsLast'
  BY <1>1, <1>2 DEF PointerIsLast
<1>8. ~misused'
  <2>1. kwt # 0 => Table(kwt) \subseteq rows
    BY <1>3, RowsOfTables
  <2> QED  BY <1>2, <2>1 DEF TableInv, RowsAreFreedOnce
<1> QED
  BY <1>1, <1>4, <1>5, <1>6, <1>7, <1>8
  DEF TableInv, TableTypeOK, RowsAreAccountedFor, RowsAreFreedOnce, Kept, RowsOf, LexersFine

(* A call that leaves the table alone.                                       *)
LEMMA ElsewhereKeeps ==
  ASSUME TableInv, UNCHANGED <<kwt, rows, order>>, ~misused',
         parsers' \subseteq Parsers, LexersFine'
  PROVE  TableInv'
BY DEF TableInv, TableTypeOK, RowsAreAccountedFor, RowsAreFreedOnce, PointerIsLast, Tables,
       LexersFine

LEMMA TableFacts ==
  ASSUME TableInv
  PROVE  LexersFine /\ parsers \subseteq Parsers /\ ~misused
         /\ (kwt # 0 => Table(kwt) \subseteq rows)
<1>1. kwt # 0 => Table(kwt) \subseteq rows
  <2>1. (kwt # 0 => kwt \in Kept) /\ rows = RowsOf(Kept)
    BY PointerIs
  <2>2. kwt \in Kept => Table(kwt) \subseteq RowsOf(Kept)
    BY RowsOfTables
  <2> QED  BY <2>1, <2>2
<1> QED  BY <1>1 DEF TableInv, TableTypeOK, LexersFine, RowsAreFreedOnce

LEMMA NewStep == ASSUME TableInv, NEW l \in Lexers, lx_new(l) PROVE TableInv'
<1>1. /\ Counted("lx_new") /\ lx_kwt_setup /\ misused' = misused /\ parsers' = parsers
      /\ With(l, [cur |-> 0, toks |-> <<>>])
  BY DEF lx_new
<1>2. 0 \in 0 .. Len(Src[l]) /\ <<>> \in Seq({"keyword", "identifier"}) /\ Len(<<>>) = 0
  BY KeywordAssumption
<1>3. LexersFine'
  BY <1>1, <1>2, TableFacts, WithKeeps
<1> QED  BY <1>1, <1>3, TableFacts, NewKeeps

LEMMA TokenStep == ASSUME TableInv, NEW l \in Lexers, lx_next_token(l) PROVE TableInv'
<1> DEFINE word == Src[l][lexer[l].cur + 1]
           kind == IF lx_kwt_get(word) THEN "keyword" ELSE "identifier"
           read == Append(lexer[l].toks, kind)
           c == lexer[l].cur + 1
<1>1. /\ l \in DOMAIN lexer /\ lexer[l].cur < Len(Src[l])
      /\ With(l, [cur |-> c, toks |-> read])
      /\ misused' = (misused \/ (kwt # 0 /\ ~(Table(kwt) \subseteq rows)))
      /\ UNCHANGED <<kwt, rows, parsers, order>>
  BY DEF lx_next_token
<1>2. /\ lexer[l].cur \in Nat /\ lexer[l].toks \in Seq({"keyword", "identifier"})
      /\ Len(lexer[l].toks) = lexer[l].cur /\ Len(Src[l]) \in Nat
  BY <1>1, TableFacts, KeywordAssumption DEF LexersFine
<1>3. kind \in {"keyword", "identifier"}
  OBVIOUS
<1>4. read \in Seq({"keyword", "identifier"}) /\ Len(read) = c /\ c \in 0 .. Len(Src[l])
  <2> HIDE DEF kind
  <2> QED  BY <1>1, <1>2, <1>3
<1>5. LexersFine'
  <2> HIDE DEF read, c
  <2> QED  BY <1>1, <1>4, TableFacts, WithKeeps
<1>6. ~misused'
  BY <1>1, TableFacts
<1> QED  BY <1>1, <1>5, <1>6, TableFacts, ElsewhereKeeps

LEMMA ResetStep == ASSUME TableInv, NEW l \in Lexers, lx_reset(l) PROVE TableInv'
<1>1. /\ With(l, [cur |-> 0, toks |-> <<>>])
      /\ UNCHANGED <<kwt, rows, parsers, misused, order>>
  BY DEF lx_reset
<1>2. 0 \in 0 .. Len(Src[l]) /\ <<>> \in Seq({"keyword", "identifier"}) /\ Len(<<>>) = 0
  BY KeywordAssumption
<1>3. LexersFine'
  BY <1>1, <1>2, TableFacts, WithKeeps
<1> QED  BY <1>1, <1>3, TableFacts, ElsewhereKeeps

LEMMA FreeStep == ASSUME TableInv, NEW l \in Lexers, lx_free(l) PROVE TableInv'
<1>1. /\ Counted("lx_free") /\ lx_kwt_free /\ parsers' = parsers
      /\ lexer' = [m \in DOMAIN lexer \ {l} |-> lexer[m]]
  BY DEF lx_free
<1>2. LexersFine'
  BY <1>1, TableFacts DEF LexersFine
<1> QED  BY <1>1, <1>2, TableFacts, FreeKeeps

LEMMA ParserStep ==
  ASSUME TableInv, NEW p \in Parsers, ps_new(p) \/ ps_free(p) PROVE TableInv'
<1>1. LexersFine' /\ parsers' \subseteq Parsers
  BY TableFacts DEF ps_new, ps_free, LexersFine
<1>2. CASE ps_new(p)
  BY <1>1, <1>2, TableFacts, ElsewhereKeeps DEF ps_new
<1>3. CASE ps_free(p)
  BY <1>1, <1>3, FreeKeeps DEF ps_free
<1> QED  BY <1>2, <1>3

LEMMA TableStarts == TableInit => TableInv
<1> SUFFICES ASSUME TableInit PROVE TableInv
  OBVIOUS
<1>1. /\ kwt = 0 /\ rows = {} /\ lexer = <<>> /\ parsers = {} /\ misused = FALSE
      /\ order = <<>>
  BY DEF TableInit
<1>2. DOMAIN lexer = {} /\ Len(order) = 0 /\ order \in Seq({"lx_new", "lx_free"})
  BY <1>1
<1>3. TableTypeOK
  BY <1>1, <1>2 DEF TableTypeOK
<1>4. RowsAreAccountedFor
  <2>1. Tables = {}
    BY <1>2 DEF Tables
  <2> QED  BY <1>1, <2>1 DEF RowsAreAccountedFor
<1> QED  BY <1>1, <1>3, <1>4 DEF TableInv, RowsAreFreedOnce, PointerIsLast

LEMMA TableStep == TableInv /\ [TableNext]_tableVars => TableInv'
<1> SUFFICES ASSUME TableInv, [TableNext]_tableVars PROVE TableInv'
  OBVIOUS
<1>1. ASSUME NEW l \in Lexers, lx_new(l) \/ lx_next_token(l) \/ lx_reset(l) \/ lx_free(l)
      PROVE  TableInv'
  BY <1>1, NewStep, TokenStep, ResetStep, FreeStep
<1>2. ASSUME NEW p \in Parsers, ps_new(p) \/ ps_free(p) PROVE TableInv'
  BY <1>2, ParserStep
<1>3. CASE UNCHANGED tableVars
  BY <1>3 DEF tableVars, TableInv, TableTypeOK, RowsAreAccountedFor, RowsAreFreedOnce,
              PointerIsLast, Tables
<1> QED  BY <1>1, <1>2, <1>3 DEF TableNext

(* Whatever lexers and parsers share the table, and in whatever order they    *)
(* are freed, no row is freed twice or read when freed, and the rows left     *)
(* behind are those of the tables made over another.                          *)
THEOREM TableInvariant == TableSpec => []TableInv
BY TableStarts, TableStep, PTL DEF TableSpec

-----------------------------------------------------------------------------
(* Which words are missed.                                                   *)

LexersAreMade == DOMAIN lexer # {} => order # <<>>

LEMMA LexersAreMadeStep == TableInv /\ LexersAreMade /\ [TableNext]_tableVars => LexersAreMade'
<1> SUFFICES ASSUME TableInv, LexersAreMade, [TableNext]_tableVars PROVE LexersAreMade'
  OBVIOUS
<1>1. ASSUME NEW call \in {"lx_new", "lx_free"}, Counted(call) PROVE LexersAreMade'
  BY <1>1, CountedIs DEF LexersAreMade
<1>2. ASSUME NEW l \in Lexers, lx_next_token(l) \/ lx_reset(l) PROVE LexersAreMade'
  BY <1>2 DEF LexersAreMade, lx_next_token, lx_reset
<1>3. ASSUME UNCHANGED <<lexer, order>> PROVE LexersAreMade'
  BY <1>3 DEF LexersAreMade
<1> QED
  BY <1>1, <1>2, <1>3 DEF TableNext, tableVars, lx_new, lx_free, ps_new, ps_free

MissedStep ==
  \A l \in DOMAIN lexer \cap DOMAIN lexer' :
    Len(lexer'[l].toks) > Len(lexer[l].toks) =>
      LET word == Src[l][Len(lexer'[l].toks)]
      IN  lexer'[l].toks[Len(lexer'[l].toks)] = "identifier" <=>
            Lowered[word] \notin Reserved \/ order[Len(order)] = "lx_free"

(* A step that gives no lexer a token more.                                  *)
LEMMA NoTokenMore ==
  ASSUME TableInv,
         \A l \in DOMAIN lexer \cap DOMAIN lexer' :
           lexer'[l] = lexer[l] \/ lexer'[l].toks = <<>>
  PROVE  MissedStep
<1>1. ASSUME NEW l \in DOMAIN lexer \cap DOMAIN lexer'
      PROVE  ~ (Len(lexer'[l].toks) > Len(lexer[l].toks))
  <2>1. Len(lexer[l].toks) \in Nat
    BY TableFacts DEF LexersFine
  <2>2. lexer'[l] = lexer[l] \/ Len(lexer'[l].toks) = 0
    BY <1>1
  <2>3. \A n \in Nat : ~ (n > n) /\ ~ (0 > n)
    BY SMT
  <2> QED  BY <2>1, <2>2, <2>3
<1> QED  BY <1>1 DEF MissedStep

LEMMA WithIs ==
  ASSUME NEW l, NEW fields, With(l, fields)
  PROVE  /\ DOMAIN lexer' = DOMAIN lexer \cup {l} /\ lexer'[l] = fields
         /\ \A m \in DOMAIN lexer \ {l} : lexer'[m] = lexer[m]
BY DEF With

LEMMA TokenMisses ==
  ASSUME TableInv, LexersAreMade, NEW m \in Lexers, lx_next_token(m) PROVE MissedStep
<1> DEFINE word == Src[m][lexer[m].cur + 1]
           kind == IF lx_kwt_get(word) THEN "keyword" ELSE "identifier"
           read == Append(lexer[m].toks, kind)
           fields == [cur |-> lexer[m].cur + 1, toks |-> read]
<1>1. m \in DOMAIN lexer /\ With(m, fields)
  BY DEF lx_next_token
<1>2. /\ lexer[m].cur \in Nat /\ lexer[m].toks \in Seq({"keyword", "identifier"})
      /\ Len(lexer[m].toks) = lexer[m].cur
  BY <1>1, TableFacts DEF LexersFine
<1>3. kind = "identifier" <=> Lowered[word] \notin Reserved \/ order[Len(order)] = "lx_free"
  <2>1. kwt # 0 <=> Len(order) > 0 /\ order[Len(order)] = "lx_new"
    BY PointerIs
  <2>2. /\ order # <<>> /\ order \in Seq({"lx_new", "lx_free"})
    BY <1>1, PointerIs DEF LexersAreMade
  <2>3. Len(order) > 0 /\ order[Len(order)] \in {"lx_new", "lx_free"}
    BY <2>2
  <2>4. kwt # 0 <=> order[Len(order)] # "lx_free"
    BY <2>1, <2>3
  <2> HIDE DEF word
  <2> QED  BY <2>4 DEF lx_kwt_get
<1>4. Len(read) = lexer[m].cur + 1 /\ read[lexer[m].cur + 1] = kind
  <2>1. kind \in {"keyword", "identifier"}
    OBVIOUS
  <2> HIDE DEF kind
  <2> QED  BY <1>2, <2>1
<1>5. /\ lexer'[m] = fields /\ fields.toks = read
      /\ \A l \in DOMAIN lexer \ {m} : lexer'[l] = lexer[l]
  <2>1. fields.toks = read
    OBVIOUS
  <2> HIDE DEF fields
  <2> QED  BY <1>1, <2>1, WithIs
<1> SUFFICES ASSUME NEW l \in DOMAIN lexer \cap DOMAIN lexer',
                    Len(lexer'[l].toks) > Len(lexer[l].toks)
             PROVE  lexer'[l].toks[Len(lexer'[l].toks)] = "identifier" <=>
                      Lowered[Src[l][Len(lexer'[l].toks)]] \notin Reserved
                        \/ order[Len(order)] = "lx_free"
  BY DEF MissedStep
<1>6. l = m
  <2>1. CASE l # m
    <3>1. Len(lexer[l].toks) > Len(lexer[l].toks) /\ Len(lexer[l].toks) \in Nat
      BY <1>5, <2>1, TableFacts DEF LexersFine
    <3>2. \A n \in Nat : ~ (n > n)
      BY SMT
    <3> QED  BY <3>1, <3>2
  <2> QED  BY <2>1
<1>7. Len(lexer'[l].toks) = lexer[m].cur + 1
      /\ lexer'[l].toks[lexer[m].cur + 1] = kind
  <2> HIDE DEF read, fields, kind
  <2> QED  BY <1>4, <1>5, <1>6
<1> HIDE DEF kind
<1> QED  BY <1>3, <1>6, <1>7

LEMMA MissedHolds ==
  TableInv /\ LexersAreMade /\ [TableNext]_tableVars => MissedStep \/ UNCHANGED tableVars
<1> SUFFICES ASSUME TableInv, LexersAreMade, TableNext PROVE MissedStep
  OBVIOUS
<1>1. ASSUME NEW l \in Lexers, lx_new(l) PROVE MissedStep
  <2>1. l \notin DOMAIN lexer /\ With(l, [cur |-> 0, toks |-> <<>>])
    BY <1>1 DEF lx_new
  <2> QED  BY <2>1, NoTokenMore, WithIs
<1>2. ASSUME NEW l \in Lexers, lx_next_token(l) PROVE MissedStep
  BY <1>2, TokenMisses
<1>3. ASSUME NEW l \in Lexers, lx_reset(l) PROVE MissedStep
  <2> DEFINE fields == [cur |-> 0, toks |-> <<>>]
  <2>1. With(l, fields) /\ fields.toks = <<>>
    BY <1>3 DEF lx_reset
  <2> HIDE DEF fields
  <2>2. lexer'[l].toks = <<>> /\ \A m \in DOMAIN lexer \ {l} : lexer'[m] = lexer[m]
    BY <2>1, WithIs
  <2> QED  BY <2>2, NoTokenMore
<1>4. ASSUME NEW l \in Lexers, lx_free(l) PROVE MissedStep
  BY <1>4, NoTokenMore DEF lx_free
<1>5. ASSUME NEW p \in Parsers, ps_new(p) \/ ps_free(p) PROVE MissedStep
  BY <1>5, NoTokenMore DEF ps_new, ps_free
<1> QED  BY <1>1, <1>2, <1>3, <1>4, <1>5 DEF TableNext

(* A keyword is taken for an identifier exactly when the last call that made  *)
(* or freed a lexer, or freed a parser, freed one.                           *)
THEOREM KeywordsAreMissed == TableSpec => KeywordsAreMissedAfterFree
<1>1. TableInit => LexersAreMade
  BY DEF TableInit, LexersAreMade
<1>2. TableSpec => []LexersAreMade
  BY <1>1, TableInvariant, LexersAreMadeStep, PTL DEF TableSpec
<1> QED
  BY <1>2, TableInvariant, MissedHolds, PTL
  DEF TableSpec, KeywordsAreMissedAfterFree, MissedStep
=============================================================================
