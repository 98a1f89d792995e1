--------------------------- MODULE ProgramProofs ---------------------------
(***************************************************************************)
(* One run, for every text: proofs of the properties of ProgramProperties  *)
(* about memory, of that about what the lexer lets through, and of that    *)
(* about what is printed.  HeapInv is inductive once it is known that the  *)
(* tokens are a sequence, and needs of the lexer and the parser only how   *)
(* their steps change what main frees in the end.  AgreeInv needs of them  *)
(* where in a literal each begins to read: both take a backslash and what  *)
(* follows it at once.  MeantInv follows one text from the source to the   *)
(* token, from there to the node, and to what is shown.                    *)
(***************************************************************************)
EXTENDS ProgramProperties, ParserProofs

IsSequence(s) == \E S : s \in Seq(S)

LEMMA AppendedSequence ==
  ASSUME NEW s, IsSequence(s), NEW e
  PROVE  /\ IsSequence(Append(s, e))
         /\ Len(s) \in Nat /\ Len(Append(s, e)) = Len(s) + 1
         /\ \A k \in 1 .. Len(s) : Append(s, e)[k] = s[k]
         /\ Append(s, e)[Len(s) + 1] = e
<1>1. PICK S : s \in Seq(S)
  BY DEF IsSequence
<1>2. s \in Seq(S \cup {e})
  BY <1>1
<1>3. Append(s, e) \in Seq(S \cup {e})
  BY <1>2
<1> QED BY <1>2, <1>3 DEF IsSequence

(* What a step of the lexer does to the tokens: nothing, or one token more, *)
(* or none left, and then it has failed.                                    *)
LEMMA LexerStep ==
  ASSUME Lx!Next
  PROVE  /\ pc \notin Lx!Ended
         /\ \/ toks' = toks /\ pc' # "failed"
            \/ toks' = <<>> /\ pc' = "failed"
            \/ (\E t : toks' = Append(toks, t)) /\ pc' # "failed"
<1> USE DEF Lx!Ended, Lx!Goto, Lx!Emit, Lx!Fail, Lx!outVars, Lx!wordVars
<1>1. CASE Lx!Trim
  BY <1>1 DEF Lx!Trim, Lx!SkipBlank, Lx!EnterComment, Lx!EndTrim
<1>2. CASE Lx!Comment
  BY <1>2 DEF Lx!Comment, Lx!LineComment, Lx!BlockComment, Lx!EndBlockComment
<1>3. CASE Lx!Scan
  BY <1>3 DEF Lx!Scan, Lx!ScanEof, Lx!ScanNewline, Lx!ScanDouble, Lx!ScanSingle,
              Lx!BeginWord
<1>4. CASE Lx!ReadWord
  BY <1>4 DEF Lx!ReadWord, Lx!WordChar, Lx!UnterminatedLiteral, Lx!EndWord
<1>5. CASE Lx!Classify
  BY <1>5 DEF Lx!Classify, Lx!EmitWord, Lx!InvalidIdentifier, Lx!EmptyWord
<1> QED BY <1>1, <1>2, <1>3, <1>4, <1>5 DEF Lx!Next

(* What a step of the parser does to the string and the node it makes.      *)
LEMMA ParserStep ==
  ASSUME PsNext, at \notin Ended => expr.type = "none",
         at # "string" => ~as_valid(res)
  PROVE  /\ at \notin Ended \cup {"idle"}
         /\ at' \in {"string"} \cup Ended
         /\ at' \notin Ended => expr'.type = "none"
         /\ at' = "none" => expr'.type = "none"
         /\ at' # "string" => ~as_valid(res')
<1>1. ~as_valid(Invalid)
  BY DEF as_valid, Invalid
<1>2. CASE String
  BY <1>1, <1>2 DEF String, BeginString, PlainChar, EscapedChar,
    UnknownEscape, EndString, InString, Peek, Refuse, Return,
    Have, Ended
<1>3. CASE NoLiteral \/ NullLiteral \/ BoolLiteral
  BY <1>3 DEF NoLiteral, NullLiteral, BoolLiteral, Peek, Return,
    Have, Ended
<1>4. CASE CharLiteral
  BY <1>4 DEF CharLiteral, Peek, Refuse, Return, Have, Ended
<1>5. CASE NumberLiteral
  BY <1>5 DEF NumberLiteral, Peek, Refuse, Return, Have, Ended
<1> QED BY <1>2, <1>3, <1>4, <1>5 DEF PsNext
(* No block has two names.                                                  *)
Singles ==
  {Source, Unread, FileName, KeywordTable, Vector, Result, LiteralString}

LEMMA BlocksDiffer ==
  /\ Source # Unread /\ Source # FileName /\ Source # KeywordTable
  /\ Source # Vector /\ Source # Result /\ Source # LiteralString
  /\ Unread # FileName /\ Unread # KeywordTable /\ Unread # Vector
  /\ Unread # Result /\ Unread # LiteralString
  /\ FileName # KeywordTable /\ FileName # Vector /\ FileName # Result
  /\ FileName # LiteralString
  /\ KeywordTable # Vector /\ KeywordTable # Result
  /\ KeywordTable # LiteralString
  /\ Vector # Result /\ Vector # LiteralString /\ Result # LiteralString
BY DEF Source, Unread, FileName, KeywordTable, Vector, Result, LiteralString

LEMMA StringsDiffer ==
  /\ \A k \in Nat : StringOf(k) \in TokenStrings /\ StringOf(k)[2] = k
  /\ \A block \in TokenStrings :
       block[2] \in Nat /\ block = StringOf(block[2]) /\ block \notin Singles
<1>1. ASSUME NEW k \in Nat PROVE StringOf(k) \in TokenStrings /\ StringOf(k)[2] = k
  BY DEF StringOf, TokenStrings
<1>2. ASSUME NEW block \in TokenStrings
      PROVE  block[2] \in Nat /\ block = StringOf(block[2])
  BY DEF StringOf, TokenStrings
<1>3. ASSUME NEW k \in Nat PROVE StringOf(k) \notin Singles
  BY DEF StringOf, Singles, Source, Unread, FileName, KeywordTable, Vector,
         Result, LiteralString
<1> QED BY <1>1, <1>2, <1>3

LEMMA BlockSorts ==
  /\ Blocks = Singles \cup TokenStrings
  /\ \A k \in Nat : StringOf(k) \in Blocks /\ StringOf(k) \notin Singles
BY StringsDiffer DEF Blocks, Singles

-----------------------------------------------------------------------------

Inv == HeapInv /\ IsSequence(toks)

LEMMA InvInit == Init => Inv
<1> SUFFICES ASSUME Init PROVE Inv
  OBVIOUS
<1>1. toks = <<>> /\ IsSequence(<<>>) /\ Len(<<>>) = 0
  BY DEF Init, Lx!Init, IsSequence
<1>2. ~as_valid(Invalid)
  BY DEF as_valid, Invalid
<1>3. TypeOK /\ MemoryIsSound
  BY <1>1 DEF Init, TypeOK, MemoryIsSound, Stages
<1>5. MainsBlocksAreHeld
  BY DEF Init, MainsBlocksAreHeld, WithTokens, WithName
<1>6. TokenStringsAreHeld
  BY <1>1 DEF Init, TokenStringsAreHeld, WithTokens
<1>4. ParsersBlocksAreHeld
  BY <1>2 DEF Init, ParsersBlocksAreHeld, NoExpr, Literal, Ended
<1> QED BY <1>1, <1>3, <1>4, <1>5, <1>6 DEF Inv, HeapInv

LEMMA ReadStep ==
  ASSUME Inv, Read \/ ReadUnreadable \/ ReadNothing
  PROVE  Inv'
<1> USE BlocksDiffer, StringsDiffer, BlockSorts
<1>0. HeapInv /\ IsSequence(toks) /\ Len(toks) \in Nat
  BY AppendedSequence DEF Inv
<1>1. stage = "read" /\ toks' = toks /\ at' = at /\ next' = next
      /\ res' = res /\ expr' = expr /\ misused' = misused /\ pc' = pc
  BY DEF Read, ReadUnreadable, ReadNothing, lexVars, psVars, memVars
<1>2. TypeOK' /\ MemoryIsSound'
  BY <1>0, <1>1 DEF HeapInv, TypeOK, MemoryIsSound, Read, ReadUnreadable,
       ReadNothing, memVars, Stages, Stopped, Singles
<1>3. MainsBlocksAreHeld'
  BY <1>0, <1>1 DEF HeapInv, TypeOK, MainsBlocksAreHeld, Read, ReadUnreadable,
       ReadNothing, memVars, WithTokens, WithName
<1>4. ParsersBlocksAreHeld'
  BY <1>0, <1>1 DEF HeapInv, ParsersBlocksAreHeld, Read, ReadUnreadable,
       ReadNothing, memVars
<1>5. TokenStringsAreHeld'
  BY <1>0, <1>1 DEF HeapInv, TokenStringsAreHeld, Read, ReadUnreadable,
       ReadNothing, memVars, WithTokens, Singles
<1> QED BY <1>0, <1>1, <1>2, <1>3, <1>4, <1>5 DEF Inv, HeapInv

LEMMA TokenizeStep ==
  ASSUME Inv, Tokenize
  PROVE  Inv'
<1> USE BlocksDiffer, StringsDiffer, BlockSorts
<1>0. HeapInv /\ IsSequence(toks) /\ Len(toks) \in Nat
  BY AppendedSequence DEF Inv
<1>1. /\ stage = "lex" /\ next = 0 /\ Lx!Next
      /\ heap' = IF Len(toks') > Len(toks) THEN heap \cup Appended ELSE heap
      /\ stage' \in {"lex", "parse", "panic"}
      /\ at' = at /\ res' = res /\ expr' = expr
      /\ next' = next /\ kwt' = kwt /\ misused' = misused
  BY <1>0 DEF Tokenize, psVars, HeapInv, TokenStringsAreHeld, WithTokens
<1>2. /\ pc \notin Lx!Ended
      /\ \/ toks' = toks /\ pc' # "failed"
         \/ toks' = <<>> /\ pc' = "failed"
         \/ (\E t : toks' = Append(toks, t)) /\ pc' # "failed"
  BY <1>1, LexerStep
<1>3. CASE ~ \E t : toks' = Append(toks, t)
  <2>1. /\ toks' = toks \/ (Len(toks') = 0 /\ pc' = "failed")
        /\ heap' = heap /\ IsSequence(toks') /\ Len(toks') \in Nat
        /\ next' \in 0 .. Len(toks')
    <3>1. CASE toks' = toks
      BY <1>0, <1>1, <3>1 DEF HeapInv, TypeOK
    <3>2. CASE toks' = <<>> /\ pc' = "failed"
      <4>1. Len(toks') = 0 /\ IsSequence(toks')
        BY <3>2 DEF IsSequence
      <4> QED BY <1>0, <1>1, <3>2, <4>1
    <3> QED BY <1>2, <1>3, <3>1, <3>2
  <2>2. TypeOK' /\ MemoryIsSound'
    BY <1>0, <1>1, <2>1 DEF HeapInv, TypeOK, MemoryIsSound, Stages, Stopped
  <2>3. MainsBlocksAreHeld'
    BY <1>0, <1>1, <2>1 DEF HeapInv, MainsBlocksAreHeld, WithTokens, WithName
  <2>4. ParsersBlocksAreHeld'
    BY <1>0, <1>1, <2>1 DEF HeapInv, ParsersBlocksAreHeld, Ended
  <2>5. TokenStringsAreHeld'
    <3>1. /\ stage' \notin {"read", "lexer", "parser", "file name", "source", "exit"}
          /\ next' = 0 /\ next = 0 /\ pc # "failed"
      BY <1>1, <1>2 DEF Lx!Ended
    <3>2. CASE toks' = toks
      BY <1>0, <1>1, <2>1, <3>1, <3>2 DEF HeapInv, TokenStringsAreHeld, WithTokens
    <3>3. CASE Len(toks') = 0 /\ pc' = "failed"
      <4>0. next' = 0
        BY <3>1
      <4>1. next' + 1 = 1
        BY <4>0
      <4>2. \A k \in 1 .. 0 : FALSE
        OBVIOUS
      <4> QED BY <3>1, <3>3, <4>1, <4>2 DEF TokenStringsAreHeld
    <3> QED BY <2>1, <3>2, <3>3
  <2> QED BY <2>1, <2>2, <2>3, <2>4, <2>5 DEF Inv, HeapInv
<1>4. CASE \E t : toks' = Append(toks, t)
  <2>0. PICK t : toks' = Append(toks, t)
    BY <1>4
  <2>1. /\ IsSequence(toks') /\ Len(toks') = Len(toks) + 1
        /\ \A k \in 1 .. Len(toks) : toks'[k] = toks[k]
    BY <1>0, <2>0, AppendedSequence
  <2>2. MakesString(toks'[Len(toks')]) <=> HasString(toks'[Len(toks')])
    BY DEF MakesString, HasString, Lx!LiteralKinds
  <2>3. /\ heap \subseteq heap'
        /\ \A block \in heap' :
             \/ block \in heap \/ block = Vector
             \/ block = StringOf(Len(toks')) /\ HasString(toks'[Len(toks')])
        /\ HasString(toks'[Len(toks')]) => StringOf(Len(toks')) \in heap'
    BY <1>0, <1>1, <2>1, <2>2 DEF Appended
  <2>8. /\ StringOf(Len(toks')) \in Blocks \ Singles
        /\ Len(toks') \in Nat
    BY <1>0, <2>1
  <2>4. TypeOK' /\ MemoryIsSound'
    <3>1. heap' \subseteq Blocks
      BY <1>0, <2>3, <2>8 DEF HeapInv, TypeOK, Singles
    <3>2. next' \in 0 .. Len(toks')
      BY <1>1, <2>8
    <3>3. stage' \in Stages \cup Stopped
      BY <1>1 DEF Stages, Stopped
    <3> QED BY <1>0, <1>1, <3>1, <3>2, <3>3 DEF HeapInv, TypeOK, MemoryIsSound
  <2>5. MainsBlocksAreHeld'
    BY <1>0, <1>1, <2>3, <2>8 DEF HeapInv, MainsBlocksAreHeld, WithTokens, WithName,
         Singles
  <2>6. ParsersBlocksAreHeld'
    BY <1>0, <1>1, <2>3, <2>8 DEF HeapInv, ParsersBlocksAreHeld, Ended, Singles
  <2>7. TokenStringsAreHeld'
    <3>1. \A k \in 1 .. Len(toks') : HasString(toks'[k]) => StringOf(k) \in heap'
      <4> SUFFICES ASSUME NEW k \in 1 .. Len(toks'), HasString(toks'[k])
                   PROVE  StringOf(k) \in heap'
        OBVIOUS
      <4>1. CASE k = Len(toks')
        BY <4>1, <2>3
      <4>2. CASE k \in 1 .. Len(toks)
        <5>1. HasString(toks[k])
          BY <4>2, <2>1
        <5>2. StringOf(k) \in heap
          BY <1>0, <1>1, <4>2, <5>1 DEF HeapInv, TokenStringsAreHeld, WithTokens
        <5> QED BY <5>2, <2>3
      <4> QED BY <1>0, <2>1, <4>1, <4>2
    <3>2. ASSUME NEW block \in heap' \cap TokenStrings
          PROVE  block[2] \in 1 .. Len(toks') /\ HasString(toks'[block[2]])
      <4>1. CASE block \in heap
        <5>1. block[2] \in 1 .. Len(toks) /\ HasString(toks[block[2]])
          BY <1>0, <1>1, <1>2, <4>1 DEF HeapInv, TokenStringsAreHeld, Lx!Ended
        <5> QED BY <1>0, <2>1, <5>1
      <4>2. CASE block = StringOf(Len(toks')) /\ HasString(toks'[Len(toks')])
        <5>1. block[2] = Len(toks')
          BY <2>8, <4>2
        <5> QED BY <1>0, <2>1, <2>8, <4>2, <5>1
      <4> QED BY <2>3, <4>1, <4>2 DEF Singles
    <3>3. stage' \notin {"read", "lexer", "parser", "file name", "source", "exit"}
      BY <1>1
    <3>4. next' = 0
      BY <1>1
    <3>5. next' + 1 = 1
      BY <3>4
    <3> QED BY <3>1, <3>2, <3>3, <3>4, <3>5 DEF TokenStringsAreHeld
  <2> QED BY <2>1, <2>4, <2>5, <2>6, <2>7 DEF Inv, HeapInv
<1> QED BY <1>3, <1>4

LEMMA ParseStep ==
  ASSUME Inv, BeginParse \/ Parse
  PROVE  Inv'
<1> USE BlocksDiffer, StringsDiffer, BlockSorts
<1>0. HeapInv /\ IsSequence(toks) /\ Len(toks) \in Nat
  BY AppendedSequence DEF Inv
<1>1. stage = "parse" /\ toks' = toks /\ pc' = pc /\ next' = next /\ kwt' = kwt
      /\ misused' = misused
  BY DEF BeginParse, Parse, lexVars, memVars
<1>2. CASE BeginParse
  <2>1. /\ at = "idle" /\ at' = "peek" /\ stage' = stage /\ heap' = heap
        /\ res' = res /\ expr' = expr
    BY <1>2 DEF BeginParse, memVars
  <2>2. TypeOK' /\ MemoryIsSound' /\ MainsBlocksAreHeld' /\ TokenStringsAreHeld'
    BY <1>0, <1>1, <2>1 DEF HeapInv, TypeOK, MemoryIsSound, MainsBlocksAreHeld,
         TokenStringsAreHeld
  <2>3. ParsersBlocksAreHeld'
    BY <1>0, <1>1, <2>1 DEF HeapInv, ParsersBlocksAreHeld, Ended
  <2> QED BY <1>0, <1>1, <2>2, <2>3 DEF Inv, HeapInv
<1>3. CASE Parse
  <2>1. /\ at \notin Ended \cup {"idle"}
        /\ at' \in {"string"} \cup Ended
        /\ at' \notin Ended => expr'.type = "none"
        /\ at' = "none" => expr'.type = "none"
        /\ at' # "string" => ~as_valid(res')
    BY <1>0, <1>3, ParserStep DEF Parse, HeapInv, ParsersBlocksAreHeld
  <2>2. /\ heap' = (heap \ OwnedByParser(res, expr)) \cup OwnedByParser(res', expr')
        /\ at' = "have" => stage' = "print"
        /\ at' = "none" => stage' = "tokens"
        /\ at' = "string" => stage' = "parse"
    BY <1>3, <2>1 DEF Parse, Ended
  <2>3. /\ \A block \in Blocks \ {Result, LiteralString} :
             block \in heap' <=> block \in heap
        /\ Result \in heap' => as_valid(res')
        /\ LiteralString \in heap' <=> expr'.type = "string"
        /\ heap' \subseteq Blocks
    BY <1>0, <1>1, <2>2 DEF HeapInv, TypeOK, ParsersBlocksAreHeld, OwnedByParser,
         Singles
  <2>4. TypeOK' /\ MemoryIsSound'
    BY <1>0, <1>1, <2>1, <2>2, <2>3 DEF HeapInv, TypeOK, MemoryIsSound, Stages,
         Stopped, Ended
  <2>5. MainsBlocksAreHeld'
    BY <1>0, <1>1, <2>1, <2>2, <2>3 DEF HeapInv, MainsBlocksAreHeld, WithTokens,
         WithName, Ended, Singles
  <2>6. ParsersBlocksAreHeld'
    BY <1>0, <1>1, <2>1, <2>2, <2>3 DEF ParsersBlocksAreHeld, Ended
  <2>7. TokenStringsAreHeld'
    <3>1. next = 0
      BY <1>0, <1>1 DEF HeapInv, TokenStringsAreHeld, WithTokens
    <3>2. \A k \in Nat : StringOf(k) \in heap' <=> StringOf(k) \in heap
      BY <2>3 DEF Singles
    <3>3. heap' \cap TokenStrings = heap \cap TokenStrings
      BY <2>3 DEF Singles
    <3>4. stage' \notin {"read", "lexer", "parser", "file name", "source", "exit"}
      BY <2>1, <2>2 DEF Ended
    <3>5. \A k \in 1 .. Len(toks) : HasString(toks[k]) => StringOf(k) \in heap'
      BY <1>0, <1>1, <3>1, <3>2 DEF HeapInv, TokenStringsAreHeld, WithTokens
    <3>6. pc' # "failed" => \A block \in heap' \cap TokenStrings :
            block[2] \in 1 .. Len(toks') /\ HasString(toks'[block[2]])
      BY <1>0, <1>1, <3>1, <3>3 DEF HeapInv, TokenStringsAreHeld
    <3>7. next' = 0 /\ next' + 1 = 1 /\ toks' = toks
      BY <1>1, <3>1
    <3> QED BY <3>4, <3>5, <3>6, <3>7 DEF TokenStringsAreHeld
  <2> QED BY <1>0, <1>1, <2>4, <2>5, <2>6, <2>7 DEF Inv, HeapInv
<1> QED BY <1>2, <1>3

LEMMA PrintStep ==
  ASSUME Inv, PrintExpr \/ FreeExpr
  PROVE  Inv'
<1> USE BlocksDiffer, StringsDiffer, BlockSorts
<1>0. HeapInv /\ IsSequence(toks) /\ Len(toks) \in Nat
  BY AppendedSequence DEF Inv
<1>1. /\ stage \in {"print", "expr"} /\ stage' \in {"crash", "expr", "tokens"}
      /\ toks' = toks /\ pc' = pc /\ next' = next /\ kwt' = kwt /\ at' = at
      /\ res' = res /\ expr' = expr
  BY DEF PrintExpr, FreeExpr, lexVars, psVars
<1>2. expr.type = "string" => LiteralString \in heap
  BY <1>0, <1>1 DEF HeapInv, ParsersBlocksAreHeld
<1>3. /\ misused' = misused /\ heap' \subseteq heap
      /\ \A block \in heap \ {LiteralString} : block \in heap'
      /\ stage' = "expr" => heap' = heap
      /\ stage' = "tokens" => (LiteralString \in heap' => expr.type # "string")
  <2>1. CASE PrintExpr
    BY <1>0, <1>2, <2>1 DEF PrintExpr, HeapInv, MemoryIsSound
  <2>2. CASE FreeExpr
    BY <1>0, <1>2, <2>2 DEF FreeExpr, Free
  <2> QED BY <2>1, <2>2
<1>4. stage' = "crash" => expr.type = "char" /\ heap' = heap
  BY <1>1 DEF PrintExpr, FreeExpr, ReadsCharAsAddress
<1>5. TypeOK' /\ MemoryIsSound'
  <2>1. stage' \in Stages \cup Stopped
    BY <1>1 DEF Stages, Stopped
  <2> QED BY <1>0, <1>1, <1>3, <2>1 DEF HeapInv, TypeOK, MemoryIsSound
<1>6. MainsBlocksAreHeld'
  BY <1>0, <1>1, <1>3 DEF HeapInv, MainsBlocksAreHeld, WithTokens, WithName
<1>7. ParsersBlocksAreHeld'
  <2>1. /\ at # "string" /\ ~as_valid(res)
        /\ at \notin Ended => expr.type = "none"
        /\ Result \notin heap
        /\ LiteralString \in heap => expr.type = "string"
    BY <1>0, <1>1 DEF HeapInv, ParsersBlocksAreHeld
  <2>2. LiteralString \in heap' => stage' = "expr" /\ expr.type = "string"
    BY <1>1, <1>3, <1>4, <2>1
  <2>3. stage' = "expr" /\ expr.type = "string" => LiteralString \in heap'
    BY <1>2, <1>3
  <2>4. Result \notin heap'
    BY <1>3, <2>1
  <2>5. ~as_valid(res') /\ at' # "string"
    BY <1>1, <2>1
  <2>6. at' \notin Ended => expr'.type = "none"
    BY <1>1, <2>1
  <2>7. stage' \notin {"read", "lex", "parse", "print"} /\ expr'.type = expr.type
    BY <1>1
  <2>8. LiteralString \in heap' =>
          stage' \in {"print", "expr"} /\ expr'.type = "string"
    BY <2>2, <2>7
  <2>9. stage' \in {"print", "expr"} /\ expr'.type = "string" =>
          LiteralString \in heap'
    BY <2>3, <2>7
  <2>10. /\ stage' \in {"read", "lex"} => at' = "idle"
         /\ stage' = "parse" => at' \notin Ended
         /\ at' = "string" => stage' = "parse"
    BY <2>5, <2>7
  <2>11. /\ at' # "string" => ~as_valid(res')
         /\ Result \in heap' => as_valid(res')
    BY <2>4, <2>5
  <2> QED BY <2>6, <2>8, <2>9, <2>10, <2>11 DEF ParsersBlocksAreHeld
<1>8. TokenStringsAreHeld'
  <2>1. next = 0 /\ next + 1 = 1
    <3>1. stage \in {"read"} \cup (WithTokens \ {"tokens"})
      BY <1>1 DEF WithTokens
    <3>2. next = 0
      BY <1>0, <3>1 DEF HeapInv, TokenStringsAreHeld
    <3> QED BY <3>2
  <2>2. \A k \in 1 .. Len(toks) : HasString(toks[k]) => StringOf(k) \in heap'
    <3>1. \A k \in 1 .. Len(toks) : HasString(toks[k]) => StringOf(k) \in heap
      BY <1>0, <1>1, <2>1 DEF HeapInv, TokenStringsAreHeld, WithTokens
    <3> QED BY <1>0, <1>3, <3>1 DEF Singles
  <2>3. pc # "failed" => \A block \in heap' \cap TokenStrings :
          block[2] \in 1 .. Len(toks) /\ HasString(toks[block[2]])
    BY <1>0, <1>3, <2>1 DEF HeapInv, TokenStringsAreHeld
  <2>4. stage' \notin {"read", "lexer", "parser", "file name", "source", "exit"}
    BY <1>1
  <2>5. next' = 0 /\ next' + 1 = 1 /\ toks' = toks /\ pc' = pc
    BY <1>1, <2>1
  <2> QED BY <2>2, <2>3, <2>4, <2>5 DEF TokenStringsAreHeld
<1> QED BY <1>0, <1>1, <1>5, <1>6, <1>7, <1>8 DEF Inv, HeapInv

LEMMA FreeTokenStep ==
  ASSUME Inv, FreeToken
  PROVE  Inv'
<1> USE BlocksDiffer, StringsDiffer, BlockSorts
<1>0. HeapInv /\ IsSequence(toks) /\ Len(toks) \in Nat
  BY AppendedSequence DEF Inv
<1>1. /\ stage = "tokens" /\ stage' = stage /\ next < Len(toks) /\ next \in Nat
      /\ next' = next + 1
      /\ toks' = toks /\ pc' = pc /\ kwt' = kwt /\ at' = at /\ res' = res
      /\ expr' = expr
  BY <1>0 DEF FreeToken, lexVars, psVars, HeapInv, TypeOK
<1>2. /\ misused' = misused /\ heap' \subseteq heap
      /\ \A block \in heap : block # StringOf(next') => block \in heap'
      /\ StringOf(next') \in TokenStrings
      /\ HasString(toks[next']) => StringOf(next') \notin heap'
  <2>1. CASE HasString(toks[next'])
    <3>1. StringOf(next') \in heap
      BY <1>0, <1>1, <2>1 DEF HeapInv, TokenStringsAreHeld, WithTokens
    <3> QED BY <1>1, <2>1, <3>1 DEF FreeToken, Free
  <2>2. CASE ~HasString(toks[next'])
    BY <1>1, <2>2 DEF FreeToken
  <2> QED BY <2>1, <2>2
<1>3. \A block \in Singles : block \in heap' <=> block \in heap
  BY <1>1, <1>2
<1>4. TypeOK' /\ MemoryIsSound'
  BY <1>0, <1>1, <1>2 DEF HeapInv, TypeOK, MemoryIsSound
<1>5. MainsBlocksAreHeld'
  BY <1>0, <1>1, <1>3 DEF HeapInv, MainsBlocksAreHeld, Singles
<1>6. ParsersBlocksAreHeld'
  BY <1>0, <1>1, <1>3 DEF HeapInv, ParsersBlocksAreHeld, Singles
<1>7. TokenStringsAreHeld'
  <2>1. \A k \in next' + 1 .. Len(toks) : HasString(toks[k]) => StringOf(k) \in heap'
    <3> SUFFICES ASSUME NEW k \in next' + 1 .. Len(toks), HasString(toks[k])
                 PROVE  StringOf(k) \in heap'
      OBVIOUS
    <3>1. k \in next + 1 .. Len(toks) /\ k \in Nat /\ k # next'
      BY <1>0, <1>1
    <3>2. StringOf(k) \in heap
      BY <1>0, <1>1, <3>1 DEF HeapInv, TokenStringsAreHeld, WithTokens
    <3>3. StringOf(k) # StringOf(next')
      BY <1>1, <3>1
    <3> QED BY <1>2, <3>2, <3>3
  <2>2. pc # "failed" => \A block \in heap' \cap TokenStrings :
          block[2] \in next' + 1 .. Len(toks) /\ HasString(toks[block[2]])
    <3> SUFFICES ASSUME pc # "failed", NEW block \in heap' \cap TokenStrings
                 PROVE  block[2] \in next' + 1 .. Len(toks) /\ HasString(toks[block[2]])
      OBVIOUS
    <3>1. block[2] \in next + 1 .. Len(toks) /\ HasString(toks[block[2]])
      BY <1>0, <1>2 DEF HeapInv, TokenStringsAreHeld
    <3>2. block[2] # next'
      BY <1>2, <3>1
    <3> QED BY <1>0, <1>1, <3>1, <3>2
  <2> QED BY <1>1, <2>1, <2>2 DEF TokenStringsAreHeld, WithTokens
<1> QED BY <1>0, <1>1, <1>4, <1>5, <1>6, <1>7 DEF Inv, HeapInv

LEMMA FreeRestStep ==
  ASSUME Inv, FreeVector \/ FreeLexer \/ FreeFileName \/ FreeSource
  PROVE  Inv'
<1> USE BlocksDiffer, StringsDiffer, BlockSorts
<1>0. HeapInv /\ IsSequence(toks) /\ Len(toks) \in Nat
  BY AppendedSequence DEF Inv
<1>1. /\ toks' = toks /\ pc' = pc /\ next' = next /\ at' = at /\ res' = res
      /\ expr' = expr
  BY DEF FreeVector, FreeLexer, FreeFileName, FreeSource, FreeKeywords, lexVars,
         psVars
<1>2. /\ stage \in {"tokens", "lexer", "parser", "file name", "source"}
      /\ stage' \in {"lexer", "parser", "file name", "source", "exit"}
  BY DEF FreeVector, FreeLexer, FreeFileName, FreeSource
<1>3. /\ misused' = misused /\ heap' \subseteq heap
      /\ \A block \in heap :
           block \notin {Vector, KeywordTable, FileName, Source} => block \in heap'
      /\ kwt' \in {"NULL", "table"}
      /\ KeywordTable \in heap' <=> kwt' = "table"
      /\ stage' \in {"file name", "source", "exit"} => kwt' = "NULL"
      /\ stage' \in {"lexer", "parser", "file name"} =>
           (FileName \in heap' /\ Vector \notin heap')
      /\ stage' \in {"source", "exit"} =>
           (FileName \notin heap' /\ Vector \notin heap')
      /\ stage' = "exit" => Source \notin heap'
  <2>1. CASE FreeVector
    BY <1>0, <2>1 DEF FreeVector, Free, HeapInv, MainsBlocksAreHeld, TypeOK, WithName,
         WithTokens
  <2>2. CASE FreeLexer
    BY <1>0, <2>2 DEF FreeLexer, FreeKeywords, Free, HeapInv, MainsBlocksAreHeld,
         TypeOK, WithName, WithTokens
  <2>3. CASE FreeFileName
    BY <1>0, <2>3 DEF FreeFileName, Free, HeapInv, MainsBlocksAreHeld, TypeOK,
         WithName, WithTokens
  <2>4. CASE FreeSource
    BY <1>0, <2>4 DEF FreeSource, Free, HeapInv, MainsBlocksAreHeld, TypeOK, WithName,
         WithTokens
  <2> QED BY <2>1, <2>2, <2>3, <2>4
<1>4. TypeOK' /\ MemoryIsSound'
  <2>1. stage' \in Stages \cup Stopped
    BY <1>2 DEF Stages, Stopped
  <2> QED BY <1>0, <1>1, <1>3, <2>1 DEF HeapInv, TypeOK, MemoryIsSound
<1>5. MainsBlocksAreHeld'
  BY <1>2, <1>3 DEF MainsBlocksAreHeld, WithTokens, WithName
<1>6. ParsersBlocksAreHeld'
  <2>1. /\ at # "string" /\ ~as_valid(res)
        /\ at \notin Ended => expr.type = "none"
        /\ Result \notin heap /\ LiteralString \notin heap
    BY <1>0, <1>2 DEF HeapInv, ParsersBlocksAreHeld
  <2>2. Result \notin heap' /\ LiteralString \notin heap'
    BY <1>3, <2>1
  <2>3. ~as_valid(res') /\ at' # "string"
    BY <1>1, <2>1
  <2>4. at' \notin Ended => expr'.type = "none"
    BY <1>1, <2>1
  <2>5. stage' \notin {"read", "lex", "parse", "print", "expr"}
    BY <1>2
  <2> QED BY <2>2, <2>3, <2>4, <2>5 DEF ParsersBlocksAreHeld
<1>7. TokenStringsAreHeld'
  <2>1. next = Len(toks)
    BY <1>0 DEF FreeVector, FreeLexer, FreeFileName, FreeSource, HeapInv,
         TokenStringsAreHeld
  <2>2. pc # "failed" => \A block \in heap' \cap TokenStrings :
          block[2] \in next + 1 .. Len(toks) /\ HasString(toks[block[2]])
    BY <1>0, <1>3 DEF HeapInv, TokenStringsAreHeld
  <2>3. stage' \notin {"read"} \cup WithTokens
    BY <1>2 DEF WithTokens
  <2>4. next' = Len(toks') /\ toks' = toks /\ pc' = pc
    BY <1>1, <2>1
  <2>5. stage' \notin WithTokens /\ stage' # "read"
    BY <2>3
  <2>6. pc' # "failed" => \A block \in heap' \cap TokenStrings :
          block[2] \in next' + 1 .. Len(toks') /\ HasString(toks'[block[2]])
    BY <1>1, <2>2
  <2>7. stage' \notin {"read"} \cup (WithTokens \ {"tokens"})
    BY <2>5
  <2> QED BY <2>4, <2>5, <2>6, <2>7 DEF TokenStringsAreHeld
<1> QED BY <1>0, <1>1, <1>4, <1>5, <1>6, <1>7 DEF Inv, HeapInv

LEMMA InvStep == Inv /\ [Next]_vars => Inv'
<1>1. Inv /\ Next => Inv'
  BY ReadStep, TokenizeStep, ParseStep, PrintStep, FreeTokenStep, FreeRestStep
     DEF Next, FreeAll
<1>2. ASSUME Inv, UNCHANGED vars PROVE Inv'
  <2>1. /\ toks' = toks /\ pc' = pc /\ at' = at /\ res' = res /\ expr' = expr
        /\ stage' = stage /\ next' = next /\ kwt' = kwt /\ heap' = heap
        /\ misused' = misused
    BY <1>2 DEF vars, lexVars, psVars, memVars
  <2>2. TypeOK' /\ MemoryIsSound'
    BY <1>2, <2>1 DEF Inv, HeapInv, TypeOK, MemoryIsSound
  <2>3. MainsBlocksAreHeld'
    BY <1>2, <2>1 DEF Inv, HeapInv, MainsBlocksAreHeld
  <2>4. ParsersBlocksAreHeld'
    BY <1>2, <2>1 DEF Inv, HeapInv, ParsersBlocksAreHeld
  <2>5. TokenStringsAreHeld'
    BY <1>2, <2>1 DEF Inv, HeapInv, TokenStringsAreHeld
  <2> QED BY <1>2, <2>1, <2>2, <2>3, <2>4, <2>5 DEF Inv, HeapInv
<1> QED BY <1>1, <1>2

(* At every line of main the blocks on the heap are those of the strings, the *)
(* vector, the table and the node that the code still holds.                  *)
THEOREM HeapInvariant == Spec => []Inv
BY InvInit, InvStep, PTL DEF Spec

(* In no run of cimi, on no text, is a block freed twice or read after it   *)
(* was freed: the keyword table with its two owners is freed once.          *)
THEOREM MemorySafe == Spec => []MemoryIsSound
<1>1. Inv => MemoryIsSound
  BY DEF Inv, HeapInv
<1> QED BY <1>1, HeapInvariant, PTL

(* Every run that main brings to its end gives back all its memory, but for *)
(* a source that was not read to its end and, if the lexer has failed, the  *)
(* strings of the tokens before the error.                                  *)
THEOREM MemoryReturned == Spec => []OnlyErrorsLeak
<1>1. Inv => OnlyErrorsLeak
  <2> SUFFICES ASSUME Inv, stage = "exit", NEW block \in heap
               PROVE  block = Unread \/ (pc = "failed" /\ block \in TokenStrings)
    BY DEF OnlyErrorsLeak
  <2>1. block \in Singles \cup TokenStrings
    BY BlockSorts DEF Inv, HeapInv, TypeOK
  <2>2. block \in Singles => block = Unread
    BY BlocksDiffer DEF Singles, Inv, HeapInv, MainsBlocksAreHeld,
       ParsersBlocksAreHeld, WithTokens, WithName
  <2>3. block \in TokenStrings => pc = "failed"
    <3>1. next = Len(toks) /\ Len(toks) \in Nat
      BY AppendedSequence DEF Inv, HeapInv, TokenStringsAreHeld
    <3> QED BY <3>1 DEF Inv, HeapInv, TokenStringsAreHeld
  <2> QED BY <2>1, <2>2, <2>3
<1> QED BY <1>1, HeapInvariant, PTL

-----------------------------------------------------------------------------
(* What the lexer promises of a literal, for the parser.                    *)

(* The offsets M up to n at which a reader begins, who starts at the first    *)
(* character and takes an escape together with the next one, where E are the *)
(* backslashes (k is in E if the character at offset k is one).  The offset n *)
(* is one of them: no escape is open there.                                 *)
Marks(M, E, n) ==
  /\ n \in Nat /\ M \subseteq 0 .. n /\ 0 \in M /\ n \in M
  /\ \A k \in 0 .. n - 1 : k + 1 \in M <=> ~(k \in M /\ k \in E)

Escapes(t) == {k \in 0 .. Len(t) - 1 : t[k + 1] = "bs"}
NoOpenEscape(t) == \E M : Marks(M, Escapes(t), Len(t))

IsNumeric(t) ==
  /\ t \in Seq(Lx!Digits \cup {"."}) /\ t # <<>> /\ t # <<".">>
  /\ \A k, l \in 1 .. Len(t) : t[k] = "." /\ t[l] = "." => k = l

Sound(t) ==
  /\ t.kind = "LITERAL_STRING" => NoOpenEscape(t.text)
  /\ t.kind = "LITERAL_NUMBER" => IsNumeric(t.text)

(* The backslashes of the text behind an opening quote at b.                 *)
CharAt(s, k) == IF k < Len(s) THEN s[k + 1] ELSE "nul"
EscapesFrom(s, b) == {k \in Nat : CharAt(s, b + 1 + k) = "bs"}

(* The word that is being read, or has been.                                *)
WordIsOpen ==
  /\ cur \in Nat /\ begin \in Nat /\ len \in Nat
  /\ pc \in {"word", "classify"} /\ delim = "none" =>
       CharAt(src, begin) \notin {"dq", "sq", "nul"}
  /\ pc = "word" /\ delim # "none" =>
       /\ cur = begin + len /\ len >= 1
       /\ \E M : Marks(M, EscapesFrom(src, begin), len - 1)
  /\ pc = "classify" /\ delim # "none" =>
       /\ len >= 2 /\ begin + len <= Len(src)
       /\ \E M : Marks(M, EscapesFrom(src, begin), len - 2)

LEMMA AtIs == \A k : Lx!At(k) = CharAt(src, k)
BY DEF Lx!At, Lx!Size, Lx!NUL, CharAt

(* A character that is no escape, or an escape and the next character.       *)
LEMMA MarksGrow ==
  ASSUME NEW M, NEW E, NEW n, Marks(M, E, n)
  PROVE  /\ n \notin E => Marks(M \cup {n + 1}, E, n + 1)
         /\ n \in E => Marks(M \cup {n + 2}, E, n + 2)
<1>1. n \in Nat /\ M \subseteq 0 .. n /\ 0 \in M /\ n \in M
      /\ \A k \in 0 .. n - 1 : k + 1 \in M <=> ~(k \in M /\ k \in E)
  BY DEF Marks
<1>2. ASSUME n \notin E PROVE Marks(M \cup {n + 1}, E, n + 1)
  <2> DEFINE N == M \cup {n + 1}
  <2>1. n + 1 \in Nat /\ N \subseteq 0 .. n + 1 /\ 0 \in N /\ n + 1 \in N
    BY <1>1
  <2>2. ASSUME NEW k \in 0 .. (n + 1) - 1 PROVE k + 1 \in N <=> ~(k \in N /\ k \in E)
    <3>1. k \in 0 .. n - 1 \/ k = n
      BY <1>1
    <3>2. k \in N <=> k \in M
      BY <1>1
    <3>3. k \in 0 .. n - 1 => (k + 1 \in N <=> k + 1 \in M)
      BY <1>1
    <3> QED BY <1>1, <1>2, <3>1, <3>2, <3>3
  <2> QED BY <2>1, <2>2 DEF Marks
<1>3. ASSUME n \in E PROVE Marks(M \cup {n + 2}, E, n + 2)
  <2> DEFINE N == M \cup {n + 2}
  <2>1. n + 2 \in Nat /\ N \subseteq 0 .. n + 2 /\ 0 \in N /\ n + 2 \in N
    BY <1>1
  <2>2. ASSUME NEW k \in 0 .. (n + 2) - 1 PROVE k + 1 \in N <=> ~(k \in N /\ k \in E)
    <3>1. k \in 0 .. n - 1 \/ k = n \/ k = n + 1
      BY <1>1
    <3>2. (k \in N <=> k \in M) /\ n + 1 \notin M /\ n + 1 \notin N
      BY <1>1
    <3>3. k \in 0 .. n - 1 => (k + 1 \in N <=> k + 1 \in M)
      BY <1>1
    <3>4. k = n + 1 => k + 1 \in N
      BY <1>1
    <3> QED BY <1>1, <1>3, <3>1, <3>2, <3>3, <3>4
  <2> QED BY <2>1, <2>2 DEF Marks
<1> QED BY <1>2, <1>3

(* The text keeps no character behind a NUL, and so no escape.               *)
LEMMA MarksOfText ==
  ASSUME NEW M, NEW E, NEW t, NEW n, Marks(M, E, n), Len(t) = n,
         \A k, l \in 1 .. n : k <= l /\ t[k] = "nul" => t[l] = "nul",
         \A k \in 0 .. n - 1 : t[k + 1] # "nul" => (t[k + 1] = "bs" <=> k \in E)
  PROVE  NoOpenEscape(t)
<1> DEFINE Cut(k) == \E j \in 1 .. k : t[j] = "nul"
           N == {k \in 0 .. n : k \in M \/ Cut(k)}
<1>1. n \in Nat /\ M \subseteq 0 .. n /\ 0 \in M /\ n \in M
      /\ \A k \in 0 .. n - 1 : k + 1 \in M <=> ~(k \in M /\ k \in E)
  BY DEF Marks
<1>2. N \subseteq 0 .. n /\ 0 \in N /\ n \in N
  BY <1>1
<1>3. ASSUME NEW k \in 0 .. n - 1
      PROVE  k + 1 \in N <=> ~(k \in N /\ k \in Escapes(t))
  <2>1. k \in Nat /\ k + 1 \in 1 .. n /\ k + 1 \in 0 .. n /\ k \in 0 .. n
    BY <1>1
  <2>2. k \in Escapes(t) <=> t[k + 1] = "bs"
    BY DEF Escapes
  <2>3. CASE Cut(k + 1)
    <3>1. PICK j \in 1 .. k + 1 : t[j] = "nul"
      BY <2>3
    <3>2. j \in 1 .. n /\ j <= k + 1
      BY <1>1, <2>1
    <3>3. t[k + 1] = "nul"
      BY <2>1, <3>1, <3>2
    <3> QED BY <2>1, <2>2, <2>3, <3>3
  <2>4. CASE ~Cut(k + 1)
    <3>1. t[k + 1] # "nul" /\ ~Cut(k)
      BY <2>1, <2>4
    <3>2. (k + 1 \in N <=> k + 1 \in M) /\ (k \in N <=> k \in M)
      BY <2>1, <2>4, <3>1
    <3> QED BY <1>1, <2>2, <3>1, <3>2
  <2> QED BY <2>3, <2>4
<1> HIDE DEF N
<1>4. Marks(N, Escapes(t), n)
  BY <1>1, <1>2, <1>3 DEF Marks
<1> QED BY <1>4 DEF NoOpenEscape

(* as_ncopy_cstr gives the word, cut at its first NUL.                       *)
LEMMA WordIs ==
  ASSUME len \in Nat, begin \in Nat
  PROVE  LET w == Lx!Word
         IN  /\ IsSequence(w) /\ Len(w) = len /\ DOMAIN w = 1 .. len
             /\ \A k \in 1 .. len :
                  /\ w[k] # "nul" => w[k] = CharAt(src, begin + k - 1)
                  /\ CharAt(src, begin + k - 1) = "nul" => w[k] = "nul"
                  /\ w[k] = "nul" =>
                       \E j \in 1 .. k : CharAt(src, begin + j - 1) = "nul"
             /\ \A k, l \in 1 .. len : k <= l /\ w[k] = "nul" => w[l] = "nul"
             /\ len > 0 => w[1] = CharAt(src, begin)
<1> DEFINE w == Lx!Word
           Cut(k) == \E j \in begin .. begin + k - 1 : CharAt(src, j) = "nul"
           f == [k \in 1 .. len |-> IF Cut(k) THEN "nul" ELSE CharAt(src, begin + k - 1)]
           S == {f[k] : k \in 1 .. len}
<1>1. w = f
  BY AtIs DEF Lx!Word, Lx!NUL
<1>2. f \in [1 .. len -> S]
  OBVIOUS
<1>3. f \in Seq(S) /\ Len(f) = len
  <2> HIDE DEF f, S
  <2> QED BY <1>2
<1>4. ASSUME NEW k \in 1 .. len
      PROVE  /\ f[k] # "nul" => f[k] = CharAt(src, begin + k - 1)
             /\ CharAt(src, begin + k - 1) = "nul" => f[k] = "nul"
             /\ f[k] = "nul" <=> Cut(k)
  <2>1. begin + k - 1 \in begin .. begin + k - 1
    OBVIOUS
  <2> QED BY <2>1
<1>5. ASSUME NEW k \in 1 .. len, NEW l \in 1 .. len, k <= l, Cut(k) PROVE Cut(l)
  <2>1. \A j \in begin .. begin + k - 1 : j \in begin .. begin + l - 1
    BY <1>5
  <2> QED BY <1>5, <2>1
<1>6. len > 0 => f[1] = CharAt(src, begin)
  <2>1. begin .. begin + 1 - 1 = {begin} /\ begin + 1 - 1 = begin /\ (len > 0 => 1 \in 1 .. len)
    OBVIOUS
  <2> QED BY <2>1
<1>7. ASSUME NEW k \in 1 .. len, Cut(k)
      PROVE  \E j \in 1 .. k : CharAt(src, begin + j - 1) = "nul"
  <2>1. PICK j \in begin .. begin + k - 1 : CharAt(src, j) = "nul"
    BY <1>7
  <2>2. (j - begin) + 1 \in 1 .. k /\ begin + ((j - begin) + 1) - 1 = j
    OBVIOUS
  <2> QED BY <2>1, <2>2
<1> HIDE DEF f, S, Cut
<1>8. ASSUME NEW k \in 1 .. len, f[k] = "nul"
      PROVE  \E j \in 1 .. k : CharAt(src, begin + j - 1) = "nul"
  BY <1>4, <1>7, <1>8
<1> QED BY <1>1, <1>2, <1>3, <1>4, <1>5, <1>6, <1>8 DEF IsSequence

LEMMA StringWordIsSound ==
  ASSUME WordIsOpen, pc = "classify", len > 0, Lx!WordKind(Lx!Word) = "LITERAL_STRING"
  PROVE  NoOpenEscape(Lx!WordText(Lx!Word))
<1> DEFINE w == Lx!Word  t == SubSeq(w, 2, len - 1)  E == EscapesFrom(src, begin)
<1>1. len \in Nat /\ begin \in Nat /\ 1 \in 1 .. len /\ begin + 1 - 1 = begin
  BY DEF WordIsOpen
<1>2. w[1] \in {"dq", "nul"}
  BY DEF Lx!WordKind, Lx!StrChr, Lx!NUL
<1>3. /\ IsSequence(w) /\ Len(w) = len /\ w[1] = CharAt(src, begin)
      /\ \A k \in 1 .. len :
           /\ w[k] # "nul" => w[k] = CharAt(src, begin + k - 1)
           /\ CharAt(src, begin + k - 1) = "nul" => w[k] = "nul"
      /\ \A k, l \in 1 .. len : k <= l /\ w[k] = "nul" => w[l] = "nul"
  BY <1>1, WordIs
<1>4. Lx!WordText(w) = t
  BY <1>3 DEF Lx!WordText, Lx!LiteralKinds
<1> HIDE DEF w
<1>5. PICK S : w \in Seq(S)
  BY <1>3 DEF IsSequence
<1>6. CASE delim = "none"
  <2>1. CharAt(src, begin) \notin {"dq", "sq", "nul"}
    BY <1>6 DEF WordIsOpen
  <2> QED BY <1>2, <1>3, <2>1
<1>7. CASE delim # "none"
  <2>1. len >= 2
    BY <1>7 DEF WordIsOpen
  <2>2. PICK M : Marks(M, E, len - 2)
    BY <1>7 DEF WordIsOpen
  <2>3. Len(t) = len - 2 /\ \A k \in 1 .. len - 2 : t[k] = w[k + 1]
    BY <1>1, <1>3, <1>5, <2>1, SubSeqProperties
  <2> HIDE DEF t
  <2>4. ASSUME NEW k \in 1 .. len - 2, NEW l \in 1 .. len - 2, k <= l, t[k] = "nul"
        PROVE  t[l] = "nul"
    <3>1. k + 1 \in 1 .. len /\ l + 1 \in 1 .. len /\ k + 1 <= l + 1
      BY <1>1, <2>4
    <3> QED BY <1>3, <2>3, <2>4, <3>1
  <2>5. ASSUME NEW k \in 0 .. (len - 2) - 1, t[k + 1] # "nul"
        PROVE  t[k + 1] = "bs" <=> k \in E
    <3>1. k + 1 \in 1 .. len - 2 /\ k + 2 \in 1 .. len /\ k \in Nat
          /\ begin + (k + 2) - 1 = begin + 1 + k /\ (k + 1) + 1 = k + 2
      BY <1>1, <2>1
    <3>2. t[k + 1] = CharAt(src, begin + 1 + k)
      BY <1>3, <2>3, <2>5, <3>1
    <3> QED BY <3>1, <3>2 DEF EscapesFrom
  <2> HIDE DEF E
  <2>6. NoOpenEscape(t)
    BY <2>2, <2>3, <2>4, <2>5, MarksOfText
  <2> QED BY <1>4, <2>6 DEF w
<1> QED BY <1>6, <1>7

LEMMA NumberWordIsSound ==
  ASSUME WordIsOpen, len > 0, Lx!WordKind(Lx!Word) = "LITERAL_NUMBER"
  PROVE  IsNumeric(Lx!WordText(Lx!Word))
<1> DEFINE w == Lx!Word
<1>1. IsSequence(w) /\ Len(w) = len /\ DOMAIN w = 1 .. len /\ len \in Nat
  BY WordIs DEF WordIsOpen
<1>2. Lx!IsNumber(w)
  BY DEF Lx!WordKind
<1>3. Lx!WordText(w) = w
  BY DEF Lx!WordText, Lx!LiteralKinds
<1> HIDE DEF w
<1>4. /\ w # <<".">>
      /\ \A k \in 1 .. len : w[k] \in Lx!Digits \cup {"."}
      /\ \A k, l \in 1 .. len : w[k] = "." /\ w[l] = "." => k = l
  BY <1>1, <1>2 DEF Lx!IsNumber
<1>5. w \in Seq(Lx!Digits \cup {"."})
  <2>1. PICK S : w \in Seq(S)
    BY <1>1 DEF IsSequence
  <2>2. w \in [1 .. len -> Lx!Digits \cup {"."}]
    BY <1>1, <1>4, <2>1
  <2> HIDE DEF Lx!Digits
  <2> QED BY <1>1, <2>2
<1>6. w # <<>>
  BY <1>1
<1>7. IsNumeric(w)
  BY <1>1, <1>4, <1>5, <1>6 DEF IsNumeric
<1> QED BY <1>3, <1>7 DEF w

(* The kinds of token of which the text counts, or of which the parser knows. *)
TextKinds == {"LITERAL_STRING", "LITERAL_NUMBER", "LITERAL_BOOLEAN", "NULL"}

LEMMA SymbolsAreSound ==
  /\ \A d \in Lx!DoubleSymbols : d[3] \notin TextKinds
  /\ \A s \in Lx!SingleSymbols : s[2] \notin TextKinds
BY DEF Lx!DoubleSymbols, Lx!SingleSymbols, TextKinds

(* One more character of the word, or two, or its delimiter.                 *)
LEMMA WordStaysOpen ==
  ASSUME WordIsOpen, src \in Seq(Lx!SourceChar), Lx!BeginWord \/ Lx!WordChar \/ Lx!EndWord
  PROVE  WordIsOpen'
<1> USE DEF Lx!Goto, Lx!outVars, Lx!wordVars
<1>1. /\ cur \in Nat /\ begin \in Nat /\ len \in Nat /\ src' = src
      /\ CharAt(src, cur) = Lx!At(cur)
  BY AtIs DEF WordIsOpen, Lx!BeginWord, Lx!WordChar, Lx!EndWord
<1>2. CASE Lx!BeginWord
  <2>1. pc' = "word" /\ begin' = cur
    BY <1>2 DEF Lx!BeginWord
  <2>2. CASE Lx!StrChr(Lx!Quotes, Lx!At(cur))
    <3>1. delim' # "none" /\ cur' = cur + 1 /\ len' = 1
      BY <1>2, <2>2 DEF Lx!BeginWord, Lx!StrChr, Lx!Quotes, Lx!NUL
    <3>2. Marks({0}, EscapesFrom(src', begin'), len' - 1)
      BY <3>1 DEF Marks
    <3>3. cur' \in Nat /\ begin' \in Nat /\ len' \in Nat /\ cur' = begin' + len' /\ len' >= 1
      BY <1>1, <2>1, <3>1
    <3> QED BY <2>1, <3>1, <3>2, <3>3 DEF WordIsOpen
  <2>3. CASE ~Lx!StrChr(Lx!Quotes, Lx!At(cur))
    <3>1. delim' = "none" /\ cur' = cur /\ len' = 0
      BY <1>2, <2>3 DEF Lx!BeginWord, Lx!Undelimited
    <3>2. CharAt(src', begin') \notin {"dq", "sq", "nul"}
      BY <1>1, <2>1, <2>3 DEF Lx!StrChr, Lx!Quotes, Lx!NUL
    <3> QED BY <1>1, <2>1, <3>1, <3>2 DEF WordIsOpen
  <2> QED BY <2>2, <2>3
<1>3. CASE Lx!WordChar
  <2>1. /\ pc = "word" /\ pc' = "word" /\ begin' = begin /\ delim' = delim
        /\ CharAt(src, cur) = "bs" => cur' = cur + 2 /\ len' = len + 2
        /\ CharAt(src, cur) # "bs" => cur' = cur + 1 /\ len' = len + 1
    BY <1>1, <1>3 DEF Lx!WordChar, Lx!Backslash
  <2>2. cur' \in Nat /\ len' \in Nat
    BY <1>1, <2>1
  <2>3. CASE delim = "none"
    BY <1>1, <2>1, <2>2, <2>3 DEF WordIsOpen
  <2>4. CASE delim # "none"
    <3> DEFINE E == EscapesFrom(src, begin)
    <3>1. cur = begin + len /\ len >= 1
      BY <2>1, <2>4 DEF WordIsOpen
    <3>2. PICK M : Marks(M, E, len - 1)
      BY <2>1, <2>4 DEF WordIsOpen
    <3>3. len - 1 \in E <=> CharAt(src, cur) = "bs"
      <4>1. len - 1 \in Nat /\ begin + 1 + (len - 1) = cur
        BY <1>1, <3>1
      <4> QED BY <4>1 DEF EscapesFrom
    <3>4. (len - 1) + 1 = (len + 1) - 1 /\ (len - 1) + 2 = (len + 2) - 1
      BY <1>1
    <3>5. cur' = begin' + len' /\ len' >= 1
      BY <1>1, <2>1, <3>1
    <3> HIDE DEF E
    <3>6. \E N : Marks(N, E, len' - 1)
      BY <2>1, <3>2, <3>3, <3>4, MarksGrow
    <3>7. E = EscapesFrom(src', begin')
      BY <1>1, <2>1 DEF E
    <3> QED BY <1>1, <2>1, <2>2, <2>4, <3>5, <3>6, <3>7 DEF WordIsOpen
  <2> QED BY <2>3, <2>4
<1>4. CASE Lx!EndWord
  <2>1. pc = "word" /\ pc' = "classify" /\ begin' = begin /\ delim' = delim
    BY <1>4 DEF Lx!EndWord
  <2>2. CASE delim = "none"
    BY <1>1, <1>4, <2>1, <2>2 DEF WordIsOpen, Lx!EndWord, Lx!Delimited, Lx!Undelimited
  <2>3. CASE delim # "none"
    <3>1. cur' = cur + 1 /\ len' = len + 1 /\ cur < Len(src)
      BY <1>4, <2>3 DEF Lx!EndWord, Lx!Delimited, Lx!Undelimited, Lx!InBounds, Lx!Size
    <3>2. /\ len >= 1 /\ cur = begin + len
          /\ \E M : Marks(M, EscapesFrom(src, begin), len - 1)
      BY <2>1, <2>3 DEF WordIsOpen
    <3>3. len' - 2 = len - 1 /\ len' >= 2 /\ cur' \in Nat /\ len' \in Nat
      BY <1>1, <3>1, <3>2
    <3>4. begin' + len' <= Len(src')
      <4>1. src \in Seq(Lx!SourceChar)
        OBVIOUS
      <4> QED BY <1>1, <2>1, <3>1, <3>2, <4>1
    <3> QED BY <1>1, <2>1, <2>3, <3>2, <3>3, <3>4 DEF WordIsOpen
  <2> QED BY <2>2, <2>3
<1> QED BY <1>2, <1>3, <1>4

-----------------------------------------------------------------------------
(* What the lexer keeps of the text of a token.                             *)

(* A text as stpncpy copies it: from the first NUL on there are NULs only.   *)
CutFrom(t, s) ==
  /\ Len(t) = Len(s)
  /\ \A k \in 1 .. Len(s) : t[k] # "nul" => t[k] = s[k]
  /\ \A k \in 1 .. Len(s) : t[k] = "nul" <=> \E j \in 1 .. k : s[j] = "nul"

SpanText(sp) == SubSeq(src, sp.from + 1, sp.to)
InnerText(sp) == SubSeq(src, sp.from + 2, sp.to - 1)

IsOfText(t, sp) ==
  /\ Fit(t) /\ t.kind # "NULL"
  /\ t.kind = "LITERAL_BOOLEAN" => t.text = SpanText(sp) /\ t.text \in Lx!BoolWords
  /\ t.kind = "LITERAL_STRING" /\ SpanText(sp)[1] = "dq" =>
       /\ InnerText(sp) \in Seq(Lx!SourceChar)
       /\ CutFrom(t.text, InnerText(sp))

LEMMA CharAtIs ==
  ASSUME src \in Seq(Lx!SourceChar), NEW k \in Nat
  PROVE  /\ CharAt(src, k) \in Lx!SourceChar
         /\ CharAt(src, k) # "nul" => k + 1 \in 1 .. Len(src)
         /\ k + 1 \in 1 .. Len(src) => CharAt(src, k) = src[k + 1]
<1>1. "nul" \in Lx!SourceChar
  BY DEF Lx!SourceChar, Lx!Named, Lx!NUL
<1>2. CASE k < Len(src)
  <2>1. k + 1 \in 1 .. Len(src)
    BY <1>2
  <2>2. src[k + 1] \in Lx!SourceChar
    BY <2>1
  <2> QED BY <1>2, <2>1, <2>2 DEF CharAt
<1>3. CASE ~(k < Len(src))
  <2>1. k + 1 \notin 1 .. Len(src)
    BY <1>3
  <2> QED BY <1>1, <1>3, <2>1 DEF CharAt
<1> QED BY <1>2, <1>3

LEMMA WordIsText ==
  ASSUME WordIsOpen, src \in Seq(Lx!SourceChar) PROVE Lx!Word \in Seq(Lx!SourceChar)
<1> DEFINE w == Lx!Word
<1>1. /\ len \in Nat /\ begin \in Nat /\ IsSequence(w) /\ Len(w) = len
      /\ \A k \in 1 .. len : w[k] # "nul" => w[k] = CharAt(src, begin + k - 1)
  BY WordIs DEF WordIsOpen
<1> HIDE DEF w
<1>2. PICK S : w \in Seq(S)
  BY <1>1 DEF IsSequence
<1>3. "nul" \in Lx!SourceChar
  BY DEF Lx!SourceChar, Lx!Named, Lx!NUL
<1>4. ASSUME NEW k \in 1 .. len PROVE w[k] \in Lx!SourceChar
  <2>1. begin + k - 1 \in Nat
    BY <1>1
  <2> QED BY <1>1, <1>3, <2>1, CharAtIs
<1>5. w \in [1 .. len -> Lx!SourceChar]
  <2>1. w = [k \in 1 .. len |-> w[k]]
    BY <1>1, <1>2
  <2> QED BY <1>4, <2>1
<1> QED BY <1>1, <1>5, SeqDef DEF w

LEMMA LiteralIsDelimited ==
  ASSUME WordIsOpen, pc = "classify", len > 0, Lx!WordKind(Lx!Word) \in Lx!LiteralKinds
  PROVE  delim # "none" /\ len >= 2 /\ begin + len <= Len(src)
<1>1. Lx!Word[1] \in {"dq", "sq", "nul"}
  BY DEF Lx!WordKind, Lx!StrChr, Lx!NUL, Lx!LiteralKinds
<1>2. Lx!Word[1] = CharAt(src, begin)
  BY WordIs DEF WordIsOpen
<1>3. delim # "none"
  BY <1>1, <1>2 DEF WordIsOpen
<1> QED BY <1>3 DEF WordIsOpen

(* The text of the word, with its quotes or without, or nothing.             *)
LEMMA WordTextIs ==
  ASSUME WordIsOpen, src \in Seq(Lx!SourceChar), pc = "classify", len > 0
  PROVE  LET x == Lx!WordText(Lx!Word)  w == Lx!Word
         IN  /\ x \in Seq(Lx!SourceChar)
             /\ \A k, l \in 1 .. Len(x) : k <= l /\ x[k] = "nul" => x[l] = "nul"
             /\ Lx!WordKind(w) \in Lx!LiteralKinds =>
                  Len(x) = len - 2 /\ \A k \in 1 .. len - 2 : x[k] = w[k + 1]
<1> DEFINE x == Lx!WordText(Lx!Word)  w == Lx!Word
<1>1. /\ len \in Nat /\ w \in Seq(Lx!SourceChar) /\ Len(w) = len
      /\ \A k, l \in 1 .. len : k <= l /\ w[k] = "nul" => w[l] = "nul"
  BY WordIs, WordIsText DEF WordIsOpen
<1>2. CASE Lx!WordKind(w) \in Lx!LiteralKinds
  <2> DEFINE t == SubSeq(w, 2, len - 1)
  <2>1. len >= 2
    BY <1>2, LiteralIsDelimited
  <2>2. x = t
    BY <1>1, <1>2 DEF Lx!WordText, Lx!LiteralKinds
  <2> HIDE DEF x, w
  <2>3. t \in Seq(Lx!SourceChar) /\ Len(t) = len - 2 /\ \A k \in 1 .. len - 2 : t[k] = w[k + 1]
    BY <1>1, <2>1, SubSeqProperties
  <2> HIDE DEF t
  <2>4. ASSUME NEW k \in 1 .. len - 2, NEW l \in 1 .. len - 2, k <= l, t[k] = "nul"
        PROVE  t[l] = "nul"
    <3>1. k + 1 \in 1 .. len /\ l + 1 \in 1 .. len /\ k + 1 <= l + 1
      BY <1>1, <2>4
    <3> QED BY <1>1, <2>3, <2>4, <3>1
  <2>5. \A k, l \in 1 .. Len(t) : k <= l /\ t[k] = "nul" => t[l] = "nul"
    BY <2>3, <2>4
  <2> QED BY <2>2, <2>3, <2>5 DEF x, w
<1>3. CASE Lx!WordKind(w) \notin Lx!LiteralKinds
  <2>1. x = <<>> \/ x = w
    BY <1>3 DEF Lx!WordText
  <2>2. <<>> \in Seq(Lx!SourceChar) /\ 1 .. Len(<<>>) = {}
    OBVIOUS
  <2> HIDE DEF x, w
  <2>3. x \in Seq(Lx!SourceChar)
    BY <1>1, <2>1, <2>2
  <2>4. \A k, l \in 1 .. Len(x) : k <= l /\ x[k] = "nul" => x[l] = "nul"
    BY <1>1, <2>1, <2>2
  <2> QED BY <1>3, <2>3, <2>4 DEF x, w
<1> QED BY <1>2, <1>3

(* The text between double quotes, and the word of a Boolean.                *)
LEMMA StringIsOfText ==
  ASSUME WordIsOpen, src \in Seq(Lx!SourceChar), pc = "classify", len > 0,
         Lx!WordKind(Lx!Word) = "LITERAL_STRING",
         NEW sp, sp = [from |-> begin, to |-> begin + len], SpanText(sp)[1] = "dq"
  PROVE  /\ InnerText(sp) \in Seq(Lx!SourceChar)
         /\ CutFrom(Lx!WordText(Lx!Word), InnerText(sp))
<1> DEFINE x == Lx!WordText(Lx!Word)  w == Lx!Word  s == SubSeq(src, begin + 2, begin + len - 1)
<1>1. len \in Nat /\ begin \in Nat /\ len >= 2 /\ begin + len <= Len(src)
  BY LiteralIsDelimited DEF WordIsOpen, Lx!LiteralKinds
<1>2. /\ \A k \in 1 .. len :
           /\ w[k] # "nul" => w[k] = CharAt(src, begin + k - 1)
           /\ CharAt(src, begin + k - 1) = "nul" => w[k] = "nul"
           /\ w[k] = "nul" => \E j \in 1 .. k : CharAt(src, begin + j - 1) = "nul"
      /\ \A k, l \in 1 .. len : k <= l /\ w[k] = "nul" => w[l] = "nul"
  BY <1>1, WordIs
<1>3. Len(x) = len - 2 /\ \A k \in 1 .. len - 2 : x[k] = w[k + 1]
  BY WordTextIs DEF Lx!LiteralKinds
<1>4. InnerText(sp) = s /\ CharAt(src, begin) = "dq"
  <2>0. sp.from = begin /\ sp.to = begin + len
    OBVIOUS
  <2> HIDE DEF s
  <2>1. SpanText(sp) = SubSeq(src, begin + 1, begin + len) /\ InnerText(sp) = s
    <3>1. SpanText(sp) = SubSeq(src, begin + 1, begin + len)
      BY <2>0 DEF SpanText
    <3>2. sp.to - 1 = begin + len - 1
      BY <1>1, <2>0
    <3>3. InnerText(sp) = SubSeq(src, begin + 2, begin + len - 1)
      BY <2>0, <3>2, Zenon DEF InnerText
    <3> QED BY <3>1, <3>3 DEF s
  <2>2. SubSeq(src, begin + 1, begin + len)[1] = src[begin + 1]
    BY <1>1, SubSeqProperties
  <2>3. begin + 1 \in 1 .. Len(src)
    BY <1>1
  <2> QED BY <1>1, <2>1, <2>2, <2>3, CharAtIs
<1> HIDE DEF x, w
<1>5. s \in Seq(Lx!SourceChar) /\ Len(s) = len - 2 /\ \A k \in 1 .. len - 2 : s[k] = src[begin + 1 + k]
  BY <1>1, SubSeqProperties
<1> HIDE DEF s
<1>6. \A k \in 1 .. len - 2 : s[k] = CharAt(src, begin + k)
  <2> TAKE k \in 1 .. len - 2
  <2>1. begin + k \in Nat /\ (begin + k) + 1 \in 1 .. Len(src) /\ begin + 1 + k = (begin + k) + 1
    BY <1>1
  <2> QED BY <1>5, <2>1, CharAtIs
<1>7. ASSUME NEW k \in 1 .. len - 2
      PROVE  /\ k + 1 \in 1 .. len /\ begin + (k + 1) - 1 = begin + k
             /\ k \in Nat
  BY <1>1
<1>8. \A k \in 1 .. len - 2 : x[k] # "nul" => x[k] = s[k]
  BY <1>2, <1>3, <1>6, <1>7
<1>9. ASSUME NEW k \in 1 .. len - 2, x[k] = "nul"
      PROVE  \E j \in 1 .. k : s[j] = "nul"
  <2>1. PICK j \in 1 .. k + 1 : CharAt(src, begin + j - 1) = "nul"
    BY <1>2, <1>3, <1>7, <1>9
  <2>2. j # 1
    <3>1. begin + 1 - 1 = begin
      BY <1>1
    <3> QED BY <1>4, <2>1, <3>1
  <2>3. j - 1 \in 1 .. k /\ j - 1 \in 1 .. len - 2 /\ begin + j - 1 = begin + (j - 1)
    BY <1>1, <2>2
  <2> QED BY <1>6, <2>1, <2>3
<1>10. ASSUME NEW k \in 1 .. len - 2, NEW j \in 1 .. k, s[j] = "nul"
       PROVE  x[k] = "nul"
  <2>1. j \in 1 .. len - 2 /\ j + 1 <= k + 1
    BY <1>1
  <2>2. w[j + 1] = "nul"
    BY <1>2, <1>6, <1>7, <1>10, <2>1
  <2> QED BY <1>2, <1>3, <1>7, <2>1, <2>2
<1>11. CutFrom(x, s)
  BY <1>3, <1>5, <1>8, <1>9, <1>10 DEF CutFrom
<1> QED BY <1>4, <1>5, <1>11 DEF x

LEMMA BoolIsOfText ==
  ASSUME WordIsOpen, src \in Seq(Lx!SourceChar), len > 0,
         Lx!WordKind(Lx!Word) = "LITERAL_BOOLEAN",
         NEW sp, sp = [from |-> begin, to |-> begin + len]
  PROVE  /\ Lx!WordText(Lx!Word) = SpanText(sp)
         /\ Lx!WordText(Lx!Word) \in Lx!BoolWords
<1> DEFINE w == Lx!Word  s == SubSeq(src, begin + 1, begin + len)
<1>1. /\ len \in Nat /\ begin \in Nat /\ w \in Seq(Lx!SourceChar) /\ Len(w) = len
      /\ \A k \in 1 .. len : w[k] # "nul" => w[k] = CharAt(src, begin + k - 1)
  BY WordIs, WordIsText DEF WordIsOpen
<1>2. w \in Lx!BoolWords /\ Lx!WordText(w) = w
  BY DEF Lx!WordKind, Lx!WordText, Lx!LiteralKinds
<1>3. SpanText(sp) = s
  BY DEF SpanText
<1>4. \A k \in 1 .. len : w[k] # "nul"
  <2>1. CASE w = <<"t", "r", "u", "e">>
    <3>1. len = 4
      BY <1>1, <2>1
    <3> QED BY <2>1, <3>1
  <2>2. CASE w = <<"f", "a", "l", "s", "e">>
    <3>1. len = 5
      BY <1>1, <2>2
    <3> QED BY <2>2, <3>1
  <2> QED BY <1>2, <2>1, <2>2 DEF Lx!BoolWords
<1> HIDE DEF w
<1>5. ASSUME NEW k \in 1 .. len
      PROVE  begin + k \in 1 .. Len(src) /\ w[k] = src[begin + k]
  <2>1. begin + k - 1 \in Nat /\ (begin + k - 1) + 1 = begin + k
    BY <1>1
  <2>2. CharAt(src, begin + k - 1) # "nul" /\ w[k] = CharAt(src, begin + k - 1)
    BY <1>1, <1>4
  <2> QED BY <2>1, <2>2, CharAtIs
<1>6. len \in 1 .. len /\ begin + len <= Len(src) /\ 1 <= begin + 1
  <2>1. len \in 1 .. len
    BY <1>1
  <2> QED BY <1>1, <1>5, <2>1
<1>7. s \in Seq(Lx!SourceChar) /\ Len(s) = len /\ \A k \in 1 .. len : s[k] = src[begin + k]
  BY <1>1, <1>6, SubSeqProperties
<1> HIDE DEF s
<1>8. w = s
  BY <1>1, <1>5, <1>7, SeqEqual
<1> QED BY <1>2, <1>3, <1>8 DEF w

LEMMA NoTextIsEmitted ==
  ASSUME NEW kind, kind \notin TextKinds, NEW pos, NEW from, NEW to,
         Lx!Emit(kind, pos, <<>>, from, to)
  PROVE  \E t, sp : /\ toks' = Append(toks, t) /\ spans' = Append(spans, sp)
                    /\ Sound(t) /\ IsOfText(t, sp)
<1> DEFINE t == [kind |-> kind, pos |-> pos, text |-> <<>>]
           sp == [from |-> from, to |-> to]
<1>3. toks' = Append(toks, t) /\ spans' = Append(spans, sp)
  BY DEF Lx!Emit
<1>4. t.kind = kind /\ t.text = <<>>
  OBVIOUS
<1> HIDE DEF t, sp
<1>1. <<>> \in Seq(Byte) /\ 1 .. Len(<<>>) = {}
  OBVIOUS
<1>2. Fit(t)
  BY <1>1, <1>4 DEF Fit, TextKinds
<1>5. IsOfText(t, sp) /\ Sound(t)
  BY <1>2, <1>4 DEF IsOfText, Sound, TextKinds
<1> QED BY <1>3, <1>5

(* What the lexer hands over is sound, token by token, and of the text.      *)
LEMMA LexedStep ==
  ASSUME WordIsOpen, src \in Seq(Lx!SourceChar), Lx!Next
  PROVE  /\ WordIsOpen' /\ src' = src
         /\ \/ toks' = toks /\ spans' = spans
            \/ toks' = <<>> /\ spans' = <<>>
            \/ \E t, sp : /\ toks' = Append(toks, t) /\ spans' = Append(spans, sp)
                         /\ Sound(t) /\ IsOfText(t, sp)
<1> USE DEF Lx!Goto, Lx!outVars, Lx!wordVars
<1>1. cur \in Nat /\ begin \in Nat /\ len \in Nat
  BY DEF WordIsOpen
<1>2. ASSUME cur' \in Nat, begin' = begin, len' = len, pc' \notin {"word", "classify"}
      PROVE  WordIsOpen'
  BY <1>1, <1>2 DEF WordIsOpen
<1>3. CASE Lx!Trim
  BY <1>1, <1>2, <1>3 DEF Lx!Trim, Lx!SkipBlank, Lx!EnterComment, Lx!EndTrim
<1>4. CASE Lx!Comment
  BY <1>1, <1>2, <1>4 DEF Lx!Comment, Lx!LineComment, Lx!BlockComment,
    Lx!EndBlockComment, Lx!BumpNewline
<1>5. CASE Lx!ScanEof \/ Lx!ScanNewline
  <2>1. WordIsOpen' /\ src' = src
    BY <1>1, <1>2, <1>5 DEF Lx!ScanEof, Lx!ScanNewline, Lx!BumpNewline
  <2>2. \/ Lx!Emit("EOF", Lx!PosPast(1), <<>>, cur, cur)
        \/ Lx!Emit("NEWLINE", Lx!PosPast(1), <<>>, cur, cur + 1)
    BY <1>5 DEF Lx!ScanEof, Lx!ScanNewline
  <2>3. "EOF" \notin TextKinds /\ "NEWLINE" \notin TextKinds
    BY DEF TextKinds
  <2> QED BY <2>1, <2>2, <2>3, NoTextIsEmitted
<1>6. CASE Lx!ScanDouble \/ Lx!ScanSingle
  <2>1. WordIsOpen' /\ src' = src
    BY <1>1, <1>2, <1>6 DEF Lx!ScanDouble, Lx!ScanSingle
  <2>2. CASE Lx!ScanDouble
    <3>1. PICK d \in Lx!DoubleAt(cur) : Lx!Emit(d[3], Lx!PosHere(2), <<>>, cur, cur + 2)
      BY <2>2 DEF Lx!ScanDouble
    <3>2. d[3] \notin TextKinds
      BY SymbolsAreSound DEF Lx!DoubleAt
    <3> QED BY <2>1, <3>1, <3>2, NoTextIsEmitted
  <2>3. CASE Lx!ScanSingle
    <3>1. PICK s \in Lx!SingleAt(cur) : Lx!Emit(s[2], Lx!PosHere(1), <<>>, cur, cur + 1)
      BY <2>3 DEF Lx!ScanSingle
    <3>2. s[2] \notin TextKinds
      BY SymbolsAreSound DEF Lx!SingleAt
    <3> QED BY <2>1, <3>1, <3>2, NoTextIsEmitted
  <2> QED BY <1>6, <2>2, <2>3
<1>7. CASE Lx!BeginWord \/ Lx!WordChar \/ Lx!EndWord
  BY <1>7, WordStaysOpen DEF Lx!BeginWord, Lx!WordChar, Lx!EndWord
<1>8. CASE Lx!UnterminatedLiteral \/ Lx!InvalidIdentifier \/ Lx!EmptyWord
  BY <1>1, <1>2, <1>8 DEF Lx!UnterminatedLiteral, Lx!InvalidIdentifier, Lx!EmptyWord,
    Lx!Fail
<1>9. CASE Lx!EmitWord
  <2>1. WordIsOpen' /\ src' = src
    BY <1>1, <1>2, <1>9 DEF Lx!EmitWord
  <2> DEFINE t == [kind |-> Lx!WordKind(Lx!Word), pos |-> Lx!PosPast(len),
                   text |-> Lx!WordText(Lx!Word)]
             sp == [from |-> begin, to |-> begin + len]
  <2>2. toks' = Append(toks, t) /\ spans' = Append(spans, sp)
        /\ pc = "classify" /\ len > 0
    BY <1>9 DEF Lx!EmitWord, Lx!Emit
  <2>3. t.kind = "LITERAL_STRING" => NoOpenEscape(t.text)
    BY <2>2, StringWordIsSound
  <2>4. t.kind = "LITERAL_NUMBER" => IsNumeric(t.text)
    BY <2>2, NumberWordIsSound
  <2>5. t.kind = "LITERAL_BOOLEAN" => t.text = SpanText(sp) /\ t.text \in Lx!BoolWords
    BY <2>2, BoolIsOfText
  <2>6. t.kind = "LITERAL_STRING" /\ SpanText(sp)[1] = "dq" =>
          InnerText(sp) \in Seq(Lx!SourceChar) /\ CutFrom(t.text, InnerText(sp))
    BY <2>2, StringIsOfText
  <2>7. /\ t.text \in Seq(Lx!SourceChar)
        /\ \A k, l \in 1 .. Len(t.text) : k <= l /\ t.text[k] = "nul" => t.text[l] = "nul"
    BY <2>2, WordTextIs
  <2>8. t.kind # "NULL"
    BY DEF Lx!WordKind
  <2> HIDE DEF t, sp
  <2>9. Sound(t)
    BY <2>3, <2>4 DEF Sound
  <2>10. t.text \in Seq(Byte)
    <3>1. Lx!SourceChar \subseteq Byte
      BY ProgramAssumption
    <3> QED BY <2>7, <3>1, SeqMonotonic
  <2>11. Fit(t)
    BY <2>4, <2>7, <2>10 DEF Fit, IsNumeric, NUL
  <2>12. IsOfText(t, sp)
    BY <2>5, <2>6, <2>8, <2>11 DEF IsOfText
  <2> QED BY <2>1, <2>2, <2>9, <2>12
<1> QED BY <1>3, <1>4, <1>5, <1>6, <1>7, <1>8, <1>9 DEF Lx!Next, Lx!Scan, Lx!ReadWord,
      Lx!Classify

-----------------------------------------------------------------------------
(* What the parser makes of such literals.                                  *)

LEMMA DigitsAgree == Lx!Digits = Digits
<1>1. \A c : c \in Digits <=> \E k \in 1 .. 10 : c = DigitsInOrder[k]
  BY DEF Digits
<1>2. \A k \in 1 .. 10 : k = 1 \/ k = 2 \/ k = 3 \/ k = 4 \/ k = 5 \/ k = 6 \/ k = 7
                           \/ k = 8 \/ k = 9 \/ k = 10
  OBVIOUS
<1>3. /\ DigitsInOrder[1] = "0" /\ DigitsInOrder[2] = "1"
      /\ DigitsInOrder[3] = "2" /\ DigitsInOrder[4] = "3"
      /\ DigitsInOrder[5] = "4" /\ DigitsInOrder[6] = "5"
      /\ DigitsInOrder[7] = "6" /\ DigitsInOrder[8] = "7"
      /\ DigitsInOrder[9] = "8" /\ DigitsInOrder[10] = "9"
  BY DEF DigitsInOrder
<1>4. ASSUME NEW c PROVE c \in Lx!Digits <=> c \in Digits
  <2>1. c \in Lx!Digits => c \in Digits
    <3>1. \A k \in 1 .. 10 : DigitsInOrder[k] \in Digits
      BY <1>1
    <3> QED BY <1>3, <3>1 DEF Lx!Digits
  <2>2. c \in Digits => c \in Lx!Digits
    BY <1>1, <1>2, <1>3 DEF Lx!Digits
  <2> QED BY <2>1, <2>2
<1> QED BY <1>4

(* strtod reads the whole of what the lexer takes for a number.              *)
LEMMA NumbersAreTaken ==
  ASSUME NEW s, IsNumeric(s)
  PROVE  /\ is_float(s) \/ is_int(s)
         /\ strtodEnd(s) = Len(s)
<1> DEFINE n == Len(s)
<1>1. /\ n \in Nat \ {0} /\ \A k \in 1 .. n : s[k] \in Digits \cup {"."}
      /\ \A k, l \in 1 .. n : s[k] = "." /\ s[l] = "." => k = l
      /\ s # <<".">> /\ SubSeq(s, 1, n) = s
  BY DigitsAgree DEF IsNumeric
<1>2. is_float(s) \/ is_int(s)
  <2>1. s[1] \in Digits \cup {"."}
    BY <1>1
  <2> QED BY <1>1, <2>1 DEF is_float
<1>3. \E k \in 1 .. n : s[k] \in Digits
  <2>1. CASE n = 1
    <3>1. s = <<s[1]>>
      BY <2>1 DEF IsNumeric
    <3>2. s[1] # "."
      BY <1>1, <3>1
    <3> QED BY <1>1, <3>2
  <2>2. CASE n # 1
    <3>1. 1 \in 1 .. n /\ 2 \in 1 .. n
      BY <1>1, <2>2
    <3>2. s[1] # "." \/ s[2] # "."
      BY <1>1, <3>1
    <3> QED BY <1>1, <3>1, <3>2
  <2> QED BY <2>1, <2>2
<1>4. IsDecimal(s)
  BY <1>1, <1>3 DEF IsDecimal
<1> DEFINE e == CHOOSE k \in 0 .. n :
                  /\ k = 0 \/ IsDecimal(SubSeq(s, 1, k))
                  /\ \A m \in k + 1 .. n : ~IsDecimal(SubSeq(s, 1, m))
<1>5. strtodEnd(s) = e
  BY DEF strtodEnd, Longest
<1> HIDE DEF n
<1>6. /\ n \in 0 .. n /\ IsDecimal(SubSeq(s, 1, n))
      /\ \A m \in n + 1 .. n : ~IsDecimal(SubSeq(s, 1, m))
  <2>1. n \in 0 .. n /\ n + 1 .. n = {}
    BY <1>1
  <2>2. IsDecimal(SubSeq(s, 1, n))
    BY <1>1, <1>4
  <2> QED BY <2>1, <2>2
<1>7. e \in 0 .. n /\ \A m \in e + 1 .. n : ~IsDecimal(SubSeq(s, 1, m))
  BY <1>6
<1> HIDE DEF e
<1>8. e = n
  <2>1. e # n => n \in e + 1 .. n
    BY <1>1, <1>7
  <2> QED BY <1>6, <1>7, <2>1
<1> QED BY <1>2, <1>5, <1>8 DEF n

(* A digit is one of the base unless the base is octal and it is 8 or 9.     *)
LEMMA OctalDigits ==
  ASSUME NEW s, NEW c \in Digits
  PROVE  c \in DigitsOf(Base(s)) <=> ~(s[1] = "0" /\ c \in {"8", "9"})
<1>1. /\ DigitsInOrder[1] = "0" /\ DigitsInOrder[2] = "1"
      /\ DigitsInOrder[3] = "2" /\ DigitsInOrder[4] = "3"
      /\ DigitsInOrder[5] = "4" /\ DigitsInOrder[6] = "5"
      /\ DigitsInOrder[7] = "6" /\ DigitsInOrder[8] = "7"
      /\ DigitsInOrder[9] = "8" /\ DigitsInOrder[10] = "9"
  BY DEF DigitsInOrder
<1>2. CASE s[1] = "0"
  <2>1. DigitsOf(Base(s)) = {DigitsInOrder[k] : k \in 1 .. 8}
    BY <1>2 DEF DigitsOf, Base
  <2>2. \A k \in 1 .. 8 : DigitsInOrder[k] \notin {"8", "9"}
    <3>1. \A k \in 1 .. 8 : k = 1 \/ k = 2 \/ k = 3 \/ k = 4 \/ k = 5 \/ k = 6 \/ k = 7
                             \/ k = 8
      OBVIOUS
    <3> QED  BY <1>1, <3>1
  <2>3. ASSUME c \notin {"8", "9"} PROVE \E k \in 1 .. 8 : c = DigitsInOrder[k]
    <3>1. PICK k \in 1 .. 10 : c = DigitsInOrder[k]
      BY DEF Digits
    <3>2. k # 9 /\ k # 10
      BY <1>1, <2>3, <3>1
    <3>3. k \in 1 .. 8
      BY <3>2
    <3> QED  BY <3>1, <3>3
  <2> QED  BY <1>2, <2>1, <2>2, <2>3
<1>3. CASE s[1] # "0"
  BY <1>3 DEF DigitsOf, Base, Digits
<1> QED  BY <1>2, <1>3

(* strtoll reads the whole of it, too, unless it passes for octal and has a  *)
(* digit that no octal number has.                                           *)
LEMMA OctalsAreMisread ==
  ASSUME NEW s, IsNumeric(s)
  PROVE  /\ is_float(s) => ~MisreadOctal(s)
         /\ is_int(s) => (strtollEnd(s) = Len(s) <=> ~MisreadOctal(s))
<1> DEFINE n == Len(s)
<1>1. /\ n \in Nat \ {0} /\ \A k \in 1 .. n : s[k] \in Digits \cup {"."}
      /\ SubSeq(s, 1, n) = s /\ s \in Seq(Digits \cup {"."})
  BY DigitsAgree DEF IsNumeric
<1>2. s \in Seq(Byte)
  <2>1. Lx!Digits \cup {"."} \subseteq Byte
    BY ProgramAssumption DEF Lx!SourceChar, Lx!Named
  <2> QED  BY <2>1, SeqMonotonic DEF IsNumeric
<1>3. is_float(s) => ~MisreadOctal(s)
  <2> SUFFICES ASSUME MisreadOctal(s) PROVE is_int(s)
    BY DEF is_float
  <2>1. \A k \in 1 .. n : s[k] \in Digits
    BY DEF MisreadOctal
  <2>2. 1 \in 1 .. n /\ \A k \in 2 .. n : k \in 1 .. n
    BY <1>1
  <2> QED  BY <2>1, <2>2 DEF is_int
<1>4. ASSUME is_int(s) PROVE \A k \in 1 .. n : s[k] \in Digits
  <2>1. "." \notin Digits
    BY DigitsAgree DEF Lx!Digits
  <2>2. "_" \notin Digits \cup {"."}
    BY DigitsAgree DEF Lx!Digits
  <2>3. s[1] \in Digits /\ \A k \in 2 .. n : s[k] \in Digits \cup {"_"}
    BY <1>4 DEF is_int
  <2>4. \A k \in 1 .. n : k = 1 \/ k \in 2 .. n
    BY <1>1
  <2> QED  BY <1>1, <2>2, <2>3, <2>4
<1>5. ASSUME NEW c \in Digits
      PROVE  c \in DigitsOf(Base(s)) <=> ~(s[1] = "0" /\ c \in {"8", "9"})
  BY OctalDigits
<1>6. ASSUME is_int(s), strtollEnd(s) = n PROVE ~MisreadOctal(s)
  <2>1. \A k \in 1 .. n : s[k] \in DigitsOf(Base(s))
    BY <1>2, <1>6, strtollReads
  <2> QED  BY <1>4, <1>5, <1>6, <2>1 DEF MisreadOctal
<1>7. ASSUME is_int(s), ~MisreadOctal(s) PROVE strtollEnd(s) = n
  <2> DEFINE IsNumeral(t) == \A k \in 1 .. Len(t) : t[k] \in DigitsOf(Base(s))
             e == CHOOSE k \in 0 .. n :
                    /\ k = 0 \/ IsNumeral(SubSeq(s, 1, k))
                    /\ \A m \in k + 1 .. n : ~IsNumeral(SubSeq(s, 1, m))
  <2>1. strtollEnd(s) = e
    BY DEF strtollEnd, Longest
  <2>2. IsNumeral(SubSeq(s, 1, n))
    BY <1>1, <1>4, <1>5, <1>7 DEF MisreadOctal
  <2> HIDE DEF IsNumeral, n
  <2>3. n \in 0 .. n /\ n + 1 .. n = {}
    BY <1>1
  <2>4. e \in 0 .. n /\ \A m \in e + 1 .. n : ~IsNumeral(SubSeq(s, 1, m))
    BY <2>2, <2>3
  <2> HIDE DEF e
  <2>5. e # n => n \in e + 1 .. n
    BY <1>1, <2>4
  <2> QED  BY <2>1, <2>2, <2>4, <2>5
<1> QED  BY <1>3, <1>6, <1>7

(* The parser begins to read at offsets of M only.                           *)
NotInEscape ==
  at = "string" =>
    /\ tok.kind = "LITERAL_STRING"
    /\ \E M : Marks(M, Escapes(tok.text), Len(tok.text)) /\ i \in M

LEMMA JudgedStep ==
  ASSUME Sound(tok), NotInEscape, LexedLiteralsAreSound, PsNext
  PROVE  tok' = tok /\ NotInEscape' /\ LexedLiteralsAreSound'
<1> DEFINE n == Len(tok.text)  E == Escapes(tok.text)
<1>0. ASSUME tok' = tok, tok.kind # "LITERAL_NUMBER",
             diag' = diag \/ diag' \in {"too short", "too long", "bad escape"}
      PROVE  LexedLiteralsAreSound'
  BY <1>0 DEF LexedLiteralsAreSound
<1>1. CASE NoLiteral \/ NullLiteral \/ BoolLiteral \/ CharLiteral
  <2>1. /\ tok' = tok /\ at' # "string"
        /\ diag' = diag \/ diag' \in {"too short", "too long", "bad escape"}
    BY <1>1 DEF NoLiteral, NullLiteral, BoolLiteral, CharLiteral, Return,
      Have, Refuse
  <2>2. tok.kind # "LITERAL_NUMBER"
    BY <1>1 DEF NoLiteral, NullLiteral, BoolLiteral, CharLiteral, Peek, LiteralKinds
  <2> QED BY <1>0, <2>1, <2>2 DEF NotInEscape
<1>2. CASE NumberLiteral
  <2>1. tok' = tok /\ tok.kind = "LITERAL_NUMBER" /\ at' # "string"
    BY <1>2 DEF NumberLiteral, Peek, Return, Have, Refuse
  <2>2. IsNumeric(tok.text)
    BY <2>1 DEF Sound
  <2>3. /\ is_float(tok.text) \/ is_int(tok.text)
        /\ strtodEnd(tok.text) = Len(tok.text)
    BY <2>2, NumbersAreTaken
  <2>4. /\ diag' = diag \/ diag' \in {"int range", "int invalid"}
        /\ is_float(text) => at' = "have"
        /\ ~is_float(text) => (at' = "have" <=> strtollEnd(text) = Len(text))
        /\ at' \in Ended
    BY <1>2, <2>3 DEF NumberLiteral, Return, Have, Refuse, text, Ended
  <2>5. at' = "none" <=> MisreadOctal(text)
    <3>1. /\ is_float(text) => ~MisreadOctal(text)
          /\ ~is_float(text) => (strtollEnd(text) = Len(text) <=> ~MisreadOctal(text))
      BY <2>2, <2>3, OctalsAreMisread DEF text
    <3> QED BY <2>4, <3>1 DEF Ended
  <2>6. text' = text /\ (MisreadOctal(text)' <=> MisreadOctal(text))
    BY <2>1 DEF text, MisreadOctal
  <2>7. LexedLiteralsAreSound'
    BY <2>1, <2>4, <2>5, <2>6 DEF LexedLiteralsAreSound
  <2> QED BY <2>1, <2>7 DEF NotInEscape
<1>3. CASE BeginString
  <2>1. /\ tok' = tok /\ tok.kind = "LITERAL_STRING" /\ i' = 0 /\ diag' = diag
    BY <1>3 DEF BeginString, Peek
  <2>2. PICK M : Marks(M, E, n)
    BY <2>1 DEF Sound, NoOpenEscape
  <2>3. 0 \in M
    BY <2>2 DEF Marks
  <2>4. LexedLiteralsAreSound'
    BY <1>0, <2>1
  <2> QED BY <2>1, <2>2, <2>3, <2>4 DEF NotInEscape
<1>4. CASE PlainChar \/ EscapedChar \/ UnknownEscape
  <2>1. at = "string" /\ i < n /\ tok' = tok
    BY <1>4 DEF PlainChar, EscapedChar, UnknownEscape, InString, text
  <2>2. PICK M : Marks(M, E, n) /\ i \in M
    BY <2>1 DEF NotInEscape
  <2>3. /\ n \in Nat /\ M \subseteq 0 .. n /\ n \in M
        /\ \A k \in 0 .. n - 1 : k + 1 \in M <=> ~(k \in M /\ k \in E)
    BY <2>2 DEF Marks
  <2>4. i \in 0 .. n - 1 /\ (i \in E <=> tok.text[i + 1] = "bs")
    BY <2>1, <2>2, <2>3 DEF Escapes
  <2>5. tok.kind # "LITERAL_NUMBER"
    BY <2>1 DEF NotInEscape
  <2>6. CASE PlainChar
    <3>1. tok.text[i + 1] # "bs" /\ i' = i + 1 /\ diag' = diag /\ at' = at
      BY <2>6 DEF PlainChar, Char_i, text, Backslash
    <3>2. i' \in M
      BY <2>2, <2>3, <2>4, <3>1
    <3>3. LexedLiteralsAreSound'
      BY <1>0, <2>1, <2>5, <3>1
    <3> QED BY <2>1, <2>2, <3>1, <3>2, <3>3 DEF NotInEscape
  <2>7. CASE EscapedChar
    <3>1. /\ tok.text[i + 1] = "bs" /\ i' = i + 2 /\ diag' = diag /\ at' = at
          /\ i < n - 1
      BY <2>7 DEF EscapedChar, Char_i, text, Backslash
    <3>2. i + 1 \notin M
      BY <2>2, <2>3, <2>4, <3>1
    <3>3. i + 1 \in 0 .. n - 1 /\ (i + 1) + 1 = i + 2
      BY <2>3, <2>4, <3>1
    <3>4. i' \in M
      BY <2>3, <3>1, <3>2, <3>3
    <3>5. LexedLiteralsAreSound'
      BY <1>0, <2>1, <2>5, <3>1
    <3> QED BY <2>1, <2>2, <3>1, <3>4, <3>5 DEF NotInEscape
  <2>8. CASE UnknownEscape
    <3>1. tok.text[i + 1] = "bs" /\ at' # "string"
      BY <2>8 DEF UnknownEscape, Char_i, text, Backslash, Refuse
    <3>2. i + 1 \notin M
      BY <2>2, <2>3, <2>4, <3>1
    <3>3. i # n - 1
      BY <2>3, <3>2
    <3>4. diag' = "bad escape"
      BY <2>8, <3>3 DEF UnknownEscape, Refuse, text
    <3> QED BY <1>0, <2>1, <2>5, <3>1, <3>4 DEF NotInEscape
  <2> QED BY <1>4, <2>6, <2>7, <2>8
<1>5. CASE EndString
  <2>1. tok' = tok /\ at = "string" /\ at' # "string" /\ diag' = diag
    BY <1>5 DEF EndString, Return, Have
  <2>2. tok.kind # "LITERAL_NUMBER"
    BY <2>1 DEF NotInEscape
  <2> QED BY <1>0, <2>1, <2>2 DEF NotInEscape
<1> QED BY <1>1, <1>2, <1>3, <1>4, <1>5 DEF PsNext, String

-----------------------------------------------------------------------------
(* The two together.                                                        *)

FirstIsSound == toks # <<>> => Sound(toks[1])

AgreeInv ==
  /\ WordIsOpen /\ FirstIsSound /\ Sound(tok) /\ NotInEscape /\ LexedLiteralsAreSound
  /\ stage = "read" => pc = "trim"
  /\ src \in Seq(Lx!SourceChar)

LEMMA AgreeInit == Init => AgreeInv
<1> SUFFICES ASSUME Init PROVE AgreeInv
  OBVIOUS
<1>1. WordIsOpen
  BY DEF Init, Lx!Init, WordIsOpen
<1>2. FirstIsSound
  BY DEF Init, Lx!Init, FirstIsSound
<1>3. Sound(tok)
  BY DEF Init, Sound, NoToken
<1>4. NotInEscape /\ LexedLiteralsAreSound
  BY DEF Init, NotInEscape, LexedLiteralsAreSound, NoDiag, NoToken
<1>5. src \in Seq(Lx!SourceChar)
  BY ProgramAssumption DEF Init, Lx!Init
<1> QED BY <1>1, <1>2, <1>3, <1>4, <1>5 DEF Init, Lx!Init, AgreeInv

LEMMA AgreeStep == AgreeInv /\ IsSequence(toks) /\ [Next]_vars => AgreeInv'
<1> SUFFICES ASSUME AgreeInv, IsSequence(toks), [Next]_vars PROVE AgreeInv'
  OBVIOUS
<1>1. /\ WordIsOpen /\ FirstIsSound /\ Sound(tok) /\ NotInEscape
      /\ LexedLiteralsAreSound /\ (stage = "read" => pc = "trim")
      /\ src \in Seq(Lx!SourceChar)
  BY DEF AgreeInv
<1>2. ASSUME UNCHANGED <<cur, pc, begin, len, delim>>, src' = src \/ pc = "trim"
      PROVE  WordIsOpen'
  BY <1>1, <1>2 DEF WordIsOpen
<1>3. ASSUME toks' = toks PROVE FirstIsSound'
  BY <1>1, <1>3 DEF FirstIsSound
<1>4. ASSUME UNCHANGED <<tok, at, i, diag>>
      PROVE  Sound(tok)' /\ NotInEscape' /\ LexedLiteralsAreSound'
  BY <1>1, <1>4 DEF Sound, NotInEscape, LexedLiteralsAreSound, MisreadOctal, text
<1>5. CASE Read \/ ReadUnreadable \/ ReadNothing
  <2>1. /\ UNCHANGED <<cur, pc, begin, len, delim, toks, tok, at, i, diag>>
        /\ stage = "read" /\ stage' # "read" /\ (src' = src \/ src' = <<>>)
    BY <1>5 DEF Read, ReadUnreadable, ReadNothing, lexVars, psVars
  <2>2. src' \in Seq(Lx!SourceChar)
    <3>1. <<>> \in Seq(Lx!SourceChar)
      OBVIOUS
    <3> QED BY <1>1, <2>1, <3>1
  <2> QED BY <1>1, <1>2, <1>3, <1>4, <2>1, <2>2 DEF AgreeInv
<1>6. CASE Tokenize
  <2>1. Lx!Next /\ UNCHANGED <<tok, at, i, diag>> /\ stage' # "read"
    BY <1>6 DEF Tokenize, psVars
  <2>2. WordIsOpen' /\ src' \in Seq(Lx!SourceChar)
    BY <1>1, <2>1, LexedStep
  <2>3. FirstIsSound'
    <3>1. CASE toks' = toks \/ toks' = <<>>
      BY <1>3, <3>1 DEF FirstIsSound
    <3>2. CASE \E t : toks' = Append(toks, t) /\ Sound(t)
      <4>1. PICK t : toks' = Append(toks, t) /\ Sound(t)
        BY <3>2
      <4>2. Len(toks) \in Nat /\ (toks = <<>> => Len(toks) = 0)
            /\ (toks # <<>> => Len(toks) > 0)
        BY DEF IsSequence
      <4>3. toks'[1] = IF toks = <<>> THEN t ELSE toks[1]
        <5>1. CASE toks = <<>>
          BY <4>1, <4>2, <5>1, AppendedSequence
        <5>2. CASE toks # <<>>
          <6>1. 1 \in 1 .. Len(toks)
            BY <4>2, <5>2
          <6> QED BY <4>1, <5>2, <6>1, AppendedSequence
        <5> QED BY <5>1, <5>2
      <4> QED BY <1>1, <4>1, <4>3 DEF FirstIsSound
    <3> QED BY <1>1, <2>1, <3>1, <3>2, LexedStep
  <2> QED BY <1>4, <2>1, <2>2, <2>3 DEF AgreeInv
<1>7. CASE BeginParse
  <2>1. /\ UNCHANGED <<src, cur, pc, begin, len, delim, toks, diag, stage>>
        /\ tok' = FirstToken /\ at' = "peek"
    BY <1>7 DEF BeginParse, lexVars, memVars
  <2>2. Sound(FirstToken)
    <3>1. CASE toks = <<>>
      BY <3>1 DEF FirstToken, Sound, NoToken
    <3>2. CASE toks # <<>>
      <4>1. /\ FirstToken.text = toks[1].text
            /\ FirstToken.kind \in {"NULL", toks[1].kind}
        BY <3>2 DEF FirstToken
      <4> QED BY <1>1, <3>2, <4>1 DEF FirstIsSound, Sound
    <3> QED BY <3>1, <3>2
  <2>3. NotInEscape' /\ LexedLiteralsAreSound'
    BY <1>1, <2>1 DEF NotInEscape, LexedLiteralsAreSound, Ended
  <2> QED BY <1>1, <1>2, <1>3, <2>1, <2>2, <2>3 DEF AgreeInv, Sound
<1>8. CASE Parse
  <2>1. PsNext /\ UNCHANGED <<src, cur, pc, begin, len, delim, toks>> /\ stage' # "read"
    BY <1>8 DEF Parse, lexVars
  <2>2. tok' = tok /\ NotInEscape' /\ LexedLiteralsAreSound'
    BY <1>1, <2>1, JudgedStep
  <2> QED BY <1>1, <1>2, <1>3, <2>1, <2>2 DEF AgreeInv, Sound
<1>9. CASE PrintExpr \/ FreeExpr \/ FreeAll
  <2>1. /\ UNCHANGED <<src, cur, pc, begin, len, delim, toks, tok, at, i, diag>>
        /\ stage' # "read"
    BY <1>9 DEF PrintExpr, FreeExpr, FreeAll, FreeToken, FreeVector, FreeLexer,
      FreeFileName, FreeSource, lexVars, psVars
  <2> QED BY <1>2, <1>3, <1>4, <2>1 DEF AgreeInv
<1>10. CASE UNCHANGED vars
  <2>1. UNCHANGED <<src, cur, pc, begin, len, delim, toks, tok, at, i, diag, stage>>
    BY <1>10 DEF vars, lexVars, psVars
  <2> QED BY <1>1, <1>2, <1>3, <1>4, <2>1 DEF AgreeInv
<1> QED BY <1>5, <1>6, <1>7, <1>8, <1>9, <1>10 DEF Next

(* On no text does the parser find a literal that the lexer should have      *)
(* refused: lx_next_word and ps_literal, each with a loop of its own over the *)
(* backslashes, agree on where an escape ends, and what lx_next_literal takes *)
(* for a number strtod or strtoll reads to its end, but for a text of digits *)
(* that begins with 0 and has an 8 or 9, which is refused every time.        *)
THEOREM LexerAndParserAgree == Spec => []LexedLiteralsAreSound
<1>1. Inv => IsSequence(toks)
  BY DEF Inv
<1>2. AgreeInv => LexedLiteralsAreSound
  BY DEF AgreeInv
<1> QED BY <1>1, <1>2, AgreeInit, AgreeStep, HeapInvariant, PTL DEF Spec

-----------------------------------------------------------------------------
(* What is printed is what the text means.                                  *)

LEMMA UpToNulIs ==
  ASSUME NEW S, NEW s \in Seq(S)
  PROVE  \E m \in 0 .. Len(s) :
           /\ UpToNul(s) = SubSeq(s, 1, m)
           /\ \A k \in 1 .. m : s[k] # "nul"
           /\ m = Len(s) \/ s[m + 1] = "nul"
<1> DEFINE P(m) == /\ \A k \in 1 .. m : s[k] # "nul"
                   /\ m = Len(s) \/ s[m + 1] = "nul"
           Z == {k \in 1 .. Len(s) : s[k] = "nul"}
           c == CHOOSE m \in 0 .. Len(s) : P(m)
<1>1. Len(s) \in Nat
  OBVIOUS
<1>2. \E m \in 0 .. Len(s) : P(m)
  <2>1. CASE Z = {}
    <3>1. P(Len(s)) /\ Len(s) \in 0 .. Len(s)
      BY <1>1, <2>1
    <3> QED BY <3>1
  <2>2. CASE Z # {}
    <3>1. Z \subseteq Nat
      BY <1>1
    <3>2. PICK z \in Z : \A y \in Z : z <= y
      BY <2>2, <3>1, LeastElement
    <3>3. z \in 1 .. Len(s) /\ s[z] = "nul" /\ (z - 1) + 1 = z /\ z - 1 \in 0 .. Len(s)
      BY <1>1, <3>2
    <3>4. ASSUME NEW k \in 1 .. z - 1 PROVE s[k] # "nul"
      <4>1. k \in 1 .. Len(s) /\ ~(z <= k)
        BY <1>1, <3>3
      <4> QED BY <3>2, <4>1
    <3>5. P(z - 1)
      BY <3>3, <3>4
    <3> QED BY <3>3, <3>5
  <2> QED BY <2>1, <2>2
<1>3. c \in 0 .. Len(s) /\ P(c)
  <2> HIDE DEF P
  <2> QED BY <1>2
<1>4. UpToNul(s) = SubSeq(s, 1, c)
  BY DEF UpToNul, Lx!NUL
<1> QED BY <1>3, <1>4

(* Up to its first NUL a text is as it stands in the source, and means the    *)
(* same; what it means beyond is NULs.                                      *)
LEMMA CutMeans ==
  ASSUME NEW t \in Seq(Byte), WellFormed(t), NEW s \in Seq(Lx!SourceChar), CutFrom(t, s)
  PROVE  /\ UpToNul(Meaning(t)) = Meaning(UpToNul(s))
         /\ Len(Meaning(t)) = Len(Meaning(UpToNul(s))) + Len(s) - Len(UpToNul(s))
<1> DEFINE u == UpToNul(s)  v == Meaning(t)  w == Meaning(u)
<1>1. /\ Len(t) \in Nat /\ Len(s) = Len(t)
      /\ \A k \in 1 .. Len(t) : t[k] # "nul" => t[k] = s[k]
      /\ \A k \in 1 .. Len(t) : t[k] = "nul" <=> \E j \in 1 .. k : s[j] = "nul"
  BY DEF CutFrom
<1>2. PICK m \in 0 .. Len(s) :
        /\ u = SubSeq(s, 1, m)
        /\ \A k \in 1 .. m : s[k] # "nul"
        /\ m = Len(s) \/ s[m + 1] = "nul"
  BY UpToNulIs
<1>3. m \in Nat /\ m <= Len(t)
  BY <1>1
<1>4. \A k \in 1 .. m : t[k] # "nul" /\ t[k] = s[k]
  <2> TAKE k \in 1 .. m
  <2>1. k \in 1 .. Len(t) /\ \A j \in 1 .. k : j \in 1 .. m
    BY <1>1, <1>3
  <2> QED BY <1>1, <1>2, <2>1
<1>5. \A k \in m + 1 .. Len(t) : t[k] = "nul"
  <2> TAKE k \in m + 1 .. Len(t)
  <2>1. k \in 1 .. Len(t) /\ m + 1 \in 1 .. k /\ m # Len(s)
    BY <1>1, <1>3
  <2> QED BY <1>1, <1>2, <2>1
<1>6. u = SubSeq(t, 1, m) /\ Len(u) = m
  <2>1. /\ u \in Seq(Lx!SourceChar) /\ Len(u) = m /\ \A k \in 1 .. m : u[k] = s[k]
    BY <1>1, <1>2, <1>3, SubSeqProperties
  <2> DEFINE x == SubSeq(t, 1, m)
  <2>2. x \in Seq(Byte) /\ Len(x) = m /\ \A k \in 1 .. m : x[k] = t[k]
    BY <1>3, PrefixIs
  <2> HIDE DEF u, x
  <2>3. u = x
    BY <1>3, <1>4, <2>1, <2>2, SeqEqual
  <2> QED BY <2>1, <2>3 DEF x
<1> HIDE DEF u
<1>7. Trailing(v, w, Len(t) - m)
  BY <1>3, <1>5, <1>6, MeaningWithNuls DEF NUL
<1>8. \A k \in 1 .. Len(w) : w[k] # "nul"
  BY <1>3, <1>4, <1>6, MeaningHasNoNul DEF NUL
<1> HIDE DEF v, w
<1>9. /\ v \in Seq(Byte) /\ w \in Seq(Byte) /\ Len(v) = Len(w) + (Len(t) - m)
      /\ \A k \in 1 .. Len(w) : v[k] = w[k]
      /\ \A k \in Len(w) + 1 .. Len(v) : v[k] = "nul"
  BY <1>7 DEF Trailing, NUL
<1>10. Len(w) \in Nat /\ Len(v) \in Nat /\ Len(w) <= Len(v)
  BY <1>1, <1>3, <1>9, LenProperties
<1>11. UpToNul(v) = w
  <2>1. PICK n \in 0 .. Len(v) :
          /\ UpToNul(v) = SubSeq(v, 1, n)
          /\ \A k \in 1 .. n : v[k] # "nul"
          /\ n = Len(v) \/ v[n + 1] = "nul"
    BY <1>9, UpToNulIs
  <2>2. ~(n < Len(w))
    <3>1. SUFFICES ASSUME n < Len(w) PROVE FALSE
      OBVIOUS
    <3>2. n + 1 \in 1 .. Len(w) /\ n # Len(v)
      BY <1>10, <3>1
    <3> QED BY <1>8, <1>9, <2>1, <3>2
  <2>3. ~(Len(w) < n)
    <3>1. SUFFICES ASSUME Len(w) < n PROVE FALSE
      OBVIOUS
    <3>2. Len(w) + 1 \in 1 .. n /\ Len(w) + 1 \in Len(w) + 1 .. Len(v)
      BY <1>10, <3>1
    <3> QED BY <1>9, <2>1, <3>2
  <2>4. n = Len(w)
    BY <1>10, <2>2, <2>3
  <2> DEFINE x == SubSeq(v, 1, n)
  <2>5. x \in Seq(Byte) /\ Len(x) = n /\ \A k \in 1 .. n : x[k] = v[k]
    BY <1>9, <1>10, <2>4, PrefixIs
  <2> HIDE DEF x
  <2>6. x = w
    BY <1>9, <1>10, <2>4, <2>5, SeqEqual
  <2> QED BY <2>1, <2>6 DEF x
<1>12. Len(v) = Len(w) + Len(s) - Len(u)
  BY <1>1, <1>3, <1>6, <1>9, <1>10
<1> QED BY <1>11, <1>12 DEF u, v, w

(* The first token is of the text, the node is of the token, and what is      *)
(* shown is of the node.                                                    *)
FirstIsOfText ==
  /\ IsSequence(spans) /\ Len(spans) = Len(toks)
  /\ toks # <<>> => IsOfText(toks[1], spans[1])
Judged ==
  /\ at = "idle" => i \in Nat /\ res = Invalid /\ expr = NoExpr /\ diag = NoDiag
  /\ at # "idle" => PsInv /\ NodeIsOfToken /\ tok = FirstToken
IsShown ==
  shown # NoExpr => /\ stage \notin {"read", "lex", "parse", "print"}
                    /\ at # "idle" /\ shown = Printed
MeantInv == FirstIsOfText /\ Judged /\ IsShown

LEMMA MeantInit == Init => MeantInv
<1> SUFFICES ASSUME Init PROVE MeantInv
  OBVIOUS
<1>1. toks = <<>> /\ spans = <<>>
  BY DEF Init, Lx!Init
<1>2. FirstIsOfText
  BY <1>1 DEF FirstIsOfText, IsSequence
<1> QED BY <1>2 DEF Init, MeantInv, Judged, IsShown

LEMMA FirstStaysOfText ==
  ASSUME FirstIsOfText, UNCHANGED <<toks, spans>>, src' = src \/ toks = <<>>
  PROVE  FirstIsOfText'
BY DEF FirstIsOfText, IsOfText, SpanText, InnerText

LEMMA JudgedStays ==
  ASSUME Judged, UNCHANGED psVars, UNCHANGED <<src, toks, spans>> \/ at = "idle"
  PROVE  Judged'
<1>1. UNCHANGED <<tok, at, i, res, expr, diag>>
  BY DEF psVars
<1>2. CASE at = "idle"
  BY <1>1, <1>2 DEF Judged
<1>3. CASE at # "idle"
  <2>1. PsInv' /\ NodeIsOfToken'
    BY <1>1, <1>3, PsInvStutters DEF Judged, NodeIsOfToken, text
  <2>2. FirstToken' = FirstToken
    BY <1>3 DEF FirstToken, IsNull, WordAt
  <2> QED BY <1>1, <1>3, <2>1, <2>2 DEF Judged
<1> QED BY <1>2, <1>3

LEMMA FirstTokenIsFit ==
  ASSUME FirstIsOfText PROVE Fit(FirstToken)
<1>1. CASE toks = <<>>
  <2>1. <<>> \in Seq(Byte) /\ 1 .. Len(<<>>) = {}
    OBVIOUS
  <2>2. FirstToken.kind = "NONE" /\ FirstToken.text = <<>>
    BY <1>1 DEF FirstToken, NoToken
  <2> QED BY <2>1, <2>2 DEF Fit
<1>2. CASE toks # <<>>
  <2>1. /\ FirstToken.text = toks[1].text
        /\ FirstToken.kind \in {"NULL", toks[1].kind}
    BY <1>2 DEF FirstToken
  <2>2. Fit(toks[1])
    BY <1>2 DEF FirstIsOfText, IsOfText
  <2> HIDE DEF FirstToken
  <2> QED BY <2>1, <2>2 DEF Fit
<1> QED BY <1>1, <1>2

LEMMA ParserIsAwake ==
  ASSUME PsNext PROVE at # "idle"
BY DEF PsNext, String, NoLiteral, NullLiteral, BoolLiteral, CharLiteral, NumberLiteral,
       BeginString, PlainChar, EscapedChar, UnknownEscape, EndString, Peek, InString

LEMMA MeantStep == Inv /\ AgreeInv /\ MeantInv /\ [Next]_vars => MeantInv'
<1> SUFFICES ASSUME Inv, AgreeInv, MeantInv, [Next]_vars PROVE MeantInv'
  OBVIOUS
<1>1. /\ FirstIsOfText /\ Judged /\ IsShown /\ IsSequence(toks) /\ Len(toks) \in Nat
      /\ stage = "read" => toks = <<>>
      /\ stage \in {"read", "lex"} => at = "idle"
  BY AppendedSequence DEF MeantInv, Inv, HeapInv, TokenStringsAreHeld, ParsersBlocksAreHeld
<1>2. ASSUME stage \in {"read", "lex", "parse", "print"}, shown' = shown PROVE IsShown'
  BY <1>1, <1>2 DEF IsShown
<1>3. ASSUME UNCHANGED psVars, shown' = shown,
             stage' = stage \/ stage' \notin {"read", "lex", "parse", "print"}
      PROVE  IsShown'
  BY <1>1, <1>3 DEF IsShown, Printed, psVars
<1>4. CASE Read \/ ReadUnreadable \/ ReadNothing
  <2>1. /\ UNCHANGED <<toks, spans>> /\ UNCHANGED psVars /\ shown' = shown
        /\ stage = "read" /\ at = "idle" /\ toks = <<>>
    BY <1>1, <1>4 DEF Read, ReadUnreadable, ReadNothing, lexVars, memVars
  <2>2. FirstIsOfText'
    BY <1>1, <2>1, FirstStaysOfText
  <2>3. Judged'
    BY <1>1, <2>1, JudgedStays
  <2> QED BY <1>2, <2>1, <2>2, <2>3 DEF MeantInv
<1>5. CASE Tokenize
  <2>1. Lx!Next /\ UNCHANGED psVars /\ shown' = shown /\ stage = "lex" /\ at = "idle"
    BY <1>1, <1>5 DEF Tokenize
  <2>2. /\ src' = src
        /\ \/ toks' = toks /\ spans' = spans
           \/ toks' = <<>> /\ spans' = <<>>
           \/ \E t, sp : /\ toks' = Append(toks, t) /\ spans' = Append(spans, sp)
                         /\ IsOfText(t, sp)
    BY <2>1, LexedStep DEF AgreeInv
  <2>3. FirstIsOfText'
    <3>1. CASE toks' = toks /\ spans' = spans
      BY <1>1, <2>2, <3>1, FirstStaysOfText
    <3>2. CASE toks' = <<>> /\ spans' = <<>>
      BY <3>2 DEF FirstIsOfText, IsSequence
    <3>3. ASSUME NEW t, NEW sp, toks' = Append(toks, t), spans' = Append(spans, sp),
                 IsOfText(t, sp)
          PROVE  FirstIsOfText'
      <4>1. IsSequence(spans) /\ Len(spans) = Len(toks)
            /\ (toks # <<>> => IsOfText(toks[1], spans[1]))
        BY <1>1 DEF FirstIsOfText
      <4>2. /\ IsSequence(spans') /\ Len(spans') = Len(toks')
            /\ \A k \in 1 .. Len(toks) : toks'[k] = toks[k] /\ spans'[k] = spans[k]
            /\ toks'[Len(toks) + 1] = t /\ spans'[Len(toks) + 1] = sp
        BY <1>1, <3>3, <4>1, AppendedSequence
      <4>3. (toks = <<>> => Len(toks) = 0) /\ (toks # <<>> => 1 \in 1 .. Len(toks))
        BY <1>1 DEF IsSequence
      <4>4. IsOfText(toks'[1], spans'[1])
        <5>1. CASE toks = <<>>
          BY <3>3, <4>2, <4>3, <5>1
        <5>2. CASE toks # <<>>
          BY <4>1, <4>2, <4>3, <5>2
        <5> QED BY <5>1, <5>2
      <4>5. (IsOfText(toks[1], spans[1]))'
        BY <2>2, <4>4 DEF IsOfText, SpanText, InnerText
      <4> QED BY <4>2, <4>5 DEF FirstIsOfText
    <3> QED BY <2>2, <3>1, <3>2, <3>3
  <2>4. Judged'
    BY <1>1, <2>1, JudgedStays
  <2> QED BY <1>2, <2>1, <2>3, <2>4 DEF MeantInv
<1>6. CASE BeginParse
  <2>1. /\ UNCHANGED <<src, toks, spans, i, res, expr, diag, shown>>
        /\ stage = "parse" /\ at = "idle" /\ tok' = FirstToken /\ at' = "peek"
    BY <1>6 DEF BeginParse, lexVars, memVars
  <2>2. i \in Nat /\ res = Invalid /\ expr = NoExpr /\ diag = NoDiag
    BY <1>1, <2>1 DEF Judged
  <2>3. Fit(tok')
    BY <1>1, <2>1, FirstTokenIsFit
  <2>4. Peeked'
    BY <2>1, <2>2, <2>3 DEF Peeked
  <2>5. PsInv'
    <3>1. Peeked' => PsInv'
      BY PeekedIsJudged, PTL
    <3> QED BY <2>4, <3>1
  <2>6. NodeIsOfToken'
    <3>1. expr'.type = "none"
      BY <2>1, <2>2, LiteralIs DEF NoExpr
    <3> QED BY <3>1 DEF NodeIsOfToken
  <2>7. tok' = FirstToken'
    BY <2>1 DEF FirstToken, IsNull, WordAt
  <2>8. Judged'
    BY <2>1, <2>5, <2>6, <2>7 DEF Judged
  <2>9. FirstIsOfText'
    BY <1>1, <2>1, FirstStaysOfText
  <2> QED BY <1>2, <2>1, <2>8, <2>9 DEF MeantInv
<1>7. CASE Parse
  <2>1. PsNext /\ UNCHANGED <<src, toks, spans, shown>> /\ stage = "parse"
    BY <1>7 DEF Parse, lexVars, memVars
  <2>2. at # "idle"
    BY <2>1, ParserIsAwake
  <2>3. PsInv /\ NodeIsOfToken /\ tok = FirstToken
    BY <1>1, <2>2 DEF Judged
  <2>4. PsInv'
    BY <2>1, <2>3, SimpleStep, CharStep, NumberStep, StringStep DEF PsNext
  <2>5. NodeIsOfToken'
    BY <2>1, <2>3, NodeStep
  <2>6. tok' = tok
    BY <2>1, JudgedStep DEF AgreeInv
  <2>7. at' # "idle"
    BY <2>4 DEF PsInv, ParserInv, PsTypeOK, Ended
  <2>8. FirstToken' = FirstToken
    BY <2>1 DEF FirstToken, IsNull, WordAt
  <2>9. Judged'
    BY <2>3, <2>4, <2>5, <2>6, <2>7, <2>8 DEF Judged
  <2>10. FirstIsOfText'
    BY <1>1, <2>1, FirstStaysOfText
  <2> QED BY <1>2, <2>1, <2>9, <2>10 DEF MeantInv
<1>8. CASE PrintExpr
  <2>1. /\ UNCHANGED <<src, toks, spans>> /\ UNCHANGED psVars /\ stage = "print"
        /\ stage' \in {"crash", "expr"} /\ (shown' = shown \/ shown' = Printed)
    BY <1>8 DEF PrintExpr, lexVars
  <2>2. FirstIsOfText' /\ Judged'
    BY <1>1, <2>1, FirstStaysOfText, JudgedStays
  <2>3. Printed' = Printed /\ at' = at
    BY <2>1 DEF Printed, psVars
  <2>4. shown = NoExpr
    BY <1>1, <2>1 DEF IsShown
  <2>5. at = "idle" => Printed = NoExpr
    <3>1. at = "idle" => expr = NoExpr /\ expr.type = "none"
      BY <1>1, LiteralIs DEF Judged, NoExpr
    <3> QED BY <3>1 DEF Printed
  <2>6. IsShown'
    BY <2>1, <2>3, <2>4, <2>5 DEF IsShown
  <2> QED BY <2>2, <2>6 DEF MeantInv
<1>9. CASE FreeExpr \/ FreeAll \/ UNCHANGED vars
  <2>1. /\ UNCHANGED <<src, toks, spans>> /\ UNCHANGED psVars /\ shown' = shown
        /\ stage' = stage \/ stage' \notin {"read", "lex", "parse", "print"}
    BY <1>9 DEF FreeExpr, FreeAll, FreeToken, FreeVector, FreeLexer, FreeFileName,
      FreeSource, vars, lexVars, memVars
  <2>2. FirstIsOfText' /\ Judged'
    BY <1>1, <2>1, FirstStaysOfText, JudgedStays
  <2> QED BY <1>3, <2>1, <2>2 DEF MeantInv
<1> QED BY <1>4, <1>5, <1>6, <1>7, <1>8, <1>9 DEF Next

LEMMA ShownIsMeant == MeantInv => PrintedIsMeant
<1> SUFFICES ASSUME MeantInv PROVE PrintedIsMeant
  OBVIOUS
<1>1. CASE shown = NoExpr
  <2>1. shown.type = "none"
    BY <1>1, LiteralIs DEF NoExpr
  <2> QED BY <2>1 DEF PrintedIsMeant
<1>2. CASE shown # NoExpr
  <2>1. /\ shown = Printed /\ PsInv /\ NodeIsOfToken /\ tok = FirstToken
    BY <1>2 DEF MeantInv, IsShown, Judged
  <2>2. /\ tok.kind \in {"LITERAL_STRING", "LITERAL_BOOLEAN"} =>
             /\ toks # <<>> /\ tok.kind = toks[1].kind /\ text = toks[1].text
        /\ tok.kind = "NULL" => IsNull(1)
    <3>1. CASE toks = <<>>
      BY <2>1, <3>1 DEF FirstToken, NoToken
    <3>2. CASE toks # <<>>
      <4>1. toks[1].kind # "NULL"
        BY <3>2 DEF MeantInv, FirstIsOfText, IsOfText
      <4> QED BY <2>1, <3>2, <4>1 DEF FirstToken, text
    <3> QED BY <3>1, <3>2
  <2>3. toks # <<>> => IsOfText(toks[1], spans[1])
    BY DEF MeantInv, FirstIsOfText
  <2>4. WordAt(1) = SpanText(spans[1]) /\ Inner = InnerText(spans[1])
    BY DEF WordAt, SpanText, Inner, InnerText
  <2>5. expr.type # "string" => shown = expr
    BY <2>1 DEF Printed
  <2>6. ASSUME expr.type = "string"
        PROVE  /\ shown.type = "string"
               /\ shown.value = IF expr.value.len > ShownMax THEN "<a very long string>"
                                ELSE UpToNul(Value(expr.value))
    BY <2>1, <2>6, LiteralIs DEF Printed
  <2>7. ASSUME shown.type = "string", WordAt(1)[1] = "dq"
        PROVE  shown.value = IF Length > ShownMax THEN "<a very long string>" ELSE Meant
    <3>1. expr.type = "string"
      BY <2>5, <2>7
    <3>2. tok.kind = "LITERAL_STRING" /\ Good(expr.value)
      BY <2>1, <3>1 DEF NodeIsOfToken
    <3>3. Value(expr.value) = Meaning(text)
      BY <2>1, <3>1 DEF PsInv, StringsAreTranslated, StringIsTranslated
    <3>4. text \in Seq(Byte)
      BY <2>1, TokenFacts
    <3>5. WellFormed(text)
      <4>1. at = "have"
        <5>1. at \in {"peek", "string", "have", "none"}
          BY <2>1 DEF PsInv, ParserInv, PsTypeOK, Ended
        <5>2. at \notin {"peek", "string"}
          BY <2>1, <3>1, LiteralIs DEF PsInv, Unjudged, NoExpr
        <5>3. at # "none"
          BY <2>1, <3>1, <3>2 DEF PsInv, RefusedIsReported, LiteralKinds, Ended
        <5> QED BY <5>1, <5>2, <5>3
      <4> QED BY <2>1, <3>2, <4>1 DEF PsInv, StringsAreTranslated, StringsAreJudgedWhole,
            Ended
    <3>6. Inner \in Seq(Lx!SourceChar) /\ CutFrom(text, Inner)
      BY <2>2, <2>3, <2>4, <2>7, <3>2 DEF IsOfText
    <3> DEFINE u == UpToNul(Inner)
    <3>7. /\ UpToNul(Meaning(text)) = Meaning(u)
          /\ Len(Meaning(text)) = Len(Meaning(u)) + Len(Inner) - Len(u)
      BY <3>4, <3>5, <3>6, CutMeans
    <3>8. expr.value.len = Len(Meaning(text))
      BY <3>2, <3>3, ValueOfGood
    <3>9. Meant = UpToNul(Value(expr.value)) /\ Length = expr.value.len
      BY <3>3, <3>7, <3>8 DEF Meant, Length
    <3> QED BY <2>6, <3>1, <3>9
  <2>8. ASSUME shown.type = "bool"
        PROVE  WordAt(1) = IF shown.value THEN <<"t", "r", "u", "e">>
                                          ELSE <<"f", "a", "l", "s", "e">>
    <3>1. shown = expr /\ expr.type = "bool"
      BY <2>5, <2>6, <2>8
    <3>2. /\ tok.kind = "LITERAL_BOOLEAN"
          /\ expr.value = (text = <<"t", "r", "u", "e">>)
      BY <2>1, <3>1, Zenon DEF NodeIsOfToken
    <3>3. text = WordAt(1) /\ text \in Lx!BoolWords
      BY <2>2, <2>3, <2>4, <3>2 DEF IsOfText
    <3>4. CASE text = <<"t", "r", "u", "e">>
      <4>1. shown.value = TRUE
        BY <3>1, <3>2, <3>4, Zenon
      <4> QED BY <3>3, <3>4, <4>1
    <3>5. CASE text # <<"t", "r", "u", "e">>
      <4>1. shown.value = FALSE
        BY <3>1, <3>2, <3>5, Zenon
      <4>2. text = <<"f", "a", "l", "s", "e">>
        BY <3>3, <3>5 DEF Lx!BoolWords
      <4> QED BY <3>3, <4>1, <4>2
    <3> QED BY <3>4, <3>5
  <2>9. ASSUME shown.type = "null" PROVE IsNull(1)
    BY <2>1, <2>2, <2>5, <2>6, <2>9 DEF NodeIsOfToken
  <2> QED BY <2>7, <2>8, <2>9 DEF PrintedIsMeant
<1> QED BY <1>1, <1>2

(* What cimi prints of a program that begins with a string, on any text, is   *)
(* what stands between the quotes, its escapes replaced, up to the first NUL: *)
(* through the scanner, which only looks for the closing quote, the copy of   *)
(* the word, the loop of ps_literal that builds the string, the copy in the   *)
(* node, and the printer.  A Boolean or a null is printed only for its word.  *)
THEOREM PrintedIsAlwaysMeant == Spec => []PrintedIsMeant
<1>1. Init => AgreeInv /\ MeantInv
  BY AgreeInit, MeantInit
<1>2. Inv => IsSequence(toks)
  BY DEF Inv
<1> QED BY <1>1, <1>2, AgreeStep, MeantStep, ShownIsMeant, HeapInvariant, PTL DEF Spec
=============================================================================
