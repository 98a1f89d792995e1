---------------------------- MODULE CursorProofs ----------------------------
(***************************************************************************)
(* Theorems about the token cursor, for every stream of tokens that ends   *)
(* with EOF, and for calls in any order.                                   *)
(***************************************************************************)
EXTENDS TokenCursorProperties, SequenceTheorems, TLAPS

-----------------------------------------------------------------------------
(* Tokens.                                                                  *)

(* A stream is a sequence of kinds, and only its last token is sure to be    *)
(* EOF.                                                                     *)
LEMMA StreamFacts ==
  ASSUME TypeOK
  PROVE  /\ tokens \in Seq(Kinds) /\ Len(tokens) \in Nat
         /\ Len(tokens) > 0 => tokens[Len(tokens)] = "EOF"
         /\ Len(tokens) + MaxCur + 2 < U32 /\ MaxCur \in Nat /\ U32 \in Nat
<1>1. tokens \in Streams
  BY DEF TypeOK
<1>2. tokens \in Seq(Kinds)
  BY <1>1, CursorAssumption
<1>3. Len(tokens) > 0 => tokens # <<>>
  OBVIOUS
<1> QED  BY <1>1, <1>2, <1>3, CursorAssumption

(* ps_get: the token at an offset, or none from the end on.                 *)
LEMMA TokenAtIs ==
  ASSUME TypeOK, NEW k \in Nat
  PROVE  /\ TokenAt(k) \in TokenNumbers
         /\ k < Len(tokens) => TokenAt(k) = k + 1
         /\ TokenAt(k) = NoToken <=> k >= Len(tokens)
BY StreamFacts, SMT DEF TokenAt, NoToken, TokenNumbers

(* ps_consume never returns the last token.                                 *)
LEMMA ConsumedIs ==
  ASSUME TypeOK, NEW k \in Nat
  PROVE  /\ Consumed(k) \in TokenNumbers
         /\ Consumed(k) < Len(tokens) \/ Consumed(k) = NoToken
         /\ Consumed(k) # NoToken => Consumed(k) = k + 1 /\ Consumed(k) \in Nat \ {0}
         /\ Consumed(k) = NoToken <=> k + 1 >= Len(tokens)
BY StreamFacts, SMT DEF Consumed, NoToken, TokenNumbers

LEMMA SmallIsNotWrapped ==
  ASSUME NEW n \in Nat, NEW m \in Nat, n < m PROVE n % m = n
BY SMT

(* ps_prev: where the cursor stands at the first token there is none, for   *)
(* the offset wraps far beyond the end; elsewhere it is the token before it. *)
LEMMA PreviousIs ==
  ASSUME TypeOK, NEW c \in Nat, c < U32
  PROVE  /\ Previous(c) \in TokenNumbers
         /\ c = 0 => Previous(c) = NoToken
         /\ c > 0 => Previous(c) = TokenAt(c - 1)
         /\ c > 0 => (Previous(c) = NoToken <=> c > Len(tokens))
<1>1. CASE c = 0
  <2>1. (c - 1) % U32 = U32 - 1
    BY <1>1, StreamFacts, SMT
  <2>2. U32 - 1 \in Nat /\ U32 - 1 >= Len(tokens)
    BY StreamFacts, SMT
  <2>3. Previous(c) = TokenAt(U32 - 1)
    BY <2>1 DEF Previous
  <2>4. TokenAt(U32 - 1) \in TokenNumbers /\ TokenAt(U32 - 1) = NoToken
    BY <2>2, TokenAtIs
  <2> QED  BY <1>1, <2>3, <2>4, SMT
<1>2. CASE c > 0
  <2>1. (c - 1) % U32 = c - 1 /\ c - 1 \in Nat
    <3>1. c - 1 \in Nat /\ U32 \in Nat /\ c - 1 < U32
      BY <1>2, StreamFacts, SMT
    <3> QED  BY <3>1, SmallIsNotWrapped
  <2>2. Previous(c) = TokenAt(c - 1)
    BY <2>1 DEF Previous
  <2>3. TokenAt(c - 1) \in TokenNumbers
        /\ (TokenAt(c - 1) = NoToken <=> c - 1 >= Len(tokens))
    BY <2>1, TokenAtIs
  <2> QED  BY <1>2, <2>2, <2>3, StreamFacts, SMT
<1> QED  BY <1>1, <1>2, SMT

LEMMA ModIsNatural ==
  ASSUME NEW n \in Int, NEW m \in Nat, m > 0 PROVE n % m \in Nat
BY SMT

-----------------------------------------------------------------------------
(* The invariant, conjunct by conjunct.                                     *)

Inv == CursorInv /\ TakenInOrder /\ EndIsNeverExpected

(* What every call returns, whatever else it does.                          *)
AnswerFine ==
  /\ answer.wanted \in Kinds \cup {NoKind}
  /\ answer.got \in TokenNumbers /\ answer.yes \in Answers
  /\ EndIsOnlySeen

LEMMA CountIs ==
  ASSUME TypeOK, NEW c \in Counters, NEW n \in Nat, Count(c, n)
  PROVE  /\ made' \in [Counters -> Nat]
         /\ made'[c] = made[c] + n /\ made[c] \in Nat
         /\ \A d \in Counters : d # c => made'[d] = made[d]
BY DEF TypeOK, Count

(* A call that leaves the cursor and the histories alone.                   *)
LEMMA LookKeeps ==
  ASSUME Inv, UNCHANGED <<tokens, cur, error_reported, diag, taken, leaked, made>>,
         eof' \in BOOLEAN, at' \in {"call", "newlines"}, AnswerFine'
  PROVE  Inv'
<1>1. TypeOK'
  BY DEF Inv, CursorInv, TypeOK, AnswerFine, TokenNumbers
<1>2. CursorIsBounded' /\ CursorIsAccountedFor' /\ NamesAreAccountedFor'
  BY DEF Inv, CursorInv, CursorIsBounded, CursorIsAccountedFor, NamesAreAccountedFor
<1>3. TakenInOrder'
  BY DEF Inv, TakenInOrder
<1>4. EndIsNeverExpected'
  BY DEF Inv, EndIsNeverExpected, EndIsReportedTooEarly, AnswerFine
<1> QED  BY <1>1, <1>2, <1>3, <1>4 DEF Inv, CursorInv

(* ps_consume: the cursor moves by one, and the token it returns is counted. *)
LEMMA ConsumeIs ==
  ASSUME Inv, Consume
  PROVE  /\ cur \in Nat /\ cur' = cur + 1 /\ eof' \in BOOLEAN
         /\ taken' \in Seq(Nat \ {0}) /\ made' \in [Counters -> Nat]
         /\ Len(taken') + made'["ended"] = Len(taken) + made["ended"] + 1
         /\ \A d \in Counters \ {"ended"} : made'[d] = made[d]
         /\ \/ taken' = taken
            \/ taken' = Append(taken, cur + 1) /\ cur + 1 < Len(tokens)
<1>0. TypeOK /\ cur \in Nat
  BY DEF Inv, CursorInv, TypeOK
<1>1. eof' \in BOOLEAN /\ cur' = cur + 1
  BY <1>0 DEF Consume, SeesEnd, TypeOK
<1>2. CASE Consumed(cur) = NoToken
  <2>1. Count("ended", 1) /\ taken' = taken
    BY <1>2 DEF Consume
  <2>2. "ended" \in Counters
    BY DEF Counters
  <2>3. /\ made' \in [Counters -> Nat] /\ made'["ended"] = made["ended"] + 1
        /\ \A d \in Counters : d # "ended" => made'[d] = made[d]
        /\ made["ended"] \in Nat
    BY <1>0, <2>1, <2>2, CountIs
  <2>4. taken \in Seq(Nat \ {0}) /\ Len(taken) \in Nat
    BY <1>0 DEF TypeOK
  <2> QED  BY <1>0, <1>1, <2>1, <2>3, <2>4, SMT
<1>3. CASE Consumed(cur) # NoToken
  <2>1. taken' = Append(taken, Consumed(cur)) /\ made' = made
    BY <1>3 DEF Consume
  <2>2. Consumed(cur) = cur + 1 /\ Consumed(cur) \in Nat \ {0} /\ cur + 1 < Len(tokens)
    BY <1>0, <1>3, ConsumedIs
  <2>3. taken \in Seq(Nat \ {0}) /\ made \in [Counters -> Nat] /\ made["ended"] \in Nat
    BY <1>0 DEF TypeOK, Counters
  <2>4. taken' \in Seq(Nat \ {0}) /\ Len(taken') = Len(taken) + 1 /\ Len(taken) \in Nat
    BY <2>1, <2>2, <2>3, SMT
  <2>5. Len(taken') + made'["ended"] = Len(taken) + made["ended"] + 1
    <3>1. made'["ended"] = made["ended"]
      BY <2>1
    <3>2. made["ended"] \in Nat /\ Len(taken) \in Nat /\ Len(taken') = Len(taken) + 1
      BY <2>3, <2>4
    <3> HIDE <2>3, <2>4
    <3> QED  BY <3>1, <3>2, SMT
  <2> QED  BY <1>0, <1>1, <2>1, <2>2, <2>3, <2>4, <2>5
<1> QED  BY <1>2, <1>3

(* A token that lies at the cursor, or behind it, comes after all that were  *)
(* taken before.                                                            *)
LEMMA TakenGrows ==
  ASSUME Inv, tokens' = tokens, cur' \in Nat, cur + 1 <= cur', cur + 1 < Len(tokens),
         taken' = Append(taken, cur + 1)
  PROVE  TakenInOrder'
<1>1. cur \in Nat /\ taken \in Seq(Nat \ {0}) /\ Len(taken) \in Nat
  BY DEF Inv, CursorInv, TypeOK
<1>2. Len(taken') = Len(taken) + 1 /\ taken'[Len(taken) + 1] = cur + 1
      /\ \A k \in 1 .. Len(taken) : taken'[k] = taken[k]
  BY <1>1, SMT
<1>3. \A k \in 1 .. Len(taken) : taken[k] \in Nat /\ taken[k] <= cur /\ taken[k] < Len(tokens)
  BY <1>1 DEF Inv, TakenInOrder
<1>4. \A k, l \in 1 .. Len(taken) : k < l => taken[k] < taken[l]
  BY DEF Inv, TakenInOrder
<1>5. \A k, l \in 1 .. Len(taken) + 1 : k < l => taken'[k] < taken'[l]
  BY <1>1, <1>2, <1>3, <1>4, SMT
<1>6. \A k \in 1 .. Len(taken) + 1 : taken'[k] <= cur' /\ taken'[k] < Len(tokens)
  BY <1>1, <1>2, <1>3, SMT
<1> QED  BY <1>2, <1>5, <1>6 DEF TakenInOrder

LEMMA TakenStays ==
  ASSUME Inv, tokens' = tokens, cur' \in Nat, cur <= cur', taken' = taken
  PROVE  TakenInOrder'
<1>1. cur \in Nat /\ \A k \in 1 .. Len(taken) : taken[k] \in Nat
  BY DEF Inv, CursorInv, TypeOK
<1>2. \A k \in 1 .. Len(taken) : taken[k] <= cur' /\ taken[k] < Len(tokens)
  BY <1>1, SMT DEF Inv, TakenInOrder
<1> QED  BY <1>2 DEF Inv, TakenInOrder

LEMMA ConsumeKeeps ==
  ASSUME Inv, Consume, cur < MaxCur \/ cur < Len(tokens),
         UNCHANGED <<tokens, error_reported, diag, leaked>>,
         at' \in {"call", "newlines"}, AnswerFine'
  PROVE  Inv'
<1>0. TypeOK /\ cur \in Nat /\ taken \in Seq(Nat \ {0}) /\ made \in [Counters -> Nat]
  BY DEF Inv, CursorInv, TypeOK
<1>1. /\ cur' = cur + 1 /\ eof' \in BOOLEAN
      /\ taken' \in Seq(Nat \ {0}) /\ made' \in [Counters -> Nat]
      /\ Len(taken') + made'["ended"] = Len(taken) + made["ended"] + 1
      /\ \A d \in Counters \ {"ended"} : made'[d] = made[d]
      /\ \/ taken' = taken
         \/ taken' = Append(taken, cur + 1) /\ cur + 1 < Len(tokens)
  BY ConsumeIs
<1>2. TypeOK'
  BY <1>0, <1>1 DEF TypeOK, AnswerFine, TokenNumbers
<1>3. CursorIsBounded'
  BY <1>0, <1>1, StreamFacts, SMT DEF CursorIsBounded
<1>4. CursorIsAccountedFor'
  <2>1. cur = Len(taken) + made["accepted"] + 2 * made["refused"] + made["ended"]
                + made["bumped"]
    BY DEF Inv, CursorInv, CursorIsAccountedFor
  <2>2. /\ made'["accepted"] = made["accepted"] /\ made["accepted"] \in Nat
        /\ made'["refused"] = made["refused"] /\ made["refused"] \in Nat
        /\ made'["bumped"] = made["bumped"] /\ made["bumped"] \in Nat
        /\ made["ended"] \in Nat /\ made'["ended"] \in Nat
    BY <1>0, <1>1 DEF Counters
  <2>3. Len(taken) \in Nat /\ Len(taken') \in Nat
    BY <1>0, <1>1
  <2>4. Len(taken') + made'["ended"] = Len(taken) + made["ended"] + 1
    BY <1>1
  <2>5. cur' = Len(taken') + made'["accepted"] + 2 * made'["refused"] + made'["ended"]
                 + made'["bumped"]
    <3> DEFINE t == Len(taken)           t1 == Len(taken')
               a == made["accepted"]     r == made["refused"]
               e == made["ended"]        e1 == made'["ended"]
               b == made["bumped"]
    <3>1. cur' = cur + 1 /\ cur \in Nat
      BY <1>0, <1>1
    <3>2. /\ t \in Nat /\ t1 \in Nat /\ a \in Nat /\ r \in Nat /\ e \in Nat
          /\ e1 \in Nat /\ b \in Nat
      BY <2>2, <2>3
    <3>3. cur = t + a + 2 * r + e + b /\ t1 + e1 = t + e + 1
      BY <2>1, <2>4
    <3>4. /\ made'["accepted"] = a /\ made'["refused"] = r /\ made'["bumped"] = b
      BY <2>2
    <3> HIDE DEF t, t1, a, r, e, e1, b
    <3>5. cur' = t1 + a + 2 * r + e1 + b
      BY <3>1, <3>2, <3>3, SMT
    <3> QED  BY <3>4, <3>5 DEF t1, e1
  <2> QED  BY <2>5 DEF CursorIsAccountedFor
<1>5. NamesAreAccountedFor'
  BY <1>1 DEF Inv, CursorInv, NamesAreAccountedFor, Counters
<1>6. TakenInOrder'
  <2>1. cur' \in Nat /\ cur <= cur' /\ cur + 1 <= cur'
    BY <1>0, <1>1, SMT
  <2> QED  BY <1>1, <2>1, TakenGrows, TakenStays
<1>7. EndIsReportedTooEarly'
  <2>1. EndIsReportedTooEarly
    BY DEF Inv, EndIsNeverExpected
  <2>2. cur' > 0
    BY <1>0, <1>1, SMT
  <2> QED  BY <2>1, <2>2 DEF EndIsReportedTooEarly
<1> QED
  BY <1>2, <1>3, <1>4, <1>5, <1>6, <1>7
  DEF Inv, CursorInv, EndIsNeverExpected, AnswerFine

(* The bound on the cursor keeps it from wrapping.                          *)
LEMMA BoundedIsSmall ==
  ASSUME TypeOK, NEW c \in Nat, c <= Len(tokens) + MaxCur + 1 PROVE c < U32
<1>1. /\ Len(tokens) \in Nat /\ MaxCur \in Nat /\ U32 \in Nat
      /\ Len(tokens) + MaxCur + 2 < U32
  BY StreamFacts
<1> QED  BY <1>1, SMT

(* A diagnostic is placed at the token before the cursor, or the process    *)
(* ends: at the first token and beyond the end.                             *)
LEMMA DiagnoseIs ==
  ASSUME TypeOK, NEW c \in Nat, c < U32, NEW what, NEW sound, NEW ended \in BOOLEAN,
         Diagnose(c, what, sound, ended)
  PROVE  /\ eof' \in BOOLEAN /\ error_reported' \in BOOLEAN
         /\ at' \in {"call", "panic", "crash"}
         /\ at' = "panic" => c = 0 \/ c > Len(tokens)
         /\ error_reported' => error_reported \/ c > 0
         /\ \/ diag' = diag
            \/ /\ diag' = [what |-> what, place |-> Previous(c), next |-> TokenAt(cur)]
               /\ c <= Len(tokens)
         /\ at' = "call" => eof' = (eof \/ ended) /\ c > 0 /\ c <= Len(tokens)
<1>1. /\ Previous(c) \in TokenNumbers
      /\ c = 0 => Previous(c) = NoToken
      /\ c > 0 => (Previous(c) = NoToken <=> c > Len(tokens))
  BY PreviousIs
<1>2. Len(tokens) \in Nat
  BY StreamFacts
<1>3. Previous(c) = NoToken <=> c = 0 \/ c > Len(tokens)
  BY <1>1, SMT
<1>4. eof \in BOOLEAN /\ error_reported \in BOOLEAN
  BY DEF TypeOK
<1>5. eof' = (eof \/ ended \/ Previous(c) = NoToken)
  BY DEF Diagnose
<1>6. CASE Previous(c) = NoToken /\ at' = "panic" /\ UNCHANGED <<error_reported, diag>>
  BY <1>3, <1>4, <1>5, <1>6
<1>7. CASE /\ Previous(c) # NoToken /\ at' = "call" /\ error_reported' = TRUE
           /\ diag' = [what |-> what, place |-> Previous(c), next |-> TokenAt(cur)]
  <2>1. c > 0 /\ c <= Len(tokens)
    BY <1>2, <1>3, <1>7, SMT
  <2> QED  BY <1>4, <1>5, <1>7, <2>1
<1>8. CASE Previous(c) # NoToken /\ at' = "crash" /\ UNCHANGED <<error_reported, diag>>
  BY <1>4, <1>5, <1>8
<1> QED  BY <1>6, <1>7, <1>8 DEF Diagnose

(* Where a step leaves the cursor, if each outcome is counted.               *)
LEMMA WayMoves ==
  ASSUME Inv, taken' \in Seq(Nat \ {0}), made' \in [Counters -> Nat],
         NEW dt \in Nat, NEW da \in Nat, NEW dr \in Nat, NEW db \in Nat,
         cur' = cur + dt + da + 2 * dr + db,
         Len(taken') = Len(taken) + dt,
         made'["accepted"] = made["accepted"] + da,
         made'["refused"] = made["refused"] + dr,
         made'["ended"] = made["ended"],
         made'["bumped"] = made["bumped"] + db
  PROVE  CursorIsAccountedFor'
<1> DEFINE t == Len(taken)          a == made["accepted"]  r == made["refused"]
           e == made["ended"]       b == made["bumped"]
<1>1. cur = t + a + 2 * r + e + b /\ cur \in Nat
  BY DEF Inv, CursorInv, CursorIsAccountedFor, TypeOK
<1>2. t \in Nat /\ a \in Nat /\ r \in Nat /\ e \in Nat /\ b \in Nat
  BY DEF Inv, CursorInv, TypeOK, Counters
<1>3. /\ Len(taken') = t + dt /\ made'["accepted"] = a + da /\ made'["refused"] = r + dr
      /\ made'["ended"] = e /\ made'["bumped"] = b + db
  OBVIOUS
<1> HIDE DEF t, a, r, e, b
<1>4. cur + dt + da + 2 * dr + db = (t + dt) + (a + da) + 2 * (r + dr) + e + (b + db)
  BY <1>1, <1>2, SMT
<1>5. cur' = (t + dt) + (a + da) + 2 * (r + dr) + e + (b + db)
  BY <1>4
<1> QED  BY <1>3, <1>5 DEF CursorIsAccountedFor

(* An answer is sound if it has no last token, unless the call only looks.   *)
Lookers == {"ps_peek", "ps_peek_next", "ps_prev", "ps_get"}
LEMMA AnswerIs ==
  ASSUME TypeOK, tokens' = tokens, NEW call, NEW wanted \in Kinds \cup {NoKind},
         NEW got \in TokenNumbers, NEW yes \in Answers,
         answer' = Answer(call, wanted, got, yes),
         call \in Lookers \/ got < Len(tokens) \/ got = NoToken
  PROVE  AnswerFine'
<1>1. /\ answer'.call = call /\ answer'.wanted = wanted
      /\ answer'.got = got /\ answer'.yes = yes
  BY DEF Answer
<1> QED  BY <1>1 DEF AnswerFine, EndIsOnlySeen, Lookers, TokenNumbers

LEMMA NoTokenIsNumber ==
  ASSUME TypeOK
  PROVE  /\ NoToken \in TokenNumbers /\ NoKind \in Kinds \cup {NoKind}
         /\ "yes" \in Answers /\ "no" \in Answers
BY StreamFacts, SMT DEF NoToken, TokenNumbers, Answers

LEMMA PositiveStays ==
  ASSUME NEW n \in Nat, NEW m \in Nat, n <= m, n > 0 PROVE m > 0
BY SMT

LEMMA SameIsNotLess == ASSUME NEW n \in Nat PROVE n <= n
BY SMT

LEMMA LateStaysLate ==
  ASSUME NEW a \in Nat, NEW b \in Nat, NEW n \in Nat, a >= b PROVE a + n >= b
BY SMT

LEMMA OneMoves ==
  ASSUME NEW a \in Nat, NEW b \in Nat PROVE (a + b) + 1 = (a + 1) + b
BY SMT

LEMMA AddAssociates ==
  ASSUME NEW a \in Nat, NEW b \in Nat, NEW c \in Nat 
  PROVE  (a + b) + c = a + (b + c) /\ a + b \in Nat
BY SMT

(* A call that gives a diagnostic and takes no token.                       *)
LEMMA DiagnosisKeeps ==
  ASSUME Inv, tokens' = tokens, taken' = taken, cur' \in Nat, cur <= cur',
         CursorIsBounded', NEW what, NEW sound, NEW ended \in BOOLEAN,
         Diagnose(cur', what, sound, ended),
         what = "end of tokens" /\ cur' <= Len(tokens) =>
           TokenAt(cur) # NoToken /\ TokenAt(cur) < Len(tokens),
         leaked' \in Nat, made' \in [Counters -> Nat],
         CursorIsAccountedFor', NamesAreAccountedFor', AnswerFine'
  PROVE  Inv'
<1>0. TypeOK /\ cur \in Nat /\ Len(tokens) \in Nat
  BY StreamFacts DEF Inv, CursorInv, TypeOK
<1>1. cur' < U32
  <2>1. cur' <= Len(tokens) + MaxCur + 1
    BY DEF CursorIsBounded
  <2> QED  BY <1>0, <2>1, BoundedIsSmall
<1> DEFINE Placed == [what |-> what, place |-> Previous(cur'), next |-> TokenAt(cur)]
<1>2. /\ eof' \in BOOLEAN /\ error_reported' \in BOOLEAN
      /\ at' \in {"call", "panic", "crash"}
      /\ at' = "panic" => cur' = 0 \/ cur' > Len(tokens)
      /\ error_reported' => error_reported \/ cur' > 0
      /\ diag' = diag \/ (diag' = Placed /\ cur' <= Len(tokens))
  BY <1>0, <1>1, DiagnoseIs
<1>3. diag'.place \in TokenNumbers /\ diag'.next \in TokenNumbers
  <2>1. CASE diag' = diag
    BY <1>0, <2>1 DEF TypeOK
  <2>2. CASE diag' = Placed
    <3>1. Previous(cur') \in TokenNumbers /\ TokenAt(cur) \in TokenNumbers
      BY <1>0, <1>1, PreviousIs, TokenAtIs
    <3>2. diag'.place = Previous(cur') /\ diag'.next = TokenAt(cur)
      BY <2>2
    <3> QED  BY <3>1, <3>2
  <2> QED  BY <1>2, <2>1, <2>2
<1>4. TypeOK'
  BY <1>0, <1>2, <1>3 DEF TypeOK, AnswerFine, TokenNumbers
<1>5. TakenInOrder'
  BY TakenStays
<1>6. EndIsReportedTooEarly'
  <2>1. EndIsReportedTooEarly
    BY DEF Inv, EndIsNeverExpected
  <2>2. error_reported' => cur' > 0
    <3>1. error_reported => cur > 0
      BY <2>1 DEF EndIsReportedTooEarly
    <3>2. cur > 0 => cur' > 0
      BY <1>0, PositiveStays
    <3> QED  BY <1>2, <3>1, <3>2
  <2>3. diag'.what = "end of tokens" => diag'.next # NoToken /\ diag'.next < Len(tokens)
    <3>1. CASE diag' = diag
      BY <2>1, <3>1 DEF EndIsReportedTooEarly
    <3>2. CASE diag' = Placed /\ cur' <= Len(tokens)
      <4>1. diag'.what = what /\ diag'.next = TokenAt(cur)
        BY <3>2
      <4> QED  BY <3>2, <4>1
    <3> QED  BY <1>2, <3>1, <3>2
  <2> QED  BY <1>2, <2>2, <2>3 DEF EndIsReportedTooEarly
<1> QED
  BY <1>4, <1>5, <1>6 DEF Inv, CursorInv, EndIsNeverExpected, AnswerFine

-----------------------------------------------------------------------------
(* The calls.                                                               *)

(* ps_diag and ps_diag_expected.                                             *)
LEMMA DiagnosisInPlaceKeeps ==
  ASSUME Inv, UNCHANGED <<tokens, cur, taken, leaked, made>>, AnswerFine',
         NEW what, what # "end of tokens", NEW sound, NEW ended \in BOOLEAN,
         Diagnose(cur, what, sound, ended)
  PROVE  Inv'
<1>1. cur \in Nat /\ leaked \in Nat /\ made \in [Counters -> Nat]
  BY DEF Inv, CursorInv, TypeOK
<1>2. cur' = cur /\ cur <= cur' /\ leaked' \in Nat /\ made' \in [Counters -> Nat]
  BY <1>1, SameIsNotLess
<1>3. CursorIsBounded' /\ CursorIsAccountedFor' /\ NamesAreAccountedFor'
  BY DEF Inv, CursorInv, CursorIsBounded, CursorIsAccountedFor, NamesAreAccountedFor
<1>4. Diagnose(cur', what, sound, ended)
  BY <1>2
<1> QED  BY <1>1, <1>2, <1>3, <1>4, DiagnosisKeeps

LEMMA LookStep ==
  ASSUME Inv, NEW call \in Lookers, NEW k \in Nat, Look(call, k)
  PROVE  Inv'
<1>1. TypeOK
  BY DEF Inv, CursorInv
<1>2. TokenAt(k) \in TokenNumbers
  BY <1>1, TokenAtIs
<1>3. /\ UNCHANGED <<tokens, cur, error_reported, diag, taken, leaked, made>>
      /\ at' = "call" /\ eof' \in BOOLEAN
      /\ answer' = Answer(call, NoKind, TokenAt(k), "no")
  BY <1>1 DEF Look, SeesEnd, TypeOK
<1>4. AnswerFine'
  BY <1>1, <1>2, <1>3, AnswerIs, NoTokenIsNumber
<1> QED  BY <1>3, <1>4, LookKeeps

LEMMA CheckStep ==
  ASSUME Inv, NEW kind \in Kinds, ps_check(kind) PROVE Inv'
<1>1. TypeOK
  BY DEF Inv, CursorInv
<1>2. /\ UNCHANGED <<tokens, cur, error_reported, diag, taken, leaked, made>>
      /\ at' = "call" /\ eof' \in BOOLEAN
  BY <1>1 DEF ps_check, SeesEnd, TypeOK
<1>3. \E yes \in Answers : answer' = Answer("ps_check", kind, NoToken, yes)
  BY DEF ps_check, Answers
<1>4. AnswerFine'
  BY <1>1, <1>2, <1>3, AnswerIs, NoTokenIsNumber
<1> QED  BY <1>2, <1>4, LookKeeps

LEMMA ConsumeStep == ASSUME Inv, ps_consume PROVE Inv'
<1>1. TypeOK /\ cur \in Nat
  BY DEF Inv, CursorInv, TypeOK
<1>2. /\ Consumed(cur) \in TokenNumbers
      /\ Consumed(cur) < Len(tokens) \/ Consumed(cur) = NoToken
  BY <1>1, ConsumedIs
<1>3. AnswerFine'
  BY <1>1, <1>2, AnswerIs, NoTokenIsNumber DEF ps_consume
<1> QED  BY <1>3, ConsumeKeeps DEF ps_consume

LEMMA CheckAndConsumeStep ==
  ASSUME Inv, NEW kind \in Kinds, ps_check_and_consume(kind) PROVE Inv'
<1>1. TypeOK /\ cur \in Nat
  BY DEF Inv, CursorInv, TypeOK
<1>2. /\ Consumed(cur) \in TokenNumbers
      /\ Consumed(cur) < Len(tokens) \/ Consumed(cur) = NoToken
  BY <1>1, ConsumedIs
<1>3. /\ cur < MaxCur /\ at' = "call"
      /\ UNCHANGED <<tokens, error_reported, diag, leaked>>
  BY DEF ps_check_and_consume
<1>4. CASE Is(TokenAt(cur), kind)
  <2>1. Consume
        /\ answer' = Answer("ps_check_and_consume", kind, Consumed(cur), "no")
    BY <1>4 DEF ps_check_and_consume
  <2>2. AnswerFine'
    BY <1>1, <1>2, <1>3, <2>1, AnswerIs, NoTokenIsNumber
  <2> QED  BY <1>3, <2>1, <2>2, ConsumeKeeps
<1>5. CASE ~Is(TokenAt(cur), kind)
  <2>1. /\ SeesEnd(TokenAt(cur)) /\ UNCHANGED <<cur, taken, made>>
        /\ answer' = Answer("ps_check_and_consume", kind, NoToken, "no")
    BY <1>5 DEF ps_check_and_consume
  <2>2. AnswerFine'
    BY <1>1, <1>3, <2>1, AnswerIs, NoTokenIsNumber
  <2>3. eof' \in BOOLEAN
    BY <1>1, <2>1 DEF SeesEnd, TypeOK
  <2> QED  BY <1>3, <2>1, <2>2, <2>3, LookKeeps
<1> QED  BY <1>4, <1>5

LEMMA BumpStep == ASSUME Inv, ps_bump_error_count PROVE Inv'
<1>1. TypeOK /\ cur \in Nat /\ made \in [Counters -> Nat] /\ taken \in Seq(Nat \ {0})
  BY DEF Inv, CursorInv, TypeOK
<1>2. /\ cur < MaxCur /\ at' = "call" /\ cur' = cur + 1 /\ Count("bumped", 1)
      /\ UNCHANGED <<tokens, eof, error_reported, diag, taken, leaked>>
  BY DEF ps_bump_error_count
<1>3. "bumped" \in Counters
  BY DEF Counters
<1>4. /\ made' \in [Counters -> Nat] /\ made'["bumped"] = made["bumped"] + 1
      /\ \A d \in Counters : d # "bumped" => made'[d] = made[d]
  BY <1>1, <1>2, <1>3, CountIs
<1>5. AnswerFine'
  <2>1. \E yes \in Answers : answer' = Answer("ps_bump_error_count", NoKind, NoToken, yes)
    BY DEF ps_bump_error_count, Answers
  <2> QED  BY <1>1, <1>2, <2>1, AnswerIs, NoTokenIsNumber
<1>6. TypeOK'
  BY <1>1, <1>2, <1>4, <1>5 DEF TypeOK, AnswerFine, TokenNumbers
<1>7. CursorIsBounded'
  BY <1>1, <1>2, StreamFacts, SMT DEF CursorIsBounded
<1>8. CursorIsAccountedFor'
  <2>1. cur' = cur + 0 + 0 + 2 * 0 + 1 /\ Len(taken') = Len(taken) + 0
    BY <1>1, <1>2
  <2>2. /\ made'["accepted"] = made["accepted"] + 0
        /\ made'["refused"] = made["refused"] + 0
        /\ made'["ended"] = made["ended"]
    BY <1>1, <1>4 DEF Counters
  <2> QED  BY <1>1, <1>2, <1>4, <2>1, <2>2, WayMoves
<1>9. NamesAreAccountedFor'
  BY <1>2, <1>4 DEF Inv, CursorInv, NamesAreAccountedFor, Counters
<1>10. TakenInOrder'
  BY <1>1, <1>2, TakenStays
<1>11. EndIsReportedTooEarly'
  <2>1. EndIsReportedTooEarly
    BY DEF Inv, EndIsNeverExpected
  <2>2. cur' > 0
    BY <1>1, <1>2, SMT
  <2> QED  BY <1>2, <2>1, <2>2 DEF EndIsReportedTooEarly
<1> QED
  BY <1>5, <1>6, <1>7, <1>8, <1>9, <1>10, <1>11
  DEF Inv, CursorInv, EndIsNeverExpected, AnswerFine

LEMMA DiagStep == ASSUME Inv, ps_diag PROVE Inv'
<1>1. TypeOK /\ cur \in Nat
  BY DEF Inv, CursorInv, TypeOK
<1>2. /\ UNCHANGED <<tokens, cur, taken, leaked, made>>
      /\ Diagnose(cur, "given", TRUE, FALSE)
      /\ answer' = Answer("ps_diag", NoKind, NoToken, "no")
  BY DEF ps_diag
<1>3. AnswerFine'
  BY <1>1, <1>2, AnswerIs, NoTokenIsNumber
<1> QED  BY <1>1, <1>2, <1>3, DiagnosisInPlaceKeeps

LEMMA DiagExpectedStep == ASSUME Inv, ps_diag_expected PROVE Inv'
<1>1. TypeOK /\ cur \in Nat
  BY DEF Inv, CursorInv, TypeOK
<1> DEFINE ended == TokenAt(cur) = NoToken
<1>2. /\ UNCHANGED <<tokens, cur, taken, leaked, made>>
      /\ Diagnose(cur, "expected", ended, ended)
      /\ answer' = Answer("ps_diag_expected", NoKind, NoToken, "no")
  BY DEF ps_diag_expected
<1>3. AnswerFine'
  BY <1>1, <1>2, AnswerIs, NoTokenIsNumber
<1>4. ended \in BOOLEAN
  OBVIOUS
<1> HIDE DEF ended
<1> QED  BY <1>1, <1>2, <1>3, <1>4, DiagnosisInPlaceKeeps

(* A token that an expectation finds wrong: the name of it is lost.          *)
LEMMA RefusedKeeps ==
  ASSUME Inv, UNCHANGED <<tokens, cur, taken>>, AnswerFine',
         NEW what, what # "end of tokens", NEW names \in Nat, Refused(what, names)
  PROVE  Inv'
<1>1. /\ TypeOK /\ cur \in Nat /\ leaked \in Nat /\ made \in [Counters -> Nat]
      /\ taken \in Seq(Nat \ {0})
  BY DEF Inv, CursorInv, TypeOK
<1> DEFINE ended == TokenAt(cur) = NoToken
<1>2. /\ Diagnose(cur, what, FALSE, ended) /\ leaked' = leaked + names
      /\ Count("mismatched", names)
  BY DEF Refused
<1>3. "mismatched" \in Counters
  BY DEF Counters
<1>4. /\ made' \in [Counters -> Nat] /\ made'["mismatched"] = made["mismatched"] + names
      /\ \A d \in Counters : d # "mismatched" => made'[d] = made[d]
  BY <1>1, <1>2, <1>3, CountIs
<1>5. CursorIsAccountedFor'
  BY <1>1, <1>4 DEF Inv, CursorInv, CursorIsAccountedFor, Counters
<1>6. leaked' \in Nat /\ NamesAreAccountedFor'
  <2>1. leaked = made["accepted"] + made["mismatched"]
    BY DEF Inv, CursorInv, NamesAreAccountedFor
  <2>2. made'["accepted"] = made["accepted"] /\ made["accepted"] \in Nat
        /\ made["mismatched"] \in Nat
    BY <1>1, <1>4 DEF Counters
  <2>3. leaked + names = made["accepted"] + (made["mismatched"] + names)
    <3>1. (made["accepted"] + made["mismatched"]) + names
            = made["accepted"] + (made["mismatched"] + names)
      BY <2>2, AddAssociates
    <3> QED  BY <2>1, <3>1
  <2>4. leaked' = made'["accepted"] + made'["mismatched"]
    BY <1>2, <1>4, <2>2, <2>3
  <2>5. leaked' \in Nat
    BY <1>1, <1>2, AddAssociates
  <2> QED  BY <2>4, <2>5 DEF NamesAreAccountedFor
<1>7. cur' = cur /\ cur <= cur' /\ CursorIsBounded' /\ ended \in BOOLEAN
  BY <1>1, SameIsNotLess DEF Inv, CursorInv, CursorIsBounded
<1>8. Diagnose(cur', what, FALSE, ended)
  BY <1>2, <1>7
<1> HIDE DEF ended
<1> QED  BY <1>1, <1>4, <1>5, <1>6, <1>7, <1>8, DiagnosisKeeps

LEMMA ExpectPeekedStep ==
  ASSUME Inv, NEW call, NEW kind \in Kinds, NEW times \in Nat,
         ExpectPeeked(call, kind, times)
  PROVE  Inv'
<1> DEFINE t == TokenAt(cur)
<1>1. TypeOK /\ cur \in Nat /\ t \in TokenNumbers
  BY TokenAtIs DEF Inv, CursorInv, TypeOK
<1>2. UNCHANGED <<tokens, cur, taken>> /\ at = "call"
  BY DEF ExpectPeeked
<1>3. CASE Refused("no token", 0) /\ answer' = Answer(call, kind, NoToken, "no")
  <2>1. AnswerFine'
    BY <1>1, <1>2, <1>3, AnswerIs, NoTokenIsNumber
  <2> QED  BY <1>2, <1>3, <2>1, RefusedKeeps
<1>4. CASE Refused("found another", times) /\ answer' = Answer(call, kind, NoToken, "no")
  <2>1. AnswerFine'
    BY <1>1, <1>2, <1>4, AnswerIs, NoTokenIsNumber
  <2> QED  BY <1>2, <1>4, <2>1, RefusedKeeps
<1>5. CASE /\ ~Is(t, "EOF") /\ Is(t, kind)
           /\ answer' = Answer(call, kind, t, "yes")
           /\ UNCHANGED <<eof, at, error_reported, diag, leaked, made>>
  <2>1. t # NoToken /\ tokens[t] # "EOF"
    BY <1>5 DEF Is
  <2>2. t < Len(tokens)
    <3>1. t \in 0 .. Len(tokens) /\ t # 0 /\ Len(tokens) \in Nat
      BY <1>1, <2>1, StreamFacts DEF TokenNumbers, NoToken
    <3>2. t # Len(tokens)
      <4>1. Len(tokens) > 0 => tokens[Len(tokens)] = "EOF"
        BY <1>1, StreamFacts
      <4>2. t = Len(tokens) => Len(tokens) > 0
        BY <3>1, SMT
      <4> QED  BY <2>1, <4>1, <4>2
    <3> HIDE DEF t
    <3> QED  BY <3>1, <3>2, SMT
  <2>3. AnswerFine'
    BY <1>1, <1>2, <1>5, <2>2, AnswerIs, NoTokenIsNumber
  <2>4. eof' \in BOOLEAN /\ at' \in {"call", "newlines"}
    BY <1>1, <1>2, <1>5 DEF TypeOK
  <2> QED  BY <1>2, <1>5, <2>3, <2>4, LookKeeps
<1> QED  BY <1>3, <1>4, <1>5 DEF ExpectPeeked

LEMMA BeginNewlinesStep == ASSUME Inv, BeginNewlines PROVE Inv'
<1>1. TypeOK
  BY DEF Inv, CursorInv
<1>2. /\ UNCHANGED <<tokens, cur, error_reported, diag, taken, leaked, made>>
      /\ at' = "newlines" /\ eof' \in BOOLEAN
      /\ answer' = Answer("call of ps_consume_newlines", NoKind, NoToken, "no")
  BY <1>1 DEF BeginNewlines, TypeOK
<1>3. AnswerFine'
  BY <1>1, <1>2, AnswerIs, NoTokenIsNumber
<1> QED  BY <1>2, <1>3, LookKeeps

LEMMA EndNewlinesStep == ASSUME Inv, EndNewlines PROVE Inv'
<1>1. TypeOK
  BY DEF Inv, CursorInv
<1>2. /\ UNCHANGED <<tokens, cur, error_reported, diag, taken, leaked, made>>
      /\ at' = "call" /\ eof' \in BOOLEAN
      /\ answer' = Answer("ps_consume_newlines", NoKind, NoToken, "no")
  BY <1>1 DEF EndNewlines, SeesEnd, TypeOK
<1>3. AnswerFine'
  BY <1>1, <1>2, AnswerIs, NoTokenIsNumber
<1> QED  BY <1>2, <1>3, LookKeeps

LEMMA SkipNewlineStep == ASSUME Inv, SkipNewline PROVE Inv'
<1>1. TypeOK /\ cur \in Nat /\ AnswerFine
  BY DEF Inv, CursorInv, TypeOK, AnswerFine, EndIsNeverExpected
<1>2. /\ UNCHANGED <<tokens, error_reported, answer, diag, leaked>>
      /\ at' = "newlines" /\ Consume /\ Is(TokenAt(cur), "NEWLINE")
  BY DEF SkipNewline
<1>3. AnswerFine'
  BY <1>1, <1>2 DEF AnswerFine, EndIsOnlySeen, TokenNumbers
<1>4. cur < Len(tokens)
  <2>1. TokenAt(cur) # NoToken
    BY <1>2 DEF Is
  <2> QED  BY <2>1 DEF TokenAt
<1> QED  BY <1>2, <1>3, <1>4, ConsumeKeeps

(* Both outcomes pass over two tokens; the first of them is taken, or none.  *)
LEMMA AcceptedKeeps ==
  ASSUME Inv, NEW kind \in Kinds, UNCHANGED <<tokens, eof, error_reported, diag>>,
         at' = "call", cur < MaxCur, cur' = cur + 2, Consumed(cur + 1) # NoToken,
         taken' = Append(taken, Consumed(cur)), leaked' = leaked + 1,
         Count("accepted", 1),
         answer' = Answer("ps_consume_and_expect", kind, Consumed(cur), "yes")
  PROVE  Inv'
<1>1. /\ TypeOK /\ cur \in Nat /\ leaked \in Nat /\ made \in [Counters -> Nat]
      /\ taken \in Seq(Nat \ {0})
  BY DEF Inv, CursorInv, TypeOK
<1>2. cur + 1 \in Nat /\ Len(tokens) \in Nat
  BY <1>1, StreamFacts
<1>3. cur + 1 < Len(tokens) /\ Consumed(cur) = cur + 1 /\ cur + 1 \in Nat \ {0}
  <2>1. ~ ((cur + 1) + 1 >= Len(tokens))
    BY <1>1, <1>2, ConsumedIs
  <2>2. cur + 1 < Len(tokens)
    BY <1>1, <1>2, <2>1, SMT
  <2>3. ~ (cur + 1 >= Len(tokens))
    BY <1>2, <2>2, SMT
  <2>4. Consumed(cur) # NoToken
    BY <1>1, <2>3, ConsumedIs
  <2> QED  BY <1>1, <2>2, <2>4, ConsumedIs
<1>4. "accepted" \in Counters
  BY DEF Counters
<1>5. /\ made' \in [Counters -> Nat] /\ made'["accepted"] = made["accepted"] + 1
      /\ \A d \in Counters : d # "accepted" => made'[d] = made[d]
  BY <1>1, <1>4, CountIs
<1>6. taken' \in Seq(Nat \ {0}) /\ Len(taken') = Len(taken) + 1
  BY <1>1, <1>3
<1>7. AnswerFine'
  <2>1. Consumed(cur) \in TokenNumbers /\ Consumed(cur) < Len(tokens)
    BY <1>1, <1>3, ConsumedIs
  <2> QED  BY <1>1, <2>1, AnswerIs, NoTokenIsNumber
<1>8. cur' \in Nat /\ cur + 1 <= cur' /\ cur' > 0 /\ leaked' \in Nat
  BY <1>1, SMT
<1>9. TypeOK'
  BY <1>1, <1>5, <1>6, <1>7, <1>8 DEF TypeOK, AnswerFine, TokenNumbers
<1>10. CursorIsBounded'
  BY <1>1, <1>2, StreamFacts, SMT DEF CursorIsBounded
<1>11. CursorIsAccountedFor'
  <2>1. cur' = cur + 1 + 1 + 2 * 0 + 0
    BY <1>1, SMT
  <2>2. /\ made'["refused"] = made["refused"] + 0 /\ made'["bumped"] = made["bumped"] + 0
        /\ made'["ended"] = made["ended"]
    BY <1>1, <1>5 DEF Counters
  <2> QED  BY <1>5, <1>6, <2>1, <2>2, WayMoves
<1>12. NamesAreAccountedFor'
  <2>1. leaked = made["accepted"] + made["mismatched"]
    BY DEF Inv, CursorInv, NamesAreAccountedFor
  <2>2. made'["mismatched"] = made["mismatched"] /\ made["accepted"] \in Nat
        /\ made["mismatched"] \in Nat
    BY <1>1, <1>5 DEF Counters
  <2>3. (made["accepted"] + made["mismatched"]) + 1
          = (made["accepted"] + 1) + made["mismatched"]
    BY <2>2, OneMoves
  <2> QED  BY <1>5, <2>1, <2>2, <2>3 DEF NamesAreAccountedFor
<1>13. TakenInOrder'
  BY <1>3, <1>8, TakenGrows
<1>14. EndIsReportedTooEarly'
  BY <1>8 DEF Inv, EndIsNeverExpected, EndIsReportedTooEarly
<1> QED
  BY <1>7, <1>9, <1>10, <1>11, <1>12, <1>13, <1>14
  DEF Inv, CursorInv, EndIsNeverExpected, AnswerFine

(* Where an expectation that is not met leaves the cursor: two tokens on, and *)
(* if that is not beyond the end, the token it stood at was not the last.    *)
LEMMA NotAcceptedMoves ==
  ASSUME Inv, UNCHANGED <<tokens, taken, leaked>>,
         cur < MaxCur, cur' = cur + 2, Count("refused", 1)
  PROVE  /\ cur' \in Nat /\ cur <= cur' /\ leaked' \in Nat /\ made' \in [Counters -> Nat]
         /\ CursorIsBounded' /\ CursorIsAccountedFor' /\ NamesAreAccountedFor'
         /\ cur' <= Len(tokens) => TokenAt(cur) # NoToken /\ TokenAt(cur) < Len(tokens)
<1>1. /\ TypeOK /\ cur \in Nat /\ leaked \in Nat /\ made \in [Counters -> Nat]
      /\ taken \in Seq(Nat \ {0})
  BY DEF Inv, CursorInv, TypeOK
<1>2. "refused" \in Counters
  BY DEF Counters
<1>3. /\ made' \in [Counters -> Nat] /\ made'["refused"] = made["refused"] + 1
      /\ \A d \in Counters : d # "refused" => made'[d] = made[d]
  BY <1>1, <1>2, CountIs
<1>4. cur' \in Nat /\ cur <= cur' /\ Len(tokens) \in Nat /\ cur + 1 \in Nat
  BY <1>1, StreamFacts, SMT
<1>5. CursorIsBounded'
  BY <1>1, <1>4, StreamFacts, SMT DEF CursorIsBounded
<1>6. CursorIsAccountedFor'
  <2>1. cur' = cur + 0 + 0 + 2 * 1 + 0 /\ Len(taken') = Len(taken) + 0
    BY <1>1
  <2>2. /\ made'["accepted"] = made["accepted"] + 0
        /\ made'["bumped"] = made["bumped"] + 0
        /\ made'["ended"] = made["ended"]
    BY <1>1, <1>3 DEF Counters
  <2> QED  BY <1>1, <1>3, <2>1, <2>2, WayMoves
<1>7. NamesAreAccountedFor' /\ leaked' \in Nat
  BY <1>1, <1>3 DEF Inv, CursorInv, NamesAreAccountedFor, Counters
<1>8. ASSUME cur' <= Len(tokens)
      PROVE  TokenAt(cur) # NoToken /\ TokenAt(cur) < Len(tokens)
  <2>1. cur < Len(tokens) /\ cur + 1 < Len(tokens) /\ ~ (cur >= Len(tokens))
    BY <1>1, <1>4, <1>8, SMT
  <2>2. TokenAt(cur) = cur + 1 /\ TokenAt(cur) # NoToken
    BY <1>1, <2>1, TokenAtIs
  <2> QED  BY <2>1, <2>2
<1> QED  BY <1>3, <1>4, <1>5, <1>6, <1>7, <1>8

(* "Reached the end of the token stream" is placed only if exactly two tokens *)
(* were left: with fewer, ps_get_pos finds no token before the cursor.        *)
LEMMA NotAcceptedKeeps ==
  ASSUME Inv, NEW kind \in Kinds, UNCHANGED <<tokens, taken, leaked>>,
         cur < MaxCur, cur' = cur + 2, Count("refused", 1), NEW what,
         NEW ended \in BOOLEAN, Diagnose(cur + 2, what, TRUE, ended),
         answer' = Answer("ps_consume_and_expect", kind, NoToken, "no")
  PROVE  Inv'
<1>1. /\ cur' \in Nat /\ cur <= cur' /\ leaked' \in Nat /\ made' \in [Counters -> Nat]
      /\ CursorIsBounded' /\ CursorIsAccountedFor' /\ NamesAreAccountedFor'
      /\ cur' <= Len(tokens) => TokenAt(cur) # NoToken /\ TokenAt(cur) < Len(tokens)
  BY NotAcceptedMoves
<1>2. AnswerFine'
  BY AnswerIs, NoTokenIsNumber DEF Inv, CursorInv
<1>3. Diagnose(cur', what, TRUE, ended)
  OBVIOUS
<1> QED  BY <1>1, <1>2, <1>3, DiagnosisKeeps

LEMMA ConsumeAndExpectStep ==
  ASSUME Inv, NEW kind \in Kinds, ps_consume_and_expect(kind) PROVE Inv'
<1> DEFINE ended == Consumed(cur + 1) = NoToken
           what == IF ended THEN "end of tokens" ELSE "found another"
<1>1. UNCHANGED tokens /\ at = "call" /\ cur < MaxCur /\ cur' = cur + 2
  BY DEF ps_consume_and_expect
<1>2. CASE /\ ~ended /\ taken' = Append(taken, Consumed(cur))
           /\ answer' = Answer("ps_consume_and_expect", kind, Consumed(cur), "yes")
           /\ leaked' = leaked + 1 /\ Count("accepted", 1)
           /\ UNCHANGED <<eof, at, error_reported, diag>>
  BY <1>1, <1>2, AcceptedKeeps
<1>3. CASE /\ Diagnose(cur + 2, what, TRUE, ended)
           /\ answer' = Answer("ps_consume_and_expect", kind, NoToken, "no")
           /\ Count("refused", 1) /\ UNCHANGED <<taken, leaked>>
  <2>1. ended \in BOOLEAN
    OBVIOUS
  <2> HIDE DEF what, ended
  <2> QED  BY <1>1, <1>3, <2>1, NotAcceptedKeeps
<1> QED  BY <1>2, <1>3 DEF ps_consume_and_expect

-----------------------------------------------------------------------------
(* The invariant is one.                                                     *)

LEMMA InvInit == Init => Inv
<1> SUFFICES ASSUME Init PROVE Inv
  OBVIOUS
<1>1. /\ tokens \in Streams /\ cur = 0 /\ eof = FALSE /\ error_reported = FALSE
      /\ at = "call" /\ taken = <<>> /\ leaked = 0
      /\ answer = Answer("ps_new", NoKind, NoToken, "no") /\ diag = NoDiag
      /\ made = [c \in Counters |-> 0]
  BY DEF Init
<1>2. Len(tokens) \in Nat /\ MaxCur \in Nat
  BY <1>1, CursorAssumption
<1>3. NoToken \in TokenNumbers
  BY <1>2, SMT DEF NoToken, TokenNumbers
<1>4. answer.wanted = NoKind /\ answer.got = NoToken /\ answer.yes = "no"
  BY <1>1 DEF Answer
<1>5. diag.what = "none" /\ diag.place = NoToken /\ diag.next = NoToken
  BY <1>1 DEF NoDiag
<1>6. made \in [Counters -> Nat] /\ \A c \in Counters : made[c] = 0
  BY <1>1
<1>7. TypeOK
  <2>1. taken \in Seq(Nat \ {0}) /\ cur \in Nat /\ leaked \in Nat
    BY <1>1
  <2>2. answer.wanted \in Kinds \cup {NoKind} /\ answer.yes \in Answers
    BY <1>4 DEF Answers
  <2>3. eof \in BOOLEAN /\ error_reported \in BOOLEAN
    BY <1>1
  <2> QED  BY <1>1, <1>3, <1>4, <1>5, <1>6, <2>1, <2>2, <2>3 DEF TypeOK
<1>8. CursorIsBounded
  BY <1>1, <1>2, SMT DEF CursorIsBounded
<1>9. CursorIsAccountedFor /\ NamesAreAccountedFor
  BY <1>1, <1>6 DEF CursorIsAccountedFor, NamesAreAccountedFor, Counters
<1>10. TakenInOrder
  BY <1>1 DEF TakenInOrder
<1>11. EndIsNeverExpected
  BY <1>1, <1>4, <1>5 DEF EndIsNeverExpected, EndIsOnlySeen, EndIsReportedTooEarly
<1> QED  BY <1>7, <1>8, <1>9, <1>10, <1>11 DEF Inv, CursorInv

LEMMA InvStep == Inv /\ [Next]_cursorVars => Inv'
<1> SUFFICES ASSUME Inv, [Next]_cursorVars PROVE Inv'
  OBVIOUS
<1>0. TypeOK /\ cur \in Nat /\ cur + 1 \in Nat /\ MaxCur \in Nat /\ U32 \in Nat
      /\ Len(tokens) + MaxCur + 2 < U32 /\ Len(tokens) \in Nat
  BY StreamFacts, SMT DEF Inv, CursorInv, TypeOK
<1>1. CASE ps_peek
  BY <1>0, <1>1, LookStep DEF ps_peek, Lookers
<1>2. CASE ps_peek_next
  BY <1>0, <1>2, LookStep DEF ps_peek_next, Lookers
<1>3. CASE ps_prev
  <2>1. (cur - 1) % U32 \in Nat
    <3>1. U32 > 0 /\ cur - 1 \in Int
      BY <1>0, SMT
    <3> QED  BY <1>0, <3>1, ModIsNatural
  <2> QED  BY <1>3, <2>1, LookStep DEF ps_prev, Lookers
<1>4. CASE ps_get
  <2>1. PICK k \in 0 .. MaxCur : Look("ps_get", k)
    BY <1>4 DEF ps_get
  <2>2. k \in Nat
    BY <1>0
  <2> QED  BY <2>1, <2>2, LookStep DEF Lookers
<1>5. CASE ps_consume
  BY <1>5, ConsumeStep
<1>6. CASE ps_diag
  BY <1>6, DiagStep
<1>7. CASE ps_diag_expected
  BY <1>7, DiagExpectedStep
<1>8. CASE ps_bump_error_count
  BY <1>8, BumpStep
<1>9. CASE ps_ident
  BY <1>9, ExpectPeekedStep, CursorAssumption DEF ps_ident
<1>10. ASSUME NEW kind \in Kinds, ps_check(kind) PROVE Inv'
  BY <1>10, CheckStep
<1>11. ASSUME NEW kind \in Kinds, ps_check_and_consume(kind) PROVE Inv'
  BY <1>11, CheckAndConsumeStep
<1>12. ASSUME NEW kind \in Kinds, ps_peek_and_expect(kind) PROVE Inv'
  BY <1>12, ExpectPeekedStep DEF ps_peek_and_expect
<1>13. ASSUME NEW kind \in Kinds, ps_consume_and_expect(kind) PROVE Inv'
  BY <1>13, ConsumeAndExpectStep
<1>14. CASE BeginNewlines
  BY <1>14, BeginNewlinesStep
<1>15. CASE SkipNewline
  BY <1>15, SkipNewlineStep
<1>16. CASE EndNewlines
  BY <1>16, EndNewlinesStep
<1>17. CASE UNCHANGED cursorVars
  <2>1. UNCHANGED <<tokens, cur, leaked, eof, error_reported, at, answer, diag, taken,
                    made>>
    BY <1>17 DEF cursorVars
  <2>2. CursorInv'
    BY <2>1
    DEF Inv, CursorInv, TypeOK, CursorIsBounded, CursorIsAccountedFor,
        NamesAreAccountedFor, TokenNumbers
  <2>3. TakenInOrder'
    BY <2>1 DEF Inv, TakenInOrder
  <2>4. EndIsNeverExpected'
    BY <2>1 DEF Inv, EndIsNeverExpected, EndIsOnlySeen, EndIsReportedTooEarly, TokenNumbers
  <2> QED BY <2>2, <2>3, <2>4 DEF Inv
<1> QED
  BY <1>1, <1>2, <1>3, <1>4, <1>5, <1>6, <1>7, <1>8, <1>9, <1>10, <1>11, <1>12, <1>13,
     <1>14, <1>15, <1>16, <1>17 DEF Next, Newlines

(* The invariant holds of every sequence of calls to the token cursor: of     *)
(* ps_peek, ps_consume and all that is built of them (parser.c:54-221).       *)
THEOREM InvHolds == Spec => []Inv
BY InvInit, InvStep, PTL DEF Spec

(* No call loses a token or a string but as counted: the cursor is the sum of *)
(* what was handed out and what each outcome passes over, whatever the calls. *)
THEOREM CursorInvariant == Spec => []CursorInv
<1>1. Inv => CursorInv
  BY DEF Inv
<1> QED  BY <1>1, InvHolds, PTL

(* Tokens are taken in the order of the text, none twice, and EOF never.      *)
THEOREM TokensAreTakenInOrder == Spec => []TakenInOrder
<1>1. Inv => TakenInOrder
  BY DEF Inv
<1> QED  BY <1>1, InvHolds, PTL

(* EOF is got only by looking, and "end of the token stream" is reported only *)
(* where a token was left.                                                   *)
THEOREM EndIsNeverExpectedInvariant == Spec => []EndIsNeverExpected
<1>1. Inv => EndIsNeverExpected
  BY DEF Inv
<1> QED  BY <1>1, InvHolds, PTL

-----------------------------------------------------------------------------
(* What a look has shown.                                                    *)

(* The loop over newlines answers nothing before it ends.                     *)
LoopIsSilent == at = "newlines" => answer.call = "call of ps_consume_newlines"

LEMMA LoopIsSilentStep == Inv /\ LoopIsSilent /\ [Next]_cursorVars => LoopIsSilent'
<1> SUFFICES ASSUME Inv, LoopIsSilent, [Next]_cursorVars PROVE LoopIsSilent'
  OBVIOUS
<1>1. ASSUME NEW call, NEW k, Look(call, k) PROVE LoopIsSilent'
  BY <1>1 DEF LoopIsSilent, Look
<1>2. ASSUME NEW c, NEW what, NEW sound, NEW ended, Diagnose(c, what, sound, ended)
      PROVE  LoopIsSilent'
  BY <1>2 DEF LoopIsSilent, Diagnose
<1>3. ASSUME NEW call, NEW kind, NEW times, ExpectPeeked(call, kind, times)
      PROVE  LoopIsSilent'
  BY <1>2, <1>3 DEF LoopIsSilent, ExpectPeeked, Refused
<1>4. ASSUME NEW kind, ps_consume_and_expect(kind) PROVE LoopIsSilent'
  BY <1>2, <1>4 DEF LoopIsSilent, ps_consume_and_expect
<1>5. ASSUME NEW kind, ps_check(kind) \/ ps_check_and_consume(kind) PROVE LoopIsSilent'
  BY <1>5 DEF LoopIsSilent, ps_check, ps_check_and_consume
<1>6. CASE ps_consume \/ ps_bump_error_count \/ EndNewlines
  BY <1>6 DEF LoopIsSilent, ps_consume, ps_bump_error_count, EndNewlines
<1>7. CASE BeginNewlines
  BY <1>7 DEF LoopIsSilent, BeginNewlines, Answer
<1>8. CASE SkipNewline \/ UNCHANGED cursorVars
  BY <1>8 DEF LoopIsSilent, SkipNewline, cursorVars
<1> QED
  BY <1>1, <1>2, <1>3, <1>4, <1>5, <1>6, <1>7, <1>8
  DEF Next, Newlines, ps_peek, ps_peek_next, ps_prev, ps_get, ps_diag, ps_diag_expected,
      ps_ident, ps_peek_and_expect

(* What ps_check_and_consume returns, step by step.                          *)
CheckedStep ==
  answer'.call = "ps_check_and_consume" =>
    LET unread == TokenAt(cur)
    IN  IF Is(unread, answer'.wanted) /\ unread < Len(tokens)
        THEN answer'.got = unread /\ taken' = Append(taken, unread)
        ELSE answer'.got = NoToken /\ taken' = taken

LEMMA CheckAndConsumeChecks ==
  ASSUME Inv, NEW kind \in Kinds, ps_check_and_consume(kind) PROVE CheckedStep
<1> DEFINE t == TokenAt(cur)
<1>1. TypeOK /\ cur \in Nat /\ Len(tokens) \in Nat
  BY StreamFacts DEF Inv, CursorInv, TypeOK
<1>2. /\ t \in TokenNumbers /\ (cur < Len(tokens) => t = cur + 1)
      /\ (t = NoToken <=> cur >= Len(tokens))
  BY <1>1, TokenAtIs
<1>3. /\ Consumed(cur) # NoToken => Consumed(cur) = cur + 1
      /\ Consumed(cur) = NoToken <=> cur + 1 >= Len(tokens)
  BY <1>1, ConsumedIs
<1>4. CASE Is(t, kind)
  <2>1. Consume /\ answer' = Answer("ps_check_and_consume", kind, Consumed(cur), "no")
    BY <1>4 DEF ps_check_and_consume
  <2>2. answer'.wanted = kind /\ answer'.got = Consumed(cur)
    BY <2>1 DEF Answer
  <2>3. t = cur + 1
    <3>1. t # NoToken
      BY <1>4 DEF Is
    <3> QED  BY <1>1, <1>2, <3>1, SMT
  <2>4. CASE Consumed(cur) = NoToken
    <3>1. ~ (t < Len(tokens))
      BY <1>1, <1>3, <2>3, <2>4, SMT
    <3>2. taken' = taken
      BY <2>1, <2>4 DEF Consume
    <3> QED  BY <2>2, <2>4, <3>1, <3>2 DEF CheckedStep
  <2>5. CASE Consumed(cur) # NoToken
    <3>1. t < Len(tokens) /\ Consumed(cur) = t
      BY <1>1, <1>3, <2>3, <2>5, SMT
    <3>2. taken' = Append(taken, Consumed(cur))
      BY <2>1, <2>5 DEF Consume
    <3> QED  BY <1>4, <2>2, <3>1, <3>2 DEF CheckedStep
  <2> QED  BY <2>4, <2>5
<1>5. CASE ~Is(t, kind)
  <2>1. /\ answer' = Answer("ps_check_and_consume", kind, NoToken, "no") /\ taken' = taken
    BY <1>5 DEF ps_check_and_consume
  <2>2. answer'.wanted = kind /\ answer'.got = NoToken
    BY <2>1 DEF Answer
  <2> QED  BY <1>5, <2>1, <2>2 DEF CheckedStep
<1> QED  BY <1>4, <1>5

LEMMA CheckedHolds == Inv /\ LoopIsSilent /\ [Next]_cursorVars =>
                        CheckedStep \/ UNCHANGED cursorVars
<1> SUFFICES ASSUME Inv, LoopIsSilent, Next PROVE CheckedStep
  BY DEF CheckedStep
<1>1. ASSUME NEW kind \in Kinds, ps_check_and_consume(kind) PROVE CheckedStep
  BY <1>1, CheckAndConsumeChecks
<1>2. ASSUME NEW call, NEW kind, NEW got, NEW yes, answer' = Answer(call, kind, got, yes),
             call # "ps_check_and_consume"
      PROVE  CheckedStep
  BY <1>2 DEF CheckedStep, Answer
<1>3. ASSUME NEW call, NEW kind, NEW times, ExpectPeeked(call, kind, times),
             call # "ps_check_and_consume"
      PROVE  CheckedStep
  BY <1>2, <1>3 DEF ExpectPeeked
<1>4. ASSUME NEW kind, ps_consume_and_expect(kind) PROVE CheckedStep
  BY <1>2, <1>4 DEF ps_consume_and_expect
<1>5. ASSUME NEW kind, ps_check(kind) PROVE CheckedStep
  BY <1>2, <1>5 DEF ps_check
<1>6. CASE ps_peek \/ ps_peek_next \/ ps_prev \/ ps_get
  BY <1>2, <1>6 DEF ps_peek, ps_peek_next, ps_prev, ps_get, Look
<1>7. CASE ps_consume \/ ps_diag \/ ps_diag_expected \/ ps_bump_error_count
  BY <1>2, <1>7 DEF ps_consume, ps_diag, ps_diag_expected, ps_bump_error_count
<1>8. CASE BeginNewlines \/ EndNewlines
  BY <1>2, <1>8 DEF BeginNewlines, EndNewlines
<1>9. CASE SkipNewline
  BY <1>9 DEF SkipNewline, LoopIsSilent, CheckedStep
<1> QED
  BY <1>1, <1>3, <1>4, <1>5, <1>6, <1>7, <1>8, <1>9
  DEF Next, Newlines, ps_ident, ps_peek_and_expect

(* What eof says after a call, of a caller that looks at the cursor only.     *)
EofStep ==
  at' = "call" /\ made'["bumped"] = 0
       /\ answer'.call \notin {"ps_peek_next", "ps_prev", "ps_get"}
       /\ (eof => cur >= Len(tokens)) =>
     /\ eof' => cur' >= Len(tokens)
     /\ cur' # cur /\ cur' >= Len(tokens) => eof'

(* A call that looks at the cursor and stays there.                           *)
LEMMA StayingSeesEnd ==
  ASSUME Inv, cur' = cur, eof' = eof \/ eof' = (eof \/ TokenAt(cur) = NoToken)
  PROVE  EofStep
<1>1. TokenAt(cur) = NoToken <=> cur >= Len(tokens)
  BY TokenAtIs DEF Inv, CursorInv, TypeOK
<1> QED  BY <1>1 DEF EofStep

LEMMA MovingSeesEnd ==
  ASSUME Inv, NEW n \in Nat, cur' = cur + n,
         eof' = (eof \/ cur' >= Len(tokens))
  PROVE  EofStep
<1>1. cur \in Nat /\ Len(tokens) \in Nat
  BY StreamFacts DEF Inv, CursorInv, TypeOK
<1>2. cur >= Len(tokens) => cur' >= Len(tokens)
  BY <1>1, LateStaysLate
<1> QED  BY <1>2 DEF EofStep

LEMMA ConsumeSeesEnd == ASSUME Inv, Consume PROVE EofStep
<1>1. TypeOK /\ cur \in Nat /\ cur' = cur + 1
  BY DEF Inv, CursorInv, TypeOK, Consume
<1>2. Consumed(cur) = NoToken <=> cur' >= Len(tokens)
  BY <1>1, ConsumedIs
<1>3. eof' = (eof \/ cur' >= Len(tokens))
  BY <1>2 DEF Consume, SeesEnd
<1> QED  BY <1>1, <1>3, MovingSeesEnd

(* Either the diagnostic ends the process, or eof says what was seen.         *)
LEMMA DiagnosisSees ==
  ASSUME Inv, NEW c \in Nat, c <= Len(tokens) + MaxCur + 1, NEW what, NEW sound,
         NEW ended \in BOOLEAN, Diagnose(c, what, sound, ended), at' = "call"
  PROVE  eof' = (eof \/ ended)
<1>1. TypeOK
  BY DEF Inv, CursorInv
<1>2. c < U32
  BY <1>1, BoundedIsSmall
<1> QED  BY <1>1, <1>2, DiagnoseIs

LEMMA DiagnosisInPlaceSees ==
  ASSUME Inv, cur' = cur, NEW what, NEW sound,
         NEW ended \in {FALSE, TokenAt(cur) = NoToken}, Diagnose(cur, what, sound, ended)
  PROVE  EofStep
<1>1. cur \in Nat /\ cur <= Len(tokens) + MaxCur + 1
  BY DEF Inv, CursorInv, TypeOK, CursorIsBounded
<1>2. ended \in BOOLEAN
  OBVIOUS
<1>3. CASE at' = "call"
  <2>1. eof' = (eof \/ ended)
    BY <1>1, <1>2, <1>3, DiagnosisSees
  <2>2. eof \in BOOLEAN
    BY DEF Inv, CursorInv, TypeOK
  <2> QED  BY <2>1, <2>2, StayingSeesEnd
<1>4. CASE at' # "call"
  BY <1>4 DEF EofStep
<1> QED  BY <1>3, <1>4

LEMMA ExpectPeekedSees ==
  ASSUME Inv, NEW call, NEW kind, NEW times, ExpectPeeked(call, kind, times)
  PROVE  EofStep
<1> DEFINE ended == TokenAt(cur) = NoToken
<1>1. cur' = cur
  BY DEF ExpectPeeked
<1>2. CASE eof' = eof
  BY <1>1, <1>2, StayingSeesEnd
<1>3. ASSUME NEW what, NEW names, Refused(what, names) PROVE EofStep
  <2>1. Diagnose(cur, what, FALSE, ended) /\ ended \in {FALSE, TokenAt(cur) = NoToken}
    BY <1>3 DEF Refused
  <2> HIDE DEF ended
  <2> QED  BY <1>1, <2>1, DiagnosisInPlaceSees
<1> QED  BY <1>2, <1>3 DEF ExpectPeeked

LEMMA ConsumeAndExpectSees ==
  ASSUME Inv, NEW kind \in Kinds, ps_consume_and_expect(kind) PROVE EofStep
<1> DEFINE ended == Consumed(cur + 1) = NoToken
           what == IF ended THEN "end of tokens" ELSE "found another"
<1>1. /\ TypeOK /\ cur \in Nat /\ cur + 1 \in Nat /\ cur < MaxCur /\ cur' = cur + 2
      /\ Len(tokens) \in Nat /\ MaxCur \in Nat
  <2>1. cur < MaxCur /\ cur' = cur + 2
    BY DEF ps_consume_and_expect
  <2>2. TypeOK /\ cur \in Nat
    BY DEF Inv, CursorInv, TypeOK
  <2>3. cur + 1 \in Nat
    BY <2>2
  <2>4. Len(tokens) \in Nat /\ MaxCur \in Nat
    BY <2>2, StreamFacts
  <2> QED  BY <2>1, <2>2, <2>3, <2>4
<1>2. ended <=> cur' >= Len(tokens)
  <2>1. ended <=> (cur + 1) + 1 >= Len(tokens)
    BY <1>1, ConsumedIs
  <2>2. (cur + 1) + 1 = cur + 2
    BY <1>1, SMT
  <2> QED  BY <1>1, <2>1, <2>2
<1>3. eof \in BOOLEAN
  BY <1>1 DEF TypeOK
<1>4. CASE ~ended /\ eof' = eof
  <2>1. eof' = (eof \/ cur' >= Len(tokens))
    BY <1>2, <1>3, <1>4
  <2> QED  BY <1>1, <2>1, MovingSeesEnd
<1>5. CASE Diagnose(cur + 2, what, TRUE, ended)
  <2>1. cur + 2 \in Nat /\ cur + 2 <= Len(tokens) + MaxCur + 1
    BY <1>1, SMT
  <2>2. ended \in BOOLEAN
    OBVIOUS
  <2>3. CASE at' = "call"
    <3>1. eof' = (eof \/ ended)
      <4> HIDE DEF ended, what
      <4> QED  BY <1>5, <2>1, <2>2, <2>3, DiagnosisSees
    <3>2. eof' = (eof \/ cur' >= Len(tokens))
      BY <1>2, <3>1
    <3> QED  BY <1>1, <3>2, MovingSeesEnd
  <2>4. CASE at' # "call"
    BY <2>4 DEF EofStep
  <2> QED  BY <2>3, <2>4
<1> QED  BY <1>4, <1>5 DEF ps_consume_and_expect

LEMMA EofHolds == Inv /\ [Next]_cursorVars => EofStep \/ UNCHANGED cursorVars
<1> SUFFICES ASSUME Inv, Next PROVE EofStep
  BY DEF EofStep
<1>0. TypeOK /\ cur \in Nat /\ (TokenAt(cur) = NoToken <=> cur >= Len(tokens))
  BY TokenAtIs DEF Inv, CursorInv, TypeOK
<1>1. CASE ps_peek
  BY <1>1, StayingSeesEnd DEF ps_peek, Look, SeesEnd
<1>2. CASE ps_peek_next \/ ps_prev \/ ps_get
  BY <1>2 DEF EofStep, ps_peek_next, ps_prev, ps_get, Look, Answer
<1>3. CASE ps_consume
  BY <1>3, ConsumeSeesEnd DEF ps_consume
<1>4. CASE ps_diag
  BY <1>4, DiagnosisInPlaceSees DEF ps_diag
<1>5. CASE ps_diag_expected
  <2> DEFINE ended == TokenAt(cur) = NoToken
  <2>1. /\ Diagnose(cur, "expected", ended, ended) /\ cur' = cur
        /\ ended \in {FALSE, TokenAt(cur) = NoToken}
    BY <1>5 DEF ps_diag_expected
  <2> HIDE DEF ended
  <2> QED  BY <2>1, DiagnosisInPlaceSees
<1>6. CASE ps_bump_error_count
  <2>1. Count("bumped", 1) /\ "bumped" \in Counters
    BY <1>6 DEF ps_bump_error_count, Counters
  <2>2. made'["bumped"] = made["bumped"] + 1 /\ made["bumped"] \in Nat
    BY <1>0, <2>1, CountIs
  <2>3. made'["bumped"] # 0
    <3>1. \A n \in Nat : n + 1 # 0
      BY SMT
    <3> QED  BY <2>2, <3>1
  <2> QED  BY <2>3 DEF EofStep
<1>7. CASE ps_ident
  BY <1>7, ExpectPeekedSees DEF ps_ident
<1>8. ASSUME NEW kind \in Kinds, ps_check(kind) PROVE EofStep
  BY <1>8, StayingSeesEnd DEF ps_check, SeesEnd
<1>9. ASSUME NEW kind \in Kinds, ps_check_and_consume(kind) PROVE EofStep
  <2>1. CASE Consume
    BY <2>1, ConsumeSeesEnd
  <2>2. CASE SeesEnd(TokenAt(cur)) /\ cur' = cur
    BY <2>2, StayingSeesEnd DEF SeesEnd
  <2> QED  BY <1>9, <2>1, <2>2 DEF ps_check_and_consume
<1>10. ASSUME NEW kind \in Kinds, ps_peek_and_expect(kind) PROVE EofStep
  BY <1>10, ExpectPeekedSees DEF ps_peek_and_expect
<1>11. ASSUME NEW kind \in Kinds, ps_consume_and_expect(kind) PROVE EofStep
  BY <1>11, ConsumeAndExpectSees
<1>12. CASE BeginNewlines \/ SkipNewline
  BY <1>12 DEF EofStep, BeginNewlines, SkipNewline
<1>13. CASE EndNewlines
  BY <1>13, StayingSeesEnd DEF EndNewlines, SeesEnd
<1> QED
  BY <1>1, <1>2, <1>3, <1>4, <1>5, <1>6, <1>7, <1>8, <1>9, <1>10, <1>11, <1>12, <1>13
  DEF Next, Newlines

(* A look shows what is there: eof is set by no call before the cursor has    *)
(* passed all tokens and by each that passes them, and what ps_check sees is  *)
(* what ps_check_and_consume takes.                                          *)
THEOREM LooksAreTrueHolds == Spec => LooksAreTrue
<1>1. Init => LoopIsSilent
  BY DEF Init, LoopIsSilent
<1>2. Spec => []LoopIsSilent
  BY <1>1, InvHolds, LoopIsSilentStep, PTL DEF Spec
<1>3. Spec => [][EofStep]_cursorVars
  BY InvHolds, EofHolds, PTL DEF Spec
<1>4. Spec => [][CheckedStep]_cursorVars
  BY InvHolds, <1>2, CheckedHolds, PTL DEF Spec
<1> QED
  BY <1>3, <1>4, PTL
  DEF LooksAreTrue, EofMeansPastTheEnd, CheckedIsConsumed, EofStep, CheckedStep
=============================================================================
