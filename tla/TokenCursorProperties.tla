----------------------- MODULE TokenCursorProperties -----------------------
(***************************************************************************)
(* What a caller of the token cursor can rely on, whatever calls it makes. *)
(***************************************************************************)
EXTENDS TokenCursor

TokenNumbers == 0 .. Len(tokens)
TypeOK ==
  /\ tokens \in Streams
  /\ cur \in Nat /\ leaked \in Nat
  /\ eof \in BOOLEAN /\ error_reported \in BOOLEAN
  /\ at \in {"call", "newlines", "panic", "crash"}
  /\ answer.wanted \in Kinds \cup {NoKind}
  /\ answer.got \in TokenNumbers /\ answer.yes \in Answers
  /\ diag.place \in TokenNumbers /\ diag.next \in TokenNumbers
  /\ taken \in Seq(Nat \ {0})
  /\ made \in [Counters -> Nat]

(* No token is consumed twice or out of order, whichever calls did it; and   *)
(* the last one, EOF, is never consumed.                                    *)
TakenInOrder ==
  /\ \A k, l \in 1 .. Len(taken) : k < l => taken[k] < taken[l]
  /\ \A k \in 1 .. Len(taken) : taken[k] <= cur /\ taken[k] < Len(tokens)

(* Where the cursor's way went: besides the tokens that were handed out, an *)
(* expectation that is met passes over one token more, one that is not met  *)
(* over two, and each error counted over one.  Nothing else loses a token.  *)
CursorIsAccountedFor ==
  cur = Len(taken) + made["accepted"] + 2 * made["refused"] + made["ended"]
          + made["bumped"]

(* Each expectation that is met leaves one string behind, each name of a    *)
(* wrong token one; every other way out of the two functions frees both.    *)
NamesAreAccountedFor == leaked = made["accepted"] + made["mismatched"]

(* The calls that move the cursor beyond the end stop at the bound, and the *)
(* loop over newlines stops at the end by itself.                           *)
CursorIsBounded == cur <= Len(tokens) + MaxCur + 1

(* No call loses a token or a string but as counted: an inductive invariant, *)
(* with the types and the bound, below which cur - 1 wraps at 0 only.        *)
CursorInv ==
  TypeOK /\ CursorIsBounded /\ CursorIsAccountedFor /\ NamesAreAccountedFor

(* EOF cannot be expected, checked for and consumed, or consumed: a caller   *)
(* gets the last token only by looking.                                     *)
EndIsOnlySeen ==
  answer.call \notin {"ps_peek", "ps_peek_next", "ps_prev", "ps_get"} =>
    answer.got < Len(tokens) \/ answer.got = NoToken

(* As long as the caller looks nowhere but at the cursor, and counts no      *)
(* errors, eof says that the cursor has passed all tokens: no such call sets *)
(* it too early, and none passes the last token without setting it.          *)
EofMeansPastTheEnd ==
  [][at' = "call" /\ made'["bumped"] = 0
       /\ answer'.call \notin {"ps_peek_next", "ps_prev", "ps_get"}
       /\ (eof => cur >= Len(tokens)) =>
     /\ eof' => cur' >= Len(tokens)
     /\ cur' # cur /\ cur' >= Len(tokens) => eof']_cursorVars

(* "Reached the end of the token stream" is reported only where a token was  *)
(* left, never at the end: there, as at the first token, the process ends   *)
(* instead, for no token precedes the cursor.                               *)
EndIsReportedTooEarly ==
  /\ diag.what = "end of tokens" => diag.next # NoToken /\ diag.next < Len(tokens)
  /\ at = "panic" => cur = 0 \/ cur > Len(tokens)
  /\ error_reported => cur > 0

(* The end of the stream is neither returned by a call that expects a token  *)
(* nor reported by one.                                                     *)
EndIsNeverExpected == EndIsOnlySeen /\ EndIsReportedTooEarly

(* What ps_check has seen is what the next consumption returns, but for the *)
(* last token.                                                              *)
CheckedIsConsumed ==
  [][answer'.call = "ps_check_and_consume" =>
       LET unread == TokenAt(cur)
       IN  IF Is(unread, answer'.wanted) /\ unread < Len(tokens)
           THEN answer'.got = unread /\ taken' = Append(taken, unread)
           ELSE answer'.got = NoToken /\ taken' = taken]_cursorVars

(* What a look has shown is what a consumption then does: of the end, and of *)
(* the kind of a token.                                                     *)
LooksAreTrue == EofMeansPastTheEnd /\ CheckedIsConsumed

(* The loop over newlines ends, at a token that is none.                    *)
NewlinesEnd ==
  at = "newlines" ~>
    answer.call = "ps_consume_newlines" /\ ~Is(TokenAt(cur), "NEWLINE")
=============================================================================
