---------------------------- MODULE TokenCursor ----------------------------
(***************************************************************************)
(* The cursor of parser.c over the tokens of a text, and the diagnostics   *)
(* that are placed by it.  The caller is any caller: it makes the calls in *)
(* any order.  if_let evaluates its expression twice, once for .data and   *)
(* once for .have; a call is one action, the loop over newlines one action *)
(* per iteration.                                                          *)
(*                                                                         *)
(* An operator whose name begins with Bad is no part of the specification: *)
(* it is a plausible slip in the operator that follows it.                 *)
(***************************************************************************)
EXTENDS Integers, Sequences

CONSTANTS
  Kinds,          (* the kinds of tokens                                    *)
  Streams,        (* what lx_tokenize returns: ends with EOF, or is empty   *)
  MaxErrorCount,  (* MAX_ERROR_COUNT: 20                                    *)
  U32,            (* 2^32                                                   *)
  MaxCur,         (* bound: calls that move the cursor, and how far         *)
  MaxLeaked       (* bound: calls that leave a string behind                *)

NoToken == 0      \* NO_TOKEN; a token is known by its number, from 1 on
NoKind == "none"
Answers == {"yes", "no"}

ASSUME CursorAssumption ==
  /\ {"IDENT", "NEWLINE", "EOF"} \subseteq Kinds /\ NoKind \notin Kinds
  /\ Streams \subseteq Seq(Kinds)
  /\ \A s \in Streams : s # <<>> => s[Len(s)] = "EOF"
  /\ MaxCur \in Nat /\ MaxErrorCount \in Nat /\ U32 \in Nat
  /\ \A s \in Streams : Len(s) + MaxCur + 2 < U32
  /\ MaxLeaked \in Nat

VARIABLES
  tokens, cur, eof, error_reported,   (* Parser                             *)
  at,        (* "call": between calls; in the loop; or ended                *)
  answer,    (* what the last call returned                                 *)
  diag,      (* the last diagnostic that was printed                        *)
  taken,     (* history: the tokens handed to the caller as consumed        *)
  leaked,    (* history: the strings that nobody will free                  *)
  made       (* history: how often an expectation was met, and so on        *)

cursorVars ==
  <<tokens, cur, eof, error_reported, at, answer, diag, taken, leaked, made>>

Counters == {"accepted", "refused", "ended", "bumped", "mismatched"}
NoDiag == [what |-> "none", place |-> NoToken, next |-> NoToken]
Answer(call, wanted, got, yes) ==
  [call |-> call, wanted |-> wanted, got |-> got, yes |-> yes]
Count(c, n) == made' = [made EXCEPT ![c] = @ + n]

Init ==
  /\ tokens \in Streams
  /\ cur = 0 /\ eof = FALSE /\ error_reported = FALSE
  /\ at = "call"
  /\ answer = Answer("ps_new", NoKind, NoToken, "no")
  /\ diag = NoDiag
  /\ taken = <<>> /\ leaked = 0
  /\ made = [c \in Counters |-> 0]

TokenAt(k) == IF k < Len(tokens) THEN k + 1 ELSE NoToken
Is(t, kind) == t # NoToken /\ tokens[t] = kind
SeesEnd(t) == eof' = (eof \/ t = NoToken)

-----------------------------------------------------------------------------
(* Looking.                                                                 *)

Look(call, k) ==
  /\ at = "call"
  /\ answer' = Answer(call, NoKind, TokenAt(k), "no")
  /\ SeesEnd(TokenAt(k))
  /\ UNCHANGED <<tokens, cur, error_reported, at, diag, taken, leaked, made>>

Previous(c) == TokenAt((c - 1) % U32)
ps_peek == Look("ps_peek", cur)
ps_peek_next == Look("ps_peek_next", cur + 1)
ps_prev == Look("ps_prev", (cur - 1) % U32)
ps_get == \E k \in 0 .. MaxCur : Look("ps_get", k)

ps_check(kind) ==
  /\ at = "call"
  /\ answer' = Answer("ps_check", kind, NoToken,
                      IF Is(TokenAt(cur), kind) THEN "yes" ELSE "no")
  /\ SeesEnd(TokenAt(cur))
  /\ UNCHANGED <<tokens, cur, error_reported, at, diag, taken, leaked, made>>

-----------------------------------------------------------------------------
(* Consuming.                                                               *)

(* What ps_consume returns with the cursor at c: it is moved, then tested.   *)
BadConsumed(c) == TokenAt(c)                            \* tested, then moved
BadConsumedAll(c) == c + 1                              \* not tested
Consumed(c) == IF c + 1 < Len(tokens) THEN c + 1 ELSE NoToken

BadConsume ==           \* eof is left alone
  /\ cur' = cur + 1
  /\ UNCHANGED eof
  /\ IF Consumed(cur) = NoToken
     THEN Count("ended", 1) /\ UNCHANGED taken
     ELSE taken' = Append(taken, Consumed(cur)) /\ UNCHANGED made
Consume ==
  /\ cur' = cur + 1
  /\ SeesEnd(Consumed(cur))
  /\ IF Consumed(cur) = NoToken
     THEN Count("ended", 1) /\ UNCHANGED taken
     ELSE taken' = Append(taken, Consumed(cur)) /\ UNCHANGED made

ps_consume ==
  /\ at = "call" /\ cur < MaxCur
  /\ Consume
  /\ answer' = Answer("ps_consume", NoKind, Consumed(cur), "no")
  /\ UNCHANGED <<tokens, error_reported, at, diag, leaked>>

Bad_ps_check_and_consume(kind) ==       \* the kind is tested behind the call
  /\ at = "call" /\ cur < MaxCur
  /\ Consume
  /\ answer' = Answer("ps_check_and_consume", kind,
                      IF Is(TokenAt(cur + 1), kind) THEN Consumed(cur) ELSE NoToken,
                      "no")
  /\ UNCHANGED <<tokens, error_reported, at, diag, leaked>>
ps_check_and_consume(kind) ==
  LET found == Is(TokenAt(cur), kind)
  IN  /\ at = "call" /\ cur < MaxCur
      /\ IF found THEN Consume
         ELSE SeesEnd(TokenAt(cur)) /\ UNCHANGED <<cur, taken, made>>
      /\ answer' = Answer("ps_check_and_consume", kind,
                          IF found THEN Consumed(cur) ELSE NoToken, "no")
      /\ UNCHANGED <<tokens, error_reported, at, diag, leaked>>

-----------------------------------------------------------------------------
(* Diagnostics.  ps_get_pos takes the position of the token before the      *)
(* cursor and ends the process if there is none.  A diagnostic whose        *)
(* arguments are not what its format says (a struct for %s, or one too few) *)
(* may print anything, or crash.                                            *)

BadDiagnose(c, what, sound, ended) ==   \* placed at the cursor
  LET place == TokenAt(c)
  IN  /\ eof' = (eof \/ ended \/ place = NoToken)
      /\ \/ /\ place = NoToken /\ at' = "panic"
            /\ UNCHANGED <<error_reported, diag>>
         \/ /\ place # NoToken /\ at' = "call"
            /\ error_reported' = TRUE
            /\ diag' = [what |-> what, place |-> place, next |-> TokenAt(cur)]
         \/ /\ place # NoToken /\ ~sound /\ at' = "crash"
            /\ UNCHANGED <<error_reported, diag>>
Diagnose(c, what, sound, ended) ==
  LET place == Previous(c)
  IN  /\ eof' = (eof \/ ended \/ place = NoToken)
      /\ \/ /\ place = NoToken /\ at' = "panic"
            /\ UNCHANGED <<error_reported, diag>>
         \/ /\ place # NoToken /\ at' = "call"
            /\ error_reported' = TRUE
            /\ diag' = [what |-> what, place |-> place, next |-> TokenAt(cur)]
         \/ /\ place # NoToken /\ ~sound /\ at' = "crash"
            /\ UNCHANGED <<error_reported, diag>>

ps_diag ==
  /\ at = "call"
  /\ Diagnose(cur, "given", TRUE, FALSE)
  /\ answer' = Answer("ps_diag", NoKind, NoToken, "no")
  /\ UNCHANGED <<tokens, cur, taken, leaked, made>>

ps_diag_expected ==
  /\ at = "call"
  /\ Diagnose(cur, "expected", TokenAt(cur) = NoToken, TokenAt(cur) = NoToken)
  /\ answer' = Answer("ps_diag_expected", NoKind, NoToken, "no")
  /\ UNCHANGED <<tokens, cur, taken, leaked, made>>

(* The error count is never touched.                                        *)
ps_bump_error_count ==
  /\ at = "call" /\ cur < MaxCur
  /\ cur' = cur + 1
  /\ answer' = Answer("ps_bump_error_count", NoKind, NoToken,
                      IF cur' > MaxErrorCount THEN "yes" ELSE "no")
  /\ Count("bumped", 1)
  /\ UNCHANGED <<tokens, eof, error_reported, at, diag, taken, leaked>>

-----------------------------------------------------------------------------
(* Expecting.                                                               *)

(* The name of the token found is not freed; that of the one expected is.    *)
BadRefused(what, names) ==              \* neither is freed
  /\ Diagnose(cur, what, FALSE, TokenAt(cur) = NoToken)
  /\ leaked' = leaked + names + 1
  /\ Count("mismatched", names)
Refused(what, names) ==
  /\ Diagnose(cur, what, FALSE, TokenAt(cur) = NoToken)
  /\ leaked' = leaked + names
  /\ Count("mismatched", names)

BadExpectPeeked(call, kind, times) ==   \* the end is a token like others
  LET t == TokenAt(cur)
  IN  /\ at = "call" /\ leaked < MaxLeaked
      /\ \/ /\ ~Is(t, kind)
            /\ Refused("found another", IF t = NoToken THEN 0 ELSE times)
            /\ answer' = Answer(call, kind, NoToken, "no")
         \/ /\ Is(t, kind)
            /\ answer' = Answer(call, kind, t, "yes")
            /\ UNCHANGED <<eof, at, error_reported, diag, leaked, made>>
      /\ UNCHANGED <<tokens, cur, taken>>
(* `times` is how often the caller evaluates ps_peek_and_expect.             *)
ExpectPeeked(call, kind, times) ==
  LET t == TokenAt(cur)
  IN  /\ at = "call" /\ leaked < MaxLeaked
      /\ \/ /\ t = NoToken \/ Is(t, "EOF")
            /\ Refused("no token", 0)
            /\ answer' = Answer(call, kind, NoToken, "no")
         \/ /\ t # NoToken /\ ~Is(t, "EOF") /\ ~Is(t, kind)
            /\ Refused("found another", times)
            /\ answer' = Answer(call, kind, NoToken, "no")
         \/ /\ ~Is(t, "EOF") /\ Is(t, kind)
            /\ answer' = Answer(call, kind, t, "yes")
            /\ UNCHANGED <<eof, at, error_reported, diag, leaked, made>>
      /\ UNCHANGED <<tokens, cur, taken>>

ps_peek_and_expect(kind) == ExpectPeeked("ps_peek_and_expect", kind, 1)
ps_ident == ExpectPeeked("ps_ident", "IDENT", 2)

(* Two tokens are consumed; the first is tested and returned if there was a  *)
(* second.  On success the name of the token expected is not freed.          *)
Bad_ps_consume_and_expect(kind) ==      \* the expression is evaluated once
  /\ at = "call" /\ cur < MaxCur /\ leaked < MaxLeaked
  /\ cur' = cur + 1
  /\ IF Is(Consumed(cur), kind)
     THEN /\ answer' = Answer("ps_consume_and_expect", kind, Consumed(cur), "yes")
          /\ taken' = Append(taken, Consumed(cur))
          /\ leaked' = leaked + 1 /\ Count("accepted", 1)
          /\ UNCHANGED <<eof, at, error_reported, diag>>
     ELSE /\ Diagnose(cur + 1,
               IF Consumed(cur) = NoToken THEN "end of tokens" ELSE "found another",
               TRUE, Consumed(cur) = NoToken)
          /\ answer' = Answer("ps_consume_and_expect", kind, NoToken, "no")
          /\ Count("refused", 1)
          /\ UNCHANGED <<taken, leaked>>
  /\ UNCHANGED tokens
ps_consume_and_expect(kind) ==
  LET first == Consumed(cur)  second == Consumed(cur + 1)
  IN  /\ at = "call" /\ cur < MaxCur /\ leaked < MaxLeaked
      /\ cur' = cur + 2
      /\ \/ /\ second # NoToken /\ Is(first, kind)
            /\ answer' = Answer("ps_consume_and_expect", kind, first, "yes")
            /\ taken' = Append(taken, first)
            /\ leaked' = leaked + 1 /\ Count("accepted", 1)
            /\ UNCHANGED <<eof, at, error_reported, diag>>
         \/ /\ second = NoToken \/ ~Is(first, kind)
            /\ Diagnose(cur + 2,
                 IF second = NoToken THEN "end of tokens" ELSE "found another",
                 TRUE, second = NoToken)
            /\ answer' = Answer("ps_consume_and_expect", kind, NoToken, "no")
            /\ Count("refused", 1)
            /\ UNCHANGED <<taken, leaked>>
      /\ UNCHANGED tokens

-----------------------------------------------------------------------------
(* ps_consume_newlines.                                                     *)

BeginNewlines ==
  /\ at = "call" /\ at' = "newlines"
  /\ answer' = Answer("call of ps_consume_newlines", NoKind, NoToken, "no")
  /\ UNCHANGED <<tokens, cur, eof, error_reported, diag, taken, leaked, made>>

BadSkipNewline ==       \* as ps_check(ps, TOK_NEWLINE) would, without ps_consume
  /\ at = "newlines" /\ Is(TokenAt(cur), "NEWLINE")
  /\ UNCHANGED cursorVars
SkipNewline ==
  /\ at = "newlines" /\ Is(TokenAt(cur), "NEWLINE")
  /\ Consume
  /\ UNCHANGED <<tokens, error_reported, at, answer, diag, leaked>>

BadEndNewlines ==       \* one newline at most
  /\ at = "newlines"
  /\ at' = "call"
  /\ answer' = Answer("ps_consume_newlines", NoKind, NoToken, "no")
  /\ SeesEnd(TokenAt(cur))
  /\ UNCHANGED <<tokens, cur, error_reported, diag, taken, leaked, made>>
EndNewlines ==
  /\ at = "newlines" /\ ~Is(TokenAt(cur), "NEWLINE")
  /\ at' = "call"
  /\ answer' = Answer("ps_consume_newlines", NoKind, NoToken, "no")
  /\ SeesEnd(TokenAt(cur))
  /\ UNCHANGED <<tokens, cur, error_reported, diag, taken, leaked, made>>

Newlines == SkipNewline \/ EndNewlines
Next ==
  \/ ps_peek \/ ps_peek_next \/ ps_prev \/ ps_get \/ ps_consume
  \/ ps_diag \/ ps_diag_expected \/ ps_bump_error_count \/ ps_ident
  \/ \E kind \in Kinds :
       \/ ps_check(kind) \/ ps_check_and_consume(kind)
       \/ ps_peek_and_expect(kind) \/ ps_consume_and_expect(kind)
  \/ BeginNewlines \/ Newlines

Spec == Init /\ [][Next]_cursorVars
FairSpec == Spec /\ WF_cursorVars(Newlines)
=============================================================================
