---------------------------- MODULE KeywordTable ----------------------------
(***************************************************************************)
(* The one keyword table of lexer.c, and all who use it: each lexer that    *)
(* reads words, and each parser, for a Parser has a Lexer of its own, that   *)
(* ps_new never makes and ps_free frees.  The global pointer is the number   *)
(* of the table it leads to, 0 for NULL; a row of a table is a block.        *)
(*                                                                         *)
(* An operator whose name begins with Bad is no part of the specification: *)
(* it is a plausible slip in the operator that follows it.                 *)
(***************************************************************************)
EXTENDS Integers, Sequences

CONSTANTS
  Lexers,      (* the Lexer variables of the caller                         *)
  Parsers,     (* its Parser variables                                      *)
  Reserved,    (* the words of lx_kwt_setup                                 *)
  Words,       (* the words that are read                                   *)
  Lowered,     (* as_tolower, of each word                                  *)
  Src,         (* the words of the source of each lexer                     *)
  MaxCalls     (* how often lexers are made, and anything is freed          *)

ASSUME KeywordAssumption ==
  Lowered \in [Words -> Words] /\ Src \in [Lexers -> Seq(Words)] /\ MaxCalls \in Nat

VARIABLES
  kwt,       (* the global pointer                                          *)
  rows,      (* the rows that are in the heap: <<table, word>>              *)
  lexer,     (* of each lexer that was made, and not freed, its fields      *)
  parsers,   (* the parsers that were made, and not freed                   *)
  misused,   (* was a row freed or read that was freed already?             *)
  order      (* the calls that concern the table, "lx_new" or "lx_free"     *)

tableVars == <<kwt, rows, lexer, parsers, misused, order>>

Table(t) == {t} \X Reserved
Tables == {k \in 1 .. Len(order) : order[k] = "lx_new"}

TableInit ==
  /\ kwt = 0 /\ rows = {} /\ lexer = <<>> /\ parsers = {}
  /\ misused = FALSE /\ order = <<>>

Counted(call) == Len(order) < MaxCalls /\ order' = Append(order, call)

(* The pointer is set to NULL first, whatever it led to.  A table's number   *)
(* is that of the call.                                                     *)
Bad_lx_kwt_setup ==             \* rows are added to the table there is
  LET t == IF kwt = 0 THEN Len(order') ELSE kwt
  IN  kwt' = t /\ rows' = rows \cup Table(t)
lx_kwt_setup == kwt' = Len(order') /\ rows' = rows \cup Table(Len(order'))

Bad_lx_kwt_get(w) == Lowered[w] \in Reserved    \* whether or not there is a table
lx_kwt_get(w) == kwt # 0 /\ Lowered[w] \in Reserved

Bad_lx_kwt_free ==              \* the pointer stays
  /\ rows' = rows \ Table(kwt) /\ UNCHANGED kwt
  /\ misused' = (misused \/ (kwt # 0 /\ ~(Table(kwt) \subseteq rows)))
lx_kwt_free ==
  /\ rows' = rows \ Table(kwt) /\ kwt' = 0
  /\ misused' = (misused \/ (kwt # 0 /\ ~(Table(kwt) \subseteq rows)))

With(l, fields) ==
  lexer' = [m \in DOMAIN lexer \cup {l} |-> IF m = l THEN fields ELSE lexer[m]]

lx_new(l) ==
  /\ l \notin DOMAIN lexer
  /\ Counted("lx_new") /\ lx_kwt_setup
  /\ With(l, [cur |-> 0, toks |-> <<>>])
  /\ UNCHANGED <<parsers, misused>>

(* lx_next_token, for a word: lx_next_keyword, and what it makes of it.        *)
lx_next_token(l) ==
  /\ l \in DOMAIN lexer /\ lexer[l].cur < Len(Src[l])
  /\ LET word == Src[l][lexer[l].cur + 1]
         kind == IF lx_kwt_get(word) THEN "keyword" ELSE "identifier"
     IN  With(l, [cur |-> lexer[l].cur + 1, toks |-> Append(lexer[l].toks, kind)])
  /\ misused' = (misused \/ (kwt # 0 /\ ~(Table(kwt) \subseteq rows)))
  /\ UNCHANGED <<kwt, rows, parsers, order>>

Bad_lx_reset(l) ==              \* the position, but not the cursor
  /\ l \in DOMAIN lexer /\ lexer[l].cur > 0
  /\ With(l, [cur |-> lexer[l].cur, toks |-> <<>>])
  /\ UNCHANGED <<kwt, rows, parsers, misused, order>>
lx_reset(l) ==
  /\ l \in DOMAIN lexer /\ lexer[l].cur > 0
  /\ With(l, [cur |-> 0, toks |-> <<>>])
  /\ UNCHANGED <<kwt, rows, parsers, misused, order>>

(* The lexer it is given is not looked at.                                  *)
lx_free(l) ==
  /\ l \in DOMAIN lexer
  /\ Counted("lx_free") /\ lx_kwt_free
  /\ lexer' = [m \in DOMAIN lexer \ {l} |-> lexer[m]] /\ UNCHANGED parsers

ps_new(p) ==
  /\ p \notin parsers /\ parsers' = parsers \cup {p}
  /\ UNCHANGED <<kwt, rows, lexer, misused, order>>
ps_free(p) ==
  /\ p \in parsers /\ parsers' = parsers \ {p}
  /\ Counted("lx_free") /\ lx_kwt_free /\ UNCHANGED lexer

TableNext ==
  \/ \E l \in Lexers : lx_new(l) \/ lx_next_token(l) \/ lx_reset(l) \/ lx_free(l)
  \/ \E p \in Parsers : ps_new(p) \/ ps_free(p)

TableSpec == TableInit /\ [][TableNext]_tableVars

-----------------------------------------------------------------------------
(* Properties.                                                              *)

TableTypeOK ==
  /\ kwt \in 0 .. Len(order) /\ rows \subseteq (1 .. Len(order)) \X Reserved
  /\ DOMAIN lexer \subseteq Lexers /\ parsers \subseteq Parsers
  /\ \A l \in DOMAIN lexer :
       /\ lexer[l].cur \in 0 .. Len(Src[l])
       /\ lexer[l].toks \in Seq({"keyword", "identifier"})
       /\ Len(lexer[l].toks) = lexer[l].cur
  /\ order \in Seq({"lx_new", "lx_free"})

(* The rows in the heap are those of each table that was not freed right    *)
(* after it was made: lx_new over a table that is there leaves its rows     *)
(* behind for good, and lx_free takes those of the last lexer, whichever    *)
(* lexer, or parser, it is called for.                                      *)
RowsAreAccountedFor ==
  rows = UNION {Table(t) : t \in {t \in Tables : t = Len(order) \/ order[t + 1] = "lx_new"}}

(* No row is freed twice, or read when it is freed, in whatever order       *)
(* lexers and parsers that share the table are freed.                       *)
RowsAreFreedOnce == ~misused

(* An inductive invariant: besides, the pointer leads to the table that was  *)
(* made last, unless anything was freed since.                              *)
PointerIsLast ==
  kwt = IF order # <<>> /\ order[Len(order)] = "lx_new" THEN Len(order) ELSE 0
TableInv == TableTypeOK /\ RowsAreAccountedFor /\ RowsAreFreedOnce /\ PointerIsLast

(* A keyword is taken for an identifier when the last lexer that was made    *)
(* or freed was freed, even if the one that reads was not, and else never:  *)
(* lexers with the same source may get different tokens for it.             *)
KeywordsAreMissedAfterFree ==
  [][\A l \in DOMAIN lexer \cap DOMAIN lexer' :
       Len(lexer'[l].toks) > Len(lexer[l].toks) =>
         LET word == Src[l][Len(lexer'[l].toks)]
         IN  lexer'[l].toks[Len(lexer'[l].toks)] = "identifier" <=>
               Lowered[word] \notin Reserved \/ order[Len(order)] = "lx_free"]_tableVars
=============================================================================
