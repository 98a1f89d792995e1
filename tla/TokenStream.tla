---------------------------- MODULE TokenStream ----------------------------
(***************************************************************************)
(* What lx_tokenize promises its caller, without saying how a source text  *)
(* is read: lexemes come in the order of the text, none is empty, no two   *)
(* overlap, and none reaches beyond the text; a complete stream ends with  *)
(* exactly one EOF; a text that is rejected yields no token at all.        *)
(* Lexer.tla implements this specification.                                *)
(***************************************************************************)
EXTENDS Integers, Sequences

CONSTANT Kinds   (* the kinds of token, "EOF" among them *)

VARIABLES
  size,          (* the length of the text                                *)
  out,           (* the lexemes delivered: kind and offsets [from, to)    *)
  status         (* "reading", "complete", "rejected" or "crashed"        *)

vars == <<size, out, status>>

Consumed == IF out = <<>> THEN 0 ELSE out[Len(out)].to

Lexeme(kind, from, to) == [kind |-> kind, from |-> from, to |-> to]

Init ==
  /\ size \in Nat
  /\ out = <<>>
  /\ status = "reading"

Deliver ==
  /\ status = "reading"
  /\ \E kind \in Kinds \ {"EOF"}, from \in Consumed .. size - 1 :
       \E to \in from + 1 .. size : out' = Append(out, Lexeme(kind, from, to))
  /\ UNCHANGED <<size, status>>

(* A comment that the text does not close puts the end two characters on.   *)
Finish ==
  /\ status = "reading"
  /\ \E end \in size .. size + 2 : out' = Append(out, Lexeme("EOF", end, end))
  /\ status' = "complete"
  /\ UNCHANGED size

Reject ==
  /\ status = "reading"
  /\ out' = <<>>
  /\ status' = "rejected"
  /\ UNCHANGED size

(* The process ends inside the call; the caller sees nothing.               *)
Crash ==
  /\ status = "reading"
  /\ status' = "crashed"
  /\ UNCHANGED <<size, out>>

Next == Deliver \/ Finish \/ Reject \/ Crash

Spec == Init /\ [][Next]_vars
=============================================================================
