---------------------------- MODULE VectorValues ----------------------------
(***************************************************************************)
(* What the macros of a_vector.h promise: a vector is a sequence of items,  *)
(* whatever memory it takes to hold it.  It may only break where its length *)
(* comes near the width of its counters, or where it is used after av_free, *)
(* which takes the items but not the length.  Vector.tla implements this    *)
(* specification.                                                          *)
(***************************************************************************)
EXTENDS Integers, Sequences

CONSTANTS
  Item,      (* what a vector holds                                         *)
  Junk,      (* what a cell holds that was never written                    *)
  Batches,   (* what is appended by one call                                *)
  U32        (* counters are below this                                     *)

VARIABLES
  value,     (* the items                                                   *)
  spent,     (* has it been freed, and not grown again?                     *)
  got,       (* the item that was read last                                 *)
  call,      (* the macro that was used last                                *)
  stage      (* "live", or how the process ended                            *)

valueVars == <<value, spent, got, call, stage>>

Unset(n) == [k \in 1 .. n |-> Junk]

Init ==
  value = <<>> /\ spent = FALSE /\ got = Junk /\ call = "none" /\ stage = "live"

av_append ==
  /\ call' = "av_append" /\ \E item \in Item : value' = Append(value, item)
  /\ spent' = FALSE /\ UNCHANGED <<got, stage>>

av_append_many ==
  /\ call' = "av_append_many"
  /\ \E items \in Batches :
       value' = value \o items /\ spent' = (spent /\ items = <<>>)
  /\ UNCHANGED <<got, stage>>

av_reserve ==
  /\ call' = "av_reserve" /\ spent' \in {spent, FALSE}
  /\ UNCHANGED <<value, got, stage>>

av_clear ==
  /\ call' = "av_clear" /\ ~spent /\ value' = <<>>
  /\ UNCHANGED <<spent, got, stage>>

av_free ==
  /\ call' = "av_free" /\ value' = Unset(Len(value))
  /\ spent' \in BOOLEAN /\ (spent' \/ value = <<>>)
  /\ UNCHANGED <<got, stage>>

av_at ==
  /\ call' \in {"av_at", "av_last"} /\ ~spent
  /\ \E k \in 1 .. Len(value) :
       got' = value[k] /\ (call' = "av_last" => k = Len(value))
  /\ UNCHANGED <<value, spent, stage>>

av_pop ==
  /\ call' = "av_pop" /\ ~spent /\ value # <<>>
  /\ got' = value[Len(value)] /\ value' = SubSeq(value, 1, Len(value) - 1)
  /\ UNCHANGED <<spent, stage>>

av_pop_many ==
  /\ call' = "av_pop_many"
  /\ \E n \in 0 .. Len(value) - 1 : value' = SubSeq(value, 1, Len(value) - n)
  /\ UNCHANGED <<spent, got, stage>>

(* An item is asked for that is not there, or all of them are to be popped.  *)
Refuse ==
  /\ call' \in {"av_at", "av_last", "av_pop", "av_pop_many"}
  /\ call' \in {"av_last", "av_pop"} => value = <<>>
  /\ stage' = "abort" /\ UNCHANGED <<value, spent, got>>

(* Memory is touched that is not the vector's, or cannot be had.             *)
Break ==
  /\ stage' \in {"overrun", "panic"}
  /\ \/ call' = "av_append" /\ (spent \/ 2 * Len(value) >= U32)
     \/ call' = "av_append_many"
        /\ \E items \in Batches : spent \/ Len(value) + 2 * Len(items) > U32
     \/ call' = "av_reserve" /\ value = <<>> /\ stage' = "panic"
     \/ call' \in {"av_clear", "av_at", "av_last", "av_pop"} /\ spent
  /\ UNCHANGED <<value, spent, got>>

Next ==
  /\ stage = "live"
  /\ \/ av_append \/ av_append_many \/ av_reserve \/ av_clear \/ av_free
     \/ av_at \/ av_pop \/ av_pop_many \/ Refuse \/ Break

Spec == Init /\ [][Next]_valueVars
=============================================================================
