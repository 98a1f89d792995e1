------------------------------- MODULE Vector -------------------------------
(***************************************************************************)
(* A vector of a_vector.h in memory: its block, cell by cell, and its two   *)
(* counters, which are u32s and wrap.  `data == NULL` is the block of no    *)
(* cells.  Any macros may be used in any order; those that read and write   *)
(* stay in the block, or end the process here.                             *)
(*                                                                         *)
(* An operator whose name begins with Bad is no part of the specification: *)
(* it is a plausible slip in the operator that follows it.                 *)
(***************************************************************************)
EXTENDS Integers, Sequences

CONSTANTS
  Item,      (* what a vector holds                                         *)
  Zero,      (* a cell after memset                                         *)
  Junk,      (* a cell that realloc has added                               *)
  Batches,   (* what av_append_many appends                                 *)
  U32        (* 2^32: a counter is below it                                 *)

AV_INITIAL_SIZE == 5
AV_GROWTH_FACTOR == 2

ASSUME VectorAssumption ==
  /\ U32 \in Nat /\ U32 > AV_INITIAL_SIZE
  /\ Batches \subseteq Seq(Item) /\ \A items \in Batches : Len(items) < U32

VARIABLES
  data,      (* the cells of the block                                      *)
  len, cap,
  got,       (* the item that was read last                                 *)
  call,      (* the macro that was used last                                *)
  stage      (* "live", or how the process ended                            *)

vectorVars == <<data, len, cap, got, call, stage>>

Cell == Item \cup {Zero, Junk}

realloc(block, n) ==
  [k \in 1 .. n |-> IF k <= Len(block) THEN block[k] ELSE Junk]
Written(block, at, items) ==
  [k \in 1 .. Len(block) |->
     IF k \in at + 1 .. at + Len(items) THEN items[k - at] ELSE block[k]]

Init ==
  data = <<>> /\ len = 0 /\ cap = 0 /\ got = Junk /\ call = "none" /\ stage = "live"

Using(macro) == stage = "live" /\ call' = macro
End(how) == stage' \in how /\ UNCHANGED <<data, len, cap, got>>

(* realloc of nothing gives NULL, or a block of no cells.                    *)
NoBlock == {"panic", "overrun"}

(* The items are put behind those of the block, if they fit it.              *)
Store(block, size, items) ==
  IF items = <<>> \/ len + Len(items) <= Len(block)
  THEN /\ data' = Written(block, len, items) /\ cap' = size
       /\ len' = len + Len(items) /\ UNCHANGED <<got, stage>>
  ELSE End({"overrun"})

BadDoubled ==                   \* wider than the field it is stored in
  IF cap = 0 THEN AV_INITIAL_SIZE ELSE cap * AV_GROWTH_FACTOR
Doubled ==
  IF cap = 0 THEN AV_INITIAL_SIZE ELSE (cap * AV_GROWTH_FACTOR) % U32

av_append(item) ==
  /\ Using("av_append")
  /\ IF (len + 1) % U32 <= cap THEN Store(data, cap, <<item>>)
     ELSE IF Doubled = 0 THEN End(NoBlock)
     ELSE Store(realloc(data, Doubled), Doubled, <<item>>)

av_append_many(items) ==
  LET size == (cap + Len(items)) % U32
  IN  /\ Using("av_append_many")
      /\ IF (len + Len(items)) % U32 <= cap THEN Store(data, cap, items)
         ELSE IF size = 0 THEN End(NoBlock)
         ELSE Store(realloc(data, size), size, items)

BadReserve(amt) ==              \* whatever the length
  /\ Using("av_reserve")
  /\ data' = realloc(data, amt) /\ cap' = amt /\ UNCHANGED <<len, got, stage>>
av_reserve(amt) ==
  /\ Using("av_reserve")
  /\ \/ amt < len /\ UNCHANGED <<data, len, cap, got, stage>>
     \/ /\ amt >= len /\ (amt > 0 \/ data = <<>>)
        /\ data' = realloc(data, amt) /\ cap' = amt
        /\ UNCHANGED <<len, got, stage>>
     \/ amt >= len /\ amt = 0 /\ End({"panic"})

av_clear ==
  /\ Using("av_clear")
  /\ IF cap > Len(data) THEN End({"overrun"})
     ELSE /\ data' = [k \in 1 .. Len(data) |-> IF k <= cap THEN Zero ELSE data[k]]
          /\ len' = 0 /\ UNCHANGED <<cap, got, stage>>

av_free ==
  Using("av_free") /\ data' = <<>> /\ UNCHANGED <<len, cap, got, stage>>

Read(k) ==
  IF k <= Len(data) THEN got' = data[k] /\ UNCHANGED <<data, len, cap, stage>>
  ELSE End({"overrun"})
av_last ==
  Using("av_last") /\ IF len > 0 THEN Read(len) ELSE End({"abort"})
av_at(pos) ==
  Using("av_at") /\ IF pos < len THEN Read(pos + 1) ELSE End({"abort"})

(* The position it is given is not looked at.                                *)
BadPop(pos) ==                  \* the item behind the last one
  /\ Using("av_pop")
  /\ IF len = 0 THEN End({"abort"})
     ELSE IF len + 1 > Len(data) THEN End({"overrun"})
     ELSE got' = data[len + 1] /\ len' = len - 1 /\ UNCHANGED <<data, cap, stage>>
av_pop(pos) ==
  /\ Using("av_pop")
  /\ IF len = 0 THEN End({"abort"})
     ELSE IF len > Len(data) THEN End({"overrun"})
     ELSE got' = data[len] /\ len' = len - 1 /\ UNCHANGED <<data, cap, stage>>

av_pop_many(count) ==
  /\ Using("av_pop_many")
  /\ IF count < len
     THEN len' = len - count /\ UNCHANGED <<data, cap, got, stage>>
     ELSE End({"abort"})

Counter == 0 .. U32 - 1

Next ==
  \/ \E item \in Item : av_append(item)
  \/ \E items \in Batches : av_append_many(items)
  \/ \E amt \in Counter : av_reserve(amt)
  \/ av_clear \/ av_free \/ av_last
  \/ \E pos \in Counter : av_at(pos)
  \/ \E pos \in Counter : av_pop(pos)
  \/ \E count \in Counter : av_pop_many(count)

Spec == Init /\ [][Next]_vectorVars

-----------------------------------------------------------------------------
(* Properties.                                                              *)

TypeOK ==
  /\ data \in Seq(Cell) /\ len \in Counter /\ cap \in Counter
  /\ got \in Cell /\ stage \in {"live", "abort", "panic", "overrun"}

(* While the process lives, `cap` is the size of the block, or the vector   *)
(* has none, and `len` is within it, however the counters have wrapped: a    *)
(* capacity that has wrapped never serves a second macro.                   *)
CapIsTheBlock ==
  stage = "live" => len <= cap /\ (data = <<>> \/ cap = Len(data))

(* The inductive invariant.                                                  *)
VectorInv == TypeOK /\ CapIsTheBlock

(* What the vector holds: after av_free, as many items as before, of which  *)
(* none is known.                                                           *)
Values ==
  INSTANCE VectorValues WITH
    value <- IF data = <<>> THEN [k \in 1 .. len |-> Junk] ELSE SubSeq(data, 1, len),
    spent <- data = <<>> /\ cap > 0

(* A vector is the sequence that its macros have made, whatever memory was  *)
(* reserved, moved or popped in between, until av_free takes its items, and  *)
(* the process ends only where VectorValues lets it.                        *)
IsASequence == Values!Spec
=============================================================================
