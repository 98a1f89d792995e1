---------------------------- MODULE VectorProofs ----------------------------
(***************************************************************************)
(* A vector keeps its types, its capacity is the size of its block, and it  *)
(* implements the sequence of VectorValues, for every width of its counters *)
(* and whatever it holds.                                                  *)
(***************************************************************************)
EXTENDS Vector, SequenceTheorems, TLAPS

(* The items of a block of this length, as Values takes them.               *)
Held(block, n) ==
  IF block = <<>> THEN [k \in 1 .. n |-> Junk] ELSE SubSeq(block, 1, n)

-----------------------------------------------------------------------------
(* Counters.                                                                *)

(* A counter that wraps is a counter.                                       *)
LEMMA WrappedIsCounter ==
  ASSUME NEW n \in Nat PROVE n % U32 \in Counter
BY VectorAssumption, SMT DEF Counter, AV_INITIAL_SIZE

(* A sum of two counters that does not wrap is the sum, and one that does is  *)
(* smaller than the width.                                                  *)
LEMMA SmallIsNotWrapped ==
  ASSUME NEW n \in Nat, n < U32 PROVE n % U32 = n
BY VectorAssumption, SMT DEF AV_INITIAL_SIZE

LEMMA DoubledIsCounter ==
  ASSUME cap \in Counter
  PROVE  /\ Doubled \in Counter
         /\ cap = 0 => Doubled = 5
         /\ cap > 0 /\ 2 * cap < U32 => Doubled = 2 * cap
<1>1. cap \in Nat /\ cap * 2 \in Nat /\ cap * 2 = 2 * cap
  BY VectorAssumption, SMT DEF Counter, AV_INITIAL_SIZE
<1>2. (cap * 2) % U32 \in Counter
  BY <1>1, WrappedIsCounter
<1>3. 2 * cap < U32 => (cap * 2) % U32 = 2 * cap
  BY <1>1, SmallIsNotWrapped
<1>4. 5 \in Counter
  BY VectorAssumption, SMT DEF Counter, AV_INITIAL_SIZE
<1> QED
  BY <1>1, <1>2, <1>3, <1>4, SMT DEF Doubled, AV_INITIAL_SIZE, AV_GROWTH_FACTOR

-----------------------------------------------------------------------------
(* Blocks.                                                                  *)

LEMMA ReallocIsBlock ==
  ASSUME NEW block \in Seq(Cell), NEW n \in Nat
  PROVE  realloc(block, n) \in Seq(Cell) /\ Len(realloc(block, n)) = n
<1>1. \A k \in 1 .. n : (IF k <= Len(block) THEN block[k] ELSE Junk) \in Cell
  BY SMT DEF Cell
<1> QED  BY <1>1, SMT DEF realloc

LEMMA WrittenIsBlock ==
  ASSUME NEW block \in Seq(Cell), NEW at \in Nat, NEW items \in Seq(Item)
  PROVE  Written(block, at, items) \in Seq(Cell)
         /\ Len(Written(block, at, items)) = Len(block)
<1>1. \A k \in 1 .. Len(block) :
        (IF k \in at + 1 .. at + Len(items) THEN items[k - at] ELSE block[k]) \in Cell
  BY SMT DEF Cell
<1> QED  BY <1>1, SMT DEF Written

-----------------------------------------------------------------------------
(* The invariant.                                                           *)

(* A store into a block of the size given keeps the invariant.              *)
LEMMA StoreKeepsInv ==
  ASSUME VectorInv, stage = "live", NEW block \in Seq(Cell), NEW size \in Counter,
         NEW items \in Seq(Item), Store(block, size, items),
         block = <<>> \/ Len(block) = size, items = <<>> => len <= size
  PROVE  VectorInv'
<1>1. len \in Nat /\ Len(items) \in Nat /\ len <= cap /\ Len(block) \in Nat
  BY VectorAssumption, SMT DEF VectorInv, TypeOK, CapIsTheBlock, Counter, AV_INITIAL_SIZE
<1>2. CASE items = <<>> \/ len + Len(items) <= Len(block)
  <2>1. data' = Written(block, len, items) /\ cap' = size
        /\ len' = len + Len(items) /\ UNCHANGED <<got, stage>>
    BY <1>2 DEF Store
  <2>2. data' \in Seq(Cell) /\ Len(data') = Len(block)
    BY <2>1, <1>1, WrittenIsBlock
  <2>3. len' <= size
    <3>1. CASE items = <<>>
      BY <3>1, <2>1, <1>1, SMT
    <3>2. CASE items # <<>>
      <4>1. Len(items) > 0
        BY <3>2, SMT
      <4>2. Len(block) = size
        BY <4>1, <1>1, <1>2, <3>2, SMT
      <4> QED  BY <4>2, <2>1, <1>2, <3>2
    <3> QED  BY <3>1, <3>2
  <2>4. len' \in Counter
    BY <2>3, <2>1, <1>1, VectorAssumption, SMT DEF Counter, AV_INITIAL_SIZE
  <2>5. data' = <<>> \/ Len(data') = cap'
    BY <2>1, <2>2, SMT
  <2> QED
    BY <2>1, <2>2, <2>3, <2>4, <2>5 DEF VectorInv, TypeOK, CapIsTheBlock
<1>3. CASE ~(items = <<>> \/ len + Len(items) <= Len(block))
  <2>1. End({"overrun"})
    BY <1>3 DEF Store
  <2> QED  BY <2>1 DEF End, VectorInv, TypeOK, CapIsTheBlock
<1> QED  BY <1>2, <1>3

LEMMA EndKeepsInv ==
  ASSUME VectorInv, End({"abort", "panic", "overrun"}) PROVE VectorInv'
BY DEF End, VectorInv, TypeOK, CapIsTheBlock

(* What av_append and av_append_many store into: the block itself, or a     *)
(* larger one.                                                              *)
LEMMA StoreInto ==
  ASSUME VectorInv, stage = "live", NEW n \in Nat, NEW size \in Counter
  PROVE  /\ data \in Seq(Cell) /\ len \in Nat /\ cap \in Counter /\ len <= cap
         /\ data = <<>> \/ Len(data) = cap
         /\ realloc(data, size) \in Seq(Cell) /\ Len(realloc(data, size)) = size
BY VectorAssumption, ReallocIsBlock, SMT
   DEF VectorInv, TypeOK, CapIsTheBlock, Counter, AV_INITIAL_SIZE

LEMMA AppendKeepsInv ==
  ASSUME VectorInv, stage = "live", NEW item \in Item, av_append(item) PROVE VectorInv'
<1>1. <<item>> \in Seq(Item) /\ <<item>> # <<>>
  OBVIOUS
<1>2. CASE (len + 1) % U32 <= cap
  BY <1>1, <1>2, StoreInto, StoreKeepsInv, cap \in Counter DEF av_append, VectorInv, TypeOK
<1>3. CASE ~((len + 1) % U32 <= cap) /\ Doubled = 0
  <2>1. End(NoBlock)
    BY <1>3 DEF av_append
  <2> QED  BY <2>1, EndKeepsInv DEF End, NoBlock
<1>4. CASE ~((len + 1) % U32 <= cap) /\ Doubled # 0
  <2>1. Store(realloc(data, Doubled), Doubled, <<item>>)
    BY <1>4 DEF av_append
  <2>2. Doubled \in Counter
    BY DoubledIsCounter DEF VectorInv, TypeOK
  <2>3. realloc(data, Doubled) \in Seq(Cell) /\ Len(realloc(data, Doubled)) = Doubled
    BY <2>2, StoreInto
  <2> QED  BY <1>1, <2>1, <2>2, <2>3, StoreKeepsInv
<1> QED  BY <1>2, <1>3, <1>4

LEMMA AppendManyKeepsInv ==
  ASSUME VectorInv, stage = "live", NEW items \in Batches, av_append_many(items)
  PROVE  VectorInv'
<1> DEFINE size == (cap + Len(items)) % U32
<1>1. items \in Seq(Item) /\ Len(items) \in Nat
  BY VectorAssumption
<1>2. size \in Counter
  <2>1. cap + Len(items) \in Nat
    BY <1>1, VectorAssumption, SMT DEF VectorInv, TypeOK, Counter, AV_INITIAL_SIZE
  <2> QED  BY <2>1, WrappedIsCounter
<1>3. CASE (len + Len(items)) % U32 <= cap
  <2>1. Store(data, cap, items)
    BY <1>3 DEF av_append_many
  <2> QED  BY <1>1, <2>1, StoreInto, StoreKeepsInv DEF VectorInv, TypeOK
<1>4. CASE ~((len + Len(items)) % U32 <= cap) /\ size = 0
  <2>1. End(NoBlock)
    BY <1>4 DEF av_append_many
  <2> QED  BY <2>1, EndKeepsInv DEF End, NoBlock
<1>5. CASE ~((len + Len(items)) % U32 <= cap) /\ size # 0
  <2>1. Store(realloc(data, size), size, items)
    BY <1>5 DEF av_append_many
  <2>2. items # <<>>
    <3>1. SUFFICES ASSUME items = <<>> PROVE FALSE
      OBVIOUS
    <3>2. len + Len(items) = len /\ len \in Nat /\ len < U32 /\ len <= cap
      BY <3>1, VectorAssumption, SMT
         DEF VectorInv, TypeOK, CapIsTheBlock, Counter, AV_INITIAL_SIZE
    <3>3. (len + Len(items)) % U32 = len
      BY <3>2, SmallIsNotWrapped
    <3> QED  BY <3>2, <3>3, <1>5
  <2>3. realloc(data, size) \in Seq(Cell) /\ Len(realloc(data, size)) = size
    BY <1>2, StoreInto
  <2> QED  BY <1>1, <1>2, <2>1, <2>2, <2>3, StoreKeepsInv
<1> QED  BY <1>3, <1>4, <1>5

LEMMA ReserveKeepsInv ==
  ASSUME VectorInv, stage = "live", NEW amt \in Counter, av_reserve(amt) PROVE VectorInv'
<1>1. CASE amt < len /\ UNCHANGED <<data, len, cap, got, stage>>
  BY <1>1 DEF VectorInv, TypeOK, CapIsTheBlock
<1>2. CASE /\ amt >= len /\ data' = realloc(data, amt) /\ cap' = amt
           /\ UNCHANGED <<len, got, stage>>
  <2>1. realloc(data, amt) \in Seq(Cell) /\ Len(realloc(data, amt)) = amt
    BY StoreInto
  <2>2. len' <= cap'
    BY <1>2, SMT DEF VectorInv, TypeOK, Counter
  <2> QED  BY <1>2, <2>1, <2>2 DEF VectorInv, TypeOK, CapIsTheBlock
<1>3. CASE End({"panic"})
  BY <1>3, EndKeepsInv DEF End
<1> QED  BY <1>1, <1>2, <1>3 DEF av_reserve

LEMMA ClearKeepsInv ==
  ASSUME VectorInv, stage = "live", av_clear PROVE VectorInv'
<1>1. CASE cap > Len(data)
  BY <1>1, EndKeepsInv DEF av_clear, End
<1>2. CASE ~(cap > Len(data))
  <2>1. /\ data' = [k \in 1 .. Len(data) |-> IF k <= cap THEN Zero ELSE data[k]]
        /\ len' = 0 /\ UNCHANGED <<cap, got, stage>>
    BY <1>2 DEF av_clear
  <2>2. \A k \in 1 .. Len(data) : (IF k <= cap THEN Zero ELSE data[k]) \in Cell
    BY SMT DEF VectorInv, TypeOK, Cell
  <2>3. data' \in Seq(Cell) /\ Len(data') = Len(data)
    BY <2>1, <2>2, SMT DEF VectorInv, TypeOK
  <2>4. 0 \in Counter /\ 0 <= cap
    BY VectorAssumption, SMT DEF VectorInv, TypeOK, Counter, AV_INITIAL_SIZE
  <2>5. data = <<>> => data' = <<>>
    BY <2>3, SMT DEF VectorInv, TypeOK
  <2> QED  BY <2>1, <2>3, <2>4, <2>5 DEF VectorInv, TypeOK, CapIsTheBlock
<1> QED  BY <1>1, <1>2

LEMMA ReadKeepsInv ==
  ASSUME VectorInv, stage = "live", NEW k \in Nat, k > 0, Read(k) PROVE VectorInv'
<1>1. CASE k <= Len(data)
  <2>1. data[k] \in Cell
    BY <1>1, SMT DEF VectorInv, TypeOK
  <2> QED  BY <1>1, <2>1 DEF Read, VectorInv, TypeOK, CapIsTheBlock
<1>2. CASE ~(k <= Len(data))
  BY <1>2, EndKeepsInv DEF Read, End
<1> QED  BY <1>1, <1>2

LEMMA PopKeepsInv ==
  ASSUME VectorInv, stage = "live", NEW pos \in Counter, av_pop(pos) PROVE VectorInv'
<1>1. CASE len = 0 \/ len > Len(data)
  BY <1>1, EndKeepsInv DEF av_pop, End
<1>2. CASE ~(len = 0 \/ len > Len(data))
  <2>1. got' = data[len] /\ len' = len - 1 /\ UNCHANGED <<data, cap, stage>>
    BY <1>2 DEF av_pop
  <2>2. data[len] \in Cell /\ len - 1 \in Counter /\ len - 1 <= cap
    BY <1>2, VectorAssumption, SMT DEF VectorInv, TypeOK, CapIsTheBlock, Counter, AV_INITIAL_SIZE
  <2> QED  BY <2>1, <2>2 DEF VectorInv, TypeOK, CapIsTheBlock
<1> QED  BY <1>1, <1>2

LEMMA PopManyKeepsInv ==
  ASSUME VectorInv, stage = "live", NEW count \in Counter, av_pop_many(count) PROVE VectorInv'
<1>1. CASE count < len
  <2>1. len' = len - count /\ UNCHANGED <<data, cap, got, stage>>
    BY <1>1 DEF av_pop_many
  <2>2. len - count \in Counter /\ len - count <= cap
    BY <1>1, VectorAssumption, SMT DEF VectorInv, TypeOK, CapIsTheBlock, Counter, AV_INITIAL_SIZE
  <2> QED  BY <2>1, <2>2 DEF VectorInv, TypeOK, CapIsTheBlock
<1>2. CASE ~(count < len)
  BY <1>2, EndKeepsInv DEF av_pop_many, End
<1> QED  BY <1>1, <1>2

(* The invariant holds of every vector.                                     *)
THEOREM VectorInvariant == Spec => []VectorInv
<1>1. Init => VectorInv
  <2> SUFFICES ASSUME Init PROVE VectorInv
    OBVIOUS
  <2>1. data = <<>> /\ data \in Seq(Cell)
    BY DEF Init
  <2>2. len = 0 /\ cap = 0 /\ 0 \in Counter
    BY VectorAssumption, SMT DEF Init, Counter, AV_INITIAL_SIZE
  <2>3. got \in Cell /\ stage = "live"
    BY DEF Init, Cell
  <2> QED  BY <2>1, <2>2, <2>3 DEF VectorInv, TypeOK, CapIsTheBlock
<1>2. VectorInv /\ [Next]_vectorVars => VectorInv'
  <2> SUFFICES ASSUME VectorInv, [Next]_vectorVars PROVE VectorInv'
    OBVIOUS
  <2>1. CASE UNCHANGED vectorVars
    BY <2>1 DEF vectorVars, VectorInv, TypeOK, CapIsTheBlock
  <2>2. ASSUME NEW item \in Item, av_append(item) PROVE VectorInv'
    BY <2>2, AppendKeepsInv DEF av_append, Using
  <2>3. ASSUME NEW items \in Batches, av_append_many(items) PROVE VectorInv'
    BY <2>3, AppendManyKeepsInv DEF av_append_many, Using
  <2>4. ASSUME NEW amt \in Counter, av_reserve(amt) PROVE VectorInv'
    BY <2>4, ReserveKeepsInv DEF av_reserve, Using
  <2>5. CASE av_clear
    BY <2>5, ClearKeepsInv DEF av_clear, Using
  <2>6. CASE av_free
    <3>1. data' = <<>> /\ UNCHANGED <<len, cap, got, stage>> /\ stage = "live"
      BY <2>6 DEF av_free, Using
    <3>2. data' \in Seq(Cell)
      BY <3>1
    <3> QED  BY <3>1, <3>2 DEF VectorInv, TypeOK, CapIsTheBlock
  <2>7. CASE av_last
    <3>1. CASE len > 0
      BY <3>1, <2>7, ReadKeepsInv, SMT DEF av_last, Using, VectorInv, TypeOK, Counter
    <3>2. CASE ~(len > 0)
      BY <3>2, <2>7, EndKeepsInv DEF av_last, Using, End
    <3> QED  BY <3>1, <3>2
  <2>8. ASSUME NEW pos \in Counter, av_at(pos) PROVE VectorInv'
    <3>1. CASE pos < len
      <4>1. Read(pos + 1) /\ stage = "live"
        BY <3>1, <2>8 DEF av_at, Using
      <4>2. pos + 1 \in Nat /\ pos + 1 > 0
        BY <2>8, SMT DEF Counter
      <4> QED  BY <4>1, <4>2, ReadKeepsInv
    <3>2. CASE ~(pos < len)
      BY <3>2, <2>8, EndKeepsInv DEF av_at, Using, End
    <3> QED  BY <3>1, <3>2
  <2>9. ASSUME NEW pos \in Counter, av_pop(pos) PROVE VectorInv'
    BY <2>9, PopKeepsInv DEF av_pop, Using
  <2>10. ASSUME NEW count \in Counter, av_pop_many(count) PROVE VectorInv'
    BY <2>10, PopManyKeepsInv DEF av_pop_many, Using
  <2> QED
    BY <2>1, <2>2, <2>3, <2>4, <2>5, <2>6, <2>7, <2>8, <2>9, <2>10 DEF Next
<1> QED  BY <1>1, <1>2, PTL DEF Spec

(* The type invariant, for every width.                                     *)
THEOREM VectorTypes == Spec => []TypeOK
BY VectorInvariant, PTL DEF VectorInv

(* However the counters wrap, a vector that lives has a block of `cap`       *)
(* cells or none, and `len` is within it.                                   *)
THEOREM CapacityIsTheBlock == Spec => []CapIsTheBlock
BY VectorInvariant, PTL DEF VectorInv

-----------------------------------------------------------------------------
(* What a vector holds.                                                     *)

LEMMA HeldIs ==
  ASSUME NEW block \in Seq(Cell), NEW n \in Nat, block = <<>> \/ n <= Len(block)
  PROVE  /\ Held(block, n) \in Seq(Cell) /\ Len(Held(block, n)) = n
         /\ \A k \in 1 .. n :
              Held(block, n)[k] = IF block = <<>> THEN Junk ELSE block[k]
<1>1. CASE block = <<>>
  <2>1. Junk \in Cell
    BY DEF Cell
  <2>2. Held(block, n) = [k \in 1 .. n |-> Junk]
    BY <1>1 DEF Held
  <2> QED  BY <1>1, <2>1, <2>2, SMT
<1>2. CASE block # <<>>
  <2>1. Held(block, n) = SubSeq(block, 1, n)
    BY <1>2 DEF Held
  <2>2. \A k \in 1 .. n : block[k] \in Cell
    BY <1>2, ElementOfSeq, SMT
  <2>3. 1 \in Int /\ n \in Int
    BY SMT
  <2>4. /\ SubSeq(block, 1, n) \in Seq(Cell)
        /\ Len(SubSeq(block, 1, n)) = IF 1 <= n THEN n - 1 + 1 ELSE 0
        /\ \A k \in 1 .. n - 1 + 1 : SubSeq(block, 1, n)[k] = block[1 + k - 1]
    BY <2>2, <2>3, SubSeqProperties
  <2> QED  BY <1>2, <2>1, <2>4, SMT
<1> QED  BY <1>1, <1>2

(* A shorter vector holds the beginning of what a longer one holds.         *)
LEMMA HeldBeginning ==
  ASSUME NEW block \in Seq(Cell), NEW n \in Nat, NEW m \in 0 .. n,
         block = <<>> \/ n <= Len(block)
  PROVE  Held(block, m) = SubSeq(Held(block, n), 1, m)
<1> DEFINE v == Held(block, n)  w == SubSeq(v, 1, m)
<1>1. m \in Nat /\ m \in Int /\ 1 \in Int /\ (block = <<>> \/ m <= Len(block))
  BY SMT
<1>2. /\ v \in Seq(Cell) /\ Len(v) = n
      /\ \A k \in 1 .. n : v[k] = IF block = <<>> THEN Junk ELSE block[k]
  BY HeldIs
<1>3. /\ Held(block, m) \in Seq(Cell) /\ Len(Held(block, m)) = m
      /\ \A k \in 1 .. m :
           Held(block, m)[k] = IF block = <<>> THEN Junk ELSE block[k]
  BY <1>1, HeldIs
<1> HIDE DEF v
<1>4. \A k \in 1 .. m : v[k] \in Cell
  BY <1>2, ElementOfSeq, SMT
<1>5. /\ w \in Seq(Cell)
      /\ Len(w) = IF 1 <= m THEN m - 1 + 1 ELSE 0
      /\ \A k \in 1 .. m - 1 + 1 : w[k] = v[1 + k - 1]
  BY <1>1, <1>4, SubSeqProperties
<1> HIDE DEF w
<1>6. Len(w) = m /\ \A k \in 1 .. m : w[k] = v[k]
  BY <1>1, <1>5, SMT
<1>7. \A k \in 1 .. m : Held(block, m)[k] = w[k]
  BY <1>2, <1>3, <1>6, SMT
<1>8. Held(block, m) = w
  BY <1>3, <1>5, <1>6, <1>7, SeqEqual
<1> QED  BY <1>8 DEF w, v

(* No item is lost when a block is moved.                                   *)
LEMMA ReallocHolds ==
  ASSUME NEW block \in Seq(Cell), NEW n \in Nat, NEW size \in Nat, n <= size,
         block = <<>> \/ n <= Len(block)
  PROVE  \A k \in 1 .. n : realloc(block, size)[k] = Held(block, n)[k]
<1>1. \A k \in 1 .. n :
        Held(block, n)[k] = IF block = <<>> THEN Junk ELSE block[k]
  BY HeldIs
<1>2. \A k \in 1 .. size :
        realloc(block, size)[k] = IF k <= Len(block) THEN block[k] ELSE Junk
  BY DEF realloc
<1>3. block = <<>> => Len(block) = 0
  OBVIOUS
<1>4. Len(block) \in Nat
  BY LenProperties
<1> QED  BY <1>1, <1>2, <1>3, <1>4, SMT

(* A store adds its items behind those that were held.                      *)
LEMMA StoreHolds ==
  ASSUME NEW block \in Seq(Cell), NEW n \in Nat, NEW items \in Seq(Item),
         items # <<>>, n + Len(items) <= Len(block),
         NEW v \in Seq(Cell), Len(v) = n, \A k \in 1 .. n : block[k] = v[k]
  PROVE  /\ Held(Written(block, n, items), n + Len(items)) = v \o items
         /\ Written(block, n, items) # <<>>
<1> DEFINE new == Written(block, n, items)  m == n + Len(items)
<1>1. Len(items) \in Nat /\ Len(items) > 0 /\ Len(block) \in Nat /\ m \in Nat
  BY EmptySeq, LenProperties, SMT
<1>2. new \in Seq(Cell) /\ Len(new) = Len(block)
  BY WrittenIsBlock
<1>3. \A k \in 1 .. Len(block) :
        new[k] = IF k \in n + 1 .. n + Len(items) THEN items[k - n] ELSE block[k]
  BY DEF Written
<1>4. Item \subseteq Cell
  BY DEF Cell
<1>5. items \in Seq(Cell)
  BY <1>4, SeqMonotonic
<1> HIDE DEF new
<1>6. new # <<>>
  BY <1>1, <1>2, EmptySeq, SMT
<1>7. /\ Held(new, m) \in Seq(Cell) /\ Len(Held(new, m)) = m
      /\ \A k \in 1 .. m : Held(new, m)[k] = IF new = <<>> THEN Junk ELSE new[k]
  BY <1>1, <1>2, HeldIs
<1>8. /\ v \o items \in Seq(Cell) /\ Len(v \o items) = m
      /\ \A k \in 1 .. m : (v \o items)[k] = IF k <= n THEN v[k] ELSE items[k - n]
  BY <1>5, ConcatProperties
<1>9. \A k \in 1 .. m : Held(new, m)[k] = (v \o items)[k]
  <2> SUFFICES ASSUME NEW k \in 1 .. m PROVE Held(new, m)[k] = (v \o items)[k]
    OBVIOUS
  <2>1. Held(new, m)[k] = new[k] /\ k \in 1 .. Len(block)
    BY <1>1, <1>6, <1>7, SMT
  <2>2. CASE k <= n
    <3>1. k \in 1 .. n /\ k \notin n + 1 .. n + Len(items)
      BY <2>2, <1>1, SMT
    <3>2. new[k] = block[k] /\ block[k] = v[k]
      BY <3>1, <2>1, <1>3
    <3> QED  BY <3>2, <2>1, <2>2, <1>8
  <2>3. CASE ~(k <= n)
    <3>1. k \in n + 1 .. n + Len(items)
      BY <2>3, <1>1, SMT
    <3>2. new[k] = items[k - n]
      BY <3>1, <2>1, <1>3
    <3> QED  BY <3>2, <2>1, <2>3, <1>8
  <2> QED  BY <2>2, <2>3
<1>10. Held(new, m) = v \o items
  BY <1>7, <1>8, <1>9, SeqEqual
<1> QED  BY <1>6, <1>10 DEF new

-----------------------------------------------------------------------------
(* Each macro is a step of VectorValues.                                    *)

Value == Held(data, len)
Spent == data = <<>> /\ cap > 0

(* What the invariant says of the two counters, the block and the value.     *)
LEMMA StateFacts ==
  ASSUME VectorInv, stage = "live"
  PROVE  /\ len \in Nat /\ cap \in Nat /\ len < U32 /\ cap < U32 /\ len <= cap
         /\ data \in Seq(Cell) /\ Len(data) \in Nat
         /\ data = <<>> => Len(data) = 0
         /\ data # <<>> => Len(data) = cap /\ len <= Len(data)
         /\ Value \in Seq(Cell) /\ Len(Value) = len
         /\ \A k \in 1 .. len : Value[k] = IF data = <<>> THEN Junk ELSE data[k]
<1>1. /\ len \in Nat /\ cap \in Nat /\ len < U32 /\ cap < U32 /\ len <= cap
      /\ data = <<>> \/ Len(data) = cap
  BY VectorAssumption, SMT
     DEF VectorInv, TypeOK, CapIsTheBlock, Counter, AV_INITIAL_SIZE
<1>2. data \in Seq(Cell) /\ Len(data) \in Nat /\ (data = <<>> => Len(data) = 0)
  BY LenProperties, EmptySeq DEF VectorInv, TypeOK
<1>3. data = <<>> \/ len <= Len(data)
  BY <1>1
<1>4. /\ Value \in Seq(Cell) /\ Len(Value) = len
      /\ \A k \in 1 .. len : Value[k] = IF data = <<>> THEN Junk ELSE data[k]
  BY <1>1, <1>2, <1>3, HeldIs DEF Value
<1> QED  BY <1>1, <1>2, <1>3, <1>4

(* Items that fit are added to the value, and the vector has a block.        *)
LEMMA StoreAdds ==
  ASSUME VectorInv, stage = "live", NEW items \in Seq(Item), items # <<>>,
         NEW block \in Seq(Cell), NEW size, Store(block, size, items),
         len + Len(items) <= Len(block),
         \A k \in 1 .. len : block[k] = Value[k]
  PROVE  Value' = Value \o items /\ ~Spent' /\ UNCHANGED <<got, stage>>
<1>1. /\ data' = Written(block, len, items) /\ len' = len + Len(items)
      /\ UNCHANGED <<got, stage>>
  BY DEF Store
<1>2. len \in Nat /\ Value \in Seq(Cell) /\ Len(Value) = len
  BY StateFacts
<1>3. /\ Held(Written(block, len, items), len + Len(items)) = Value \o items
      /\ Written(block, len, items) # <<>>
  <2> DEFINE v == Value  n == len
  <2>1. v \in Seq(Cell) /\ Len(v) = n /\ n \in Nat
    BY <1>2
  <2>2. \A k \in 1 .. n : block[k] = v[k]
    OBVIOUS
  <2>3. n + Len(items) <= Len(block)
    OBVIOUS
  <2> HIDE DEF v, n
  <2>4. /\ Held(Written(block, n, items), n + Len(items)) = v \o items
        /\ Written(block, n, items) # <<>>
    BY <2>1, <2>2, <2>3, StoreHolds
  <2> QED  BY <2>4 DEF v, n
<1> QED  BY <1>1, <1>3 DEF Value, Spent

(* A store that does not fit changes nothing and ends the process.           *)
LEMMA EndKeepsValue ==
  ASSUME NEW how, End(how)
  PROVE  stage' \in how /\ Value' = Value /\ (Spent' <=> Spent) /\ got' = got
BY DEF End, Value, Spent

LEMMA StoreFailsTo ==
  ASSUME NEW items, NEW block, NEW size, Store(block, size, items),
         items # <<>>, ~(len + Len(items) <= Len(block))
  PROVE  End({"overrun"})
BY DEF Store

(* The block itself holds the value, if there is one; so does a larger one.  *)
LEMMA BlocksHoldValue ==
  ASSUME VectorInv, stage = "live", NEW size \in Nat, len <= size
  PROVE  /\ data # <<>> => \A k \in 1 .. len : data[k] = Value[k]
         /\ \A k \in 1 .. len : realloc(data, size)[k] = Value[k]
         /\ realloc(data, size) \in Seq(Cell) /\ Len(realloc(data, size)) = size
<1>1. data \in Seq(Cell) /\ len \in Nat /\ (data = <<>> \/ len <= Len(data))
  BY StateFacts
<1>2. \A k \in 1 .. len : realloc(data, size)[k] = Held(data, len)[k]
  BY <1>1, ReallocHolds
<1>3. data # <<>> => \A k \in 1 .. len : data[k] = Value[k]
  BY StateFacts
<1> QED  BY <1>1, <1>2, <1>3, ReallocIsBlock DEF Value

LEMMA AppendStep ==
  ASSUME VectorInv, stage = "live", NEW item \in Item, av_append(item)
  PROVE  \/ Value' = Append(Value, item) /\ ~Spent' /\ UNCHANGED <<got, stage>>
         \/ /\ stage' \in {"overrun", "panic"} /\ (Spent \/ 2 * Len(Value) >= U32)
            /\ Value' = Value /\ (Spent' <=> Spent) /\ got' = got
<1> DEFINE one == <<item>>
<1>1. one \in Seq(Item) /\ one # <<>> /\ Len(one) = 1
  OBVIOUS
<1>2. /\ len \in Nat /\ cap \in Nat /\ len < U32 /\ cap < U32 /\ len <= cap
      /\ data \in Seq(Cell) /\ Len(data) \in Nat
      /\ data = <<>> => Len(data) = 0
      /\ data # <<>> => Len(data) = cap /\ len <= Len(data)
      /\ Value \in Seq(Cell) /\ Len(Value) = len
  BY StateFacts
<1>3. Value \o one = Append(Value, item)
  BY <1>2, AppendIsConcat, Item \subseteq Cell DEF Cell
<1>4. U32 \in Nat /\ U32 > 5
  BY VectorAssumption DEF AV_INITIAL_SIZE
<1>5. (len + 1) % U32 = IF len + 1 < U32 THEN len + 1 ELSE 0
  <2>1. CASE len + 1 < U32
    BY <2>1, <1>2, SmallIsNotWrapped
  <2>2. CASE ~(len + 1 < U32)
    <3>1. len + 1 = U32
      BY <2>2, <1>2, <1>4, SMT
    <3> QED  BY <3>1, <2>2, <1>4, SMT
  <2> QED  BY <2>1, <2>2
<1> HIDE DEF one
<1>6. CASE (len + 1) % U32 <= cap
  <2>1. Store(data, cap, one)
    BY <1>6 DEF av_append, one
  <2>2. CASE len + 1 <= Len(data)
    <3>1. data # <<>>
      BY <2>2, <1>2, SMT
    <3>2. \A k \in 1 .. len : data[k] = Value[k]
      BY <3>1, <1>2, BlocksHoldValue
    <3> QED  BY <2>1, <2>2, <3>2, <1>1, <1>2, <1>3, StoreAdds
  <2>3. CASE ~(len + 1 <= Len(data))
    <3>1. End({"overrun"})
      BY <2>1, <2>3, <1>1, StoreFailsTo
    <3>2. (data = <<>> /\ cap > 0) \/ 2 * len >= U32
      BY <2>3, <1>2, <1>4, <1>5, <1>6, SMT
    <3> QED  BY <3>1, <3>2, <1>2, EndKeepsValue DEF Spent
  <2> QED  BY <2>2, <2>3
<1>7. CASE ~((len + 1) % U32 <= cap)
  <2>1. len = cap
    BY <1>2, <1>4, <1>5, <1>7, SMT
  <2>2. /\ Doubled \in Nat
        /\ cap = 0 => Doubled = 5
        /\ cap > 0 /\ 2 * cap < U32 => Doubled = 2 * cap
    BY <1>2, DoubledIsCounter DEF VectorInv, TypeOK, Counter
  <2>3. CASE Doubled >= len + 1
    <3>1. Store(realloc(data, Doubled), Doubled, one)
      BY <1>2, <1>7, <2>2, <2>3 DEF av_append, one
    <3>2. /\ realloc(data, Doubled) \in Seq(Cell)
          /\ Len(realloc(data, Doubled)) = Doubled
          /\ \A k \in 1 .. len : realloc(data, Doubled)[k] = Value[k]
      BY <1>2, <2>2, <2>3, BlocksHoldValue
    <3> QED  BY <3>1, <3>2, <1>1, <1>3, <2>3, StoreAdds
  <2>4. CASE ~(Doubled >= len + 1)
    <3>1. 2 * len >= U32
      BY <1>2, <1>4, <2>1, <2>2, <2>4, SMT
    <3>2. CASE Doubled = 0
      <4>1. End(NoBlock)
        BY <1>7, <3>2 DEF av_append
      <4> QED  BY <4>1, <3>1, <1>2, EndKeepsValue DEF NoBlock
    <3>3. CASE Doubled # 0
      <4>1. Store(realloc(data, Doubled), Doubled, one)
        BY <1>7, <3>3 DEF av_append, one
      <4>2. Len(realloc(data, Doubled)) = Doubled
        BY <1>2, <2>2, ReallocIsBlock
      <4>3. End({"overrun"})
        BY <4>1, <4>2, <2>2, <2>4, <1>1, <1>2, StoreFailsTo
      <4> QED  BY <4>3, <3>1, <1>2, EndKeepsValue
    <3> QED  BY <3>2, <3>3
  <2> QED  BY <2>3, <2>4
<1> QED  BY <1>6, <1>7

LEMMA AppendManyStep ==
  ASSUME VectorInv, stage = "live", NEW items \in Batches, av_append_many(items)
  PROVE  \/ /\ Value' = Value \o items /\ (Spent' <=> Spent /\ items = <<>>)
            /\ UNCHANGED <<got, stage>>
         \/ /\ stage' \in {"overrun", "panic"}
            /\ Spent \/ Len(Value) + 2 * Len(items) > U32
            /\ Value' = Value /\ (Spent' <=> Spent) /\ got' = got
<1> DEFINE n == Len(items)  size == (cap + n) % U32
<1>1. items \in Seq(Item) /\ n \in Nat /\ n < U32 /\ (items = <<>> <=> n = 0)
  BY VectorAssumption, EmptySeq, LenProperties, SMT
<1>2. /\ len \in Nat /\ cap \in Nat /\ len < U32 /\ cap < U32 /\ len <= cap
      /\ data \in Seq(Cell) /\ Len(data) \in Nat
      /\ data = <<>> => Len(data) = 0
      /\ data # <<>> => Len(data) = cap /\ len <= Len(data)
      /\ Value \in Seq(Cell) /\ Len(Value) = len
  BY StateFacts
<1>3. U32 \in Nat /\ U32 > 5
  BY VectorAssumption DEF AV_INITIAL_SIZE
<1>4. /\ len + n < U32 => (len + n) % U32 = len + n
      /\ cap + n < U32 => size = cap + n
      /\ size \in Nat
  <2>1. len + n \in Nat /\ cap + n \in Nat
    BY <1>1, <1>2, SMT
  <2>2. len + n < U32 => (len + n) % U32 = len + n
    BY <2>1, SmallIsNotWrapped
  <2>3. cap + n < U32 => (cap + n) % U32 = cap + n
    BY <2>1, SmallIsNotWrapped
  <2>4. (cap + n) % U32 \in Counter
    BY <2>1, WrappedIsCounter
  <2>5. (cap + n) % U32 \in Nat
    BY <2>4, <1>3, SMT DEF Counter
  <2> QED  BY <2>2, <2>3, <2>5
<1> HIDE DEF n, size
<1>5. CASE items = <<>>
  <2>1. n = 0 /\ (len + n) % U32 <= cap
    BY <1>1, <1>2, <1>4, <1>5, SMT
  <2>2. Store(data, cap, items)
    BY <2>1 DEF av_append_many, n
  <2>3. /\ data' = Written(data, len, items) /\ len' = len + n /\ cap' = cap
        /\ UNCHANGED <<got, stage>>
    BY <1>5, <2>2 DEF Store, n
  <2>4. Written(data, len, items) = data
    <3>1. \A k \in 1 .. Len(data) : k \notin len + 1 .. len + Len(items)
      BY <1>2, <2>1, SMT DEF n
    <3>2. \A k \in 1 .. Len(data) : Written(data, len, items)[k] = data[k]
      BY <3>1 DEF Written
    <3>3. /\ Written(data, len, items) \in Seq(Cell)
          /\ Len(Written(data, len, items)) = Len(data)
      BY <1>1, <1>2, WrittenIsBlock
    <3> QED  BY <3>2, <3>3, <1>2, SeqEqual
  <2>5. len' = len /\ data' = data
    BY <1>2, <2>1, <2>3, <2>4, SMT
  <2>6. Value \o items = Value
    BY <1>2, <1>5, ConcatEmptySeq
  <2> QED  BY <1>5, <2>3, <2>5, <2>6 DEF Value, Spent
<1>6. CASE items # <<>> /\ (len + n) % U32 <= cap
  <2>1. Store(data, cap, items)
    BY <1>6 DEF av_append_many, n
  <2>2. CASE len + n <= Len(data)
    <3>1. data # <<>>
      BY <2>2, <1>1, <1>2, <1>6, SMT
    <3>2. \A k \in 1 .. len : data[k] = Value[k]
      BY <3>1, <1>2, BlocksHoldValue
    <3> QED  BY <2>1, <2>2, <3>2, <1>1, <1>2, <1>6, StoreAdds DEF n
  <2>3. CASE ~(len + n <= Len(data))
    <3>1. End({"overrun"})
      BY <2>1, <2>3, <1>6, StoreFailsTo DEF n
    <3>2. (data = <<>> /\ cap > 0) \/ len + 2 * n > U32
      BY <2>3, <1>1, <1>2, <1>3, <1>4, <1>6, SMT
    <3> QED  BY <3>1, <3>2, <1>2, EndKeepsValue DEF Spent, n
  <2> QED  BY <2>2, <2>3
<1>7. CASE items # <<>> /\ ~((len + n) % U32 <= cap)
  <2>1. CASE size >= len + n
    <3>1. Store(realloc(data, size), size, items)
      BY <1>1, <1>2, <1>7, <2>1 DEF av_append_many, n, size
    <3>2. /\ realloc(data, size) \in Seq(Cell) /\ Len(realloc(data, size)) = size
          /\ \A k \in 1 .. len : realloc(data, size)[k] = Value[k]
      <4>1. len <= size
        BY <1>1, <1>2, <1>4, <2>1, SMT
      <4> QED  BY <4>1, <1>4, BlocksHoldValue
    <3> QED  BY <3>1, <3>2, <1>1, <1>7, <2>1, StoreAdds DEF n
  <2>2. CASE ~(size >= len + n)
    <3>1. len + 2 * n > U32
      <4>1. n \in Nat /\ n > 0 /\ len \in Nat /\ cap \in Nat /\ U32 \in Nat /\ len <= cap
        BY <1>1, <1>2, <1>3, <1>7
      <4>2. CASE len + n < U32
        <5>1. len + n > cap
          BY <1>4, <1>7, <4>1, <4>2
        <5>2. cap + n >= U32
          BY <1>4, <2>2, <4>1
        <5> QED  BY <4>1, <5>1, <5>2
      <4>3. CASE ~(len + n < U32)
        BY <4>1, <4>3
      <4> QED  BY <4>2, <4>3
    <3>2. CASE size = 0
      <4>1. End(NoBlock)
        BY <1>7, <3>2 DEF av_append_many, n, size
      <4> QED  BY <4>1, <3>1, <1>2, EndKeepsValue DEF NoBlock, n
    <3>3. CASE size # 0
      <4>1. Store(realloc(data, size), size, items)
        BY <1>7, <3>3 DEF av_append_many, n, size
      <4>2. Len(realloc(data, size)) = size
        BY <1>2, <1>4, ReallocIsBlock
      <4>3. End({"overrun"})
        BY <4>1, <4>2, <1>1, <1>2, <1>4, <1>7, <2>2, StoreFailsTo, SMT DEF n
      <4> QED  BY <4>3, <3>1, <1>2, EndKeepsValue DEF n
    <3> QED  BY <3>2, <3>3
  <2> QED  BY <2>1, <2>2
<1> QED  BY <1>5, <1>6, <1>7

LEMMA ReserveStep ==
  ASSUME VectorInv, stage = "live", NEW amt \in Counter, av_reserve(amt)
  PROVE  \/ /\ Value' = Value /\ (Spent' => Spent) /\ UNCHANGED <<got, stage>>
         \/ /\ stage' = "panic" /\ Value = <<>>
            /\ Value' = Value /\ (Spent' <=> Spent) /\ got' = got
<1>1. /\ len \in Nat /\ amt \in Nat /\ data \in Seq(Cell)
      /\ Value \in Seq(Cell) /\ Len(Value) = len
  BY StateFacts DEF Counter
<1>2. CASE UNCHANGED <<data, len, cap, got, stage>>
  BY <1>2 DEF Value, Spent
<1>3. CASE /\ amt >= len /\ (amt > 0 \/ data = <<>>)
           /\ data' = realloc(data, amt) /\ cap' = amt /\ UNCHANGED <<len, got, stage>>
  <2>1. /\ realloc(data, amt) \in Seq(Cell) /\ Len(realloc(data, amt)) = amt
        /\ \A k \in 1 .. len : realloc(data, amt)[k] = Value[k]
    BY <1>1, <1>3, BlocksHoldValue
  <2>2. CASE amt > 0
    <3>1. data' # <<>> /\ len <= Len(data')
      BY <1>1, <1>3, <2>1, <2>2, EmptySeq, SMT
    <3>2. /\ Held(data', len) \in Seq(Cell) /\ Len(Held(data', len)) = len
          /\ \A k \in 1 .. len : Held(data', len)[k] = data'[k]
      BY <3>1, <1>1, <1>3, <2>1, HeldIs
    <3>3. Held(data', len) = Value
      <4>1. \A k \in 1 .. len : Held(data', len)[k] = Value[k]
        BY <3>2, <1>3, <2>1
      <4>2. Value \in Seq(Cell) /\ Len(Value) = len
        BY <1>1
      <4> QED  BY <3>2, <4>1, <4>2, SeqEqual
    <3> QED  BY <3>1, <3>3, <1>3 DEF Value, Spent
  <2>3. CASE ~(amt > 0)
    <3>1. amt = 0 /\ data = <<>>
      BY <1>1, <1>3, <2>3, SMT
    <3>2. data' = <<>>
      BY <3>1, <1>3, <2>1, EmptySeq, SMT
    <3> QED  BY <3>1, <3>2, <1>1, <1>3, SMT DEF Value, Spent
  <2> QED  BY <2>2, <2>3
<1>4. CASE amt >= len /\ amt = 0 /\ End({"panic"})
  <2>1. Value = <<>>
    BY <1>1, <1>4, EmptySeq, SMT
  <2> QED  BY <2>1, <1>4, EndKeepsValue
<1> QED  BY <1>2, <1>3, <1>4 DEF av_reserve

LEMMA ClearStep ==
  ASSUME VectorInv, stage = "live", av_clear
  PROVE  \/ /\ ~Spent /\ Value' = <<>> /\ (Spent' <=> Spent) /\ UNCHANGED <<got, stage>>
         \/ /\ Spent /\ stage' = "overrun"
            /\ Value' = Value /\ (Spent' <=> Spent) /\ got' = got
<1>1. /\ cap \in Nat /\ data \in Seq(Cell) /\ Len(data) \in Nat
      /\ data = <<>> => Len(data) = 0
      /\ data # <<>> => Len(data) = cap
  BY StateFacts
<1>2. CASE cap > Len(data)
  <2>1. End({"overrun"})
    BY <1>2 DEF av_clear
  <2>2. Spent
    BY <1>1, <1>2, SMT DEF Spent
  <2> QED  BY <2>1, <2>2, EndKeepsValue
<1>3. CASE ~(cap > Len(data))
  <2>1. /\ data' = [k \in 1 .. Len(data) |-> IF k <= cap THEN Zero ELSE data[k]]
        /\ len' = 0 /\ cap' = cap /\ UNCHANGED <<got, stage>>
    BY <1>3 DEF av_clear
  <2>2. \A k \in 1 .. Len(data) : (IF k <= cap THEN Zero ELSE data[k]) \in Cell
    BY <1>1, SMT DEF Cell
  <2>3. data' \in Seq(Cell) /\ Len(data') = Len(data)
    BY <2>1, <2>2, <1>1, SMT
  <2>4. data' = <<>> <=> data = <<>>
    BY <2>3, <1>1, EmptySeq, SMT
  <2>5. ~Spent
    BY <1>1, <1>3, SMT DEF Spent
  <2>6. Held(data', 0) = <<>>
    <3>1. Held(data', 0) \in Seq(Cell) /\ Len(Held(data', 0)) = 0
      BY <2>3, <1>1, HeldIs, SMT
    <3> QED  BY <3>1, EmptySeq, SMT
  <2> QED  BY <2>1, <2>4, <2>5, <2>6 DEF Value, Spent
<1> QED  BY <1>2, <1>3

LEMMA FreeStep ==
  ASSUME VectorInv, stage = "live", av_free
  PROVE  /\ Value' = [k \in 1 .. Len(Value) |-> Junk]
         /\ Spent' \/ Value = <<>>
         /\ UNCHANGED <<got, stage>>
<1>1. /\ len \in Nat /\ cap \in Nat /\ len <= cap
      /\ Value \in Seq(Cell) /\ Len(Value) = len
  BY StateFacts
<1>2. data' = <<>> /\ UNCHANGED <<len, cap, got, stage>>
  BY DEF av_free
<1>3. cap > 0 \/ Value = <<>>
  BY <1>1, EmptySeq, SMT
<1> QED  BY <1>1, <1>2, <1>3 DEF Value, Spent, Held

LEMMA ReadStep ==
  ASSUME VectorInv, stage = "live", NEW k \in Nat, 1 <= k, k <= len, Read(k)
  PROVE  \/ /\ ~Spent /\ k \in 1 .. Len(Value) /\ got' = Value[k]
            /\ Value' = Value /\ (Spent' <=> Spent) /\ stage' = stage
         \/ /\ Spent /\ stage' = "overrun"
            /\ Value' = Value /\ (Spent' <=> Spent) /\ got' = got
<1>1. /\ len \in Nat /\ cap \in Nat /\ len <= cap /\ Len(data) \in Nat
      /\ data = <<>> => Len(data) = 0
      /\ data # <<>> => Len(data) = cap /\ len <= Len(data)
      /\ Len(Value) = len
      /\ \A j \in 1 .. len : Value[j] = IF data = <<>> THEN Junk ELSE data[j]
  BY StateFacts
<1>2. k \in 1 .. len
  BY <1>1, SMT
<1>3. CASE k <= Len(data)
  <2>1. data # <<>>
    BY <1>1, <1>3, SMT
  <2>2. got' = data[k] /\ UNCHANGED <<data, len, cap, stage>>
    BY <1>3 DEF Read
  <2> QED  BY <2>1, <2>2, <1>1, <1>2 DEF Value, Spent
<1>4. CASE ~(k <= Len(data))
  <2>1. End({"overrun"})
    BY <1>4 DEF Read
  <2>2. Spent
    BY <1>1, <1>4, SMT DEF Spent
  <2> QED  BY <2>1, <2>2, EndKeepsValue
<1> QED  BY <1>3, <1>4

LEMMA PopStep ==
  ASSUME VectorInv, stage = "live", NEW pos, av_pop(pos)
  PROVE  \/ /\ ~Spent /\ Value # <<>> /\ got' = Value[Len(Value)]
            /\ Value' = SubSeq(Value, 1, Len(Value) - 1)
            /\ (Spent' <=> Spent) /\ stage' = stage
         \/ /\ Value = <<>> /\ stage' = "abort"
            /\ Value' = Value /\ (Spent' <=> Spent) /\ got' = got
         \/ /\ Spent /\ stage' = "overrun"
            /\ Value' = Value /\ (Spent' <=> Spent) /\ got' = got
<1>1. /\ len \in Nat /\ cap \in Nat /\ len <= cap /\ Len(data) \in Nat
      /\ data \in Seq(Cell)
      /\ data = <<>> => Len(data) = 0
      /\ data # <<>> => Len(data) = cap /\ len <= Len(data)
      /\ Value \in Seq(Cell) /\ Len(Value) = len
      /\ \A j \in 1 .. len : Value[j] = IF data = <<>> THEN Junk ELSE data[j]
  BY StateFacts
<1>2. CASE len = 0
  <2>1. End({"abort"}) /\ Value = <<>>
    BY <1>1, <1>2, EmptySeq DEF av_pop
  <2> QED  BY <2>1, EndKeepsValue
<1>3. CASE len # 0 /\ len > Len(data)
  <2>1. End({"overrun"})
    BY <1>3 DEF av_pop
  <2>2. Spent
    BY <1>1, <1>3, SMT DEF Spent
  <2> QED  BY <2>1, <2>2, EndKeepsValue
<1>4. CASE len # 0 /\ ~(len > Len(data))
  <2>1. got' = data[len] /\ len' = len - 1 /\ UNCHANGED <<data, cap, stage>>
    BY <1>4 DEF av_pop
  <2>2. data # <<>> /\ len \in 1 .. len /\ len - 1 \in 0 .. len
    BY <1>1, <1>4, SMT
  <2>3. Held(data, len - 1) = SubSeq(Held(data, len), 1, len - 1)
    BY <1>1, <2>2, HeldBeginning
  <2>4. Value # <<>>
    BY <1>1, <1>4, EmptySeq
  <2> QED  BY <2>1, <2>2, <2>3, <2>4, <1>1 DEF Value, Spent
<1> QED  BY <1>2, <1>3, <1>4

LEMMA PopManyStep ==
  ASSUME VectorInv, stage = "live", NEW count \in Counter, av_pop_many(count)
  PROVE  \/ /\ count \in 0 .. Len(Value) - 1
            /\ Value' = SubSeq(Value, 1, Len(Value) - count)
            /\ (Spent' <=> Spent) /\ UNCHANGED <<got, stage>>
         \/ /\ stage' = "abort"
            /\ Value' = Value /\ (Spent' <=> Spent) /\ got' = got
<1>1. /\ len \in Nat /\ data \in Seq(Cell) /\ (data = <<>> \/ len <= Len(data))
      /\ Len(Value) = len /\ count \in Nat
  BY StateFacts DEF Counter
<1>2. CASE count < len
  <2>1. len' = len - count /\ UNCHANGED <<data, cap, got, stage>>
    BY <1>2 DEF av_pop_many
  <2>2. count \in 0 .. len - 1 /\ len - count \in 0 .. len
    BY <1>1, <1>2, SMT
  <2>3. Held(data, len - count) = SubSeq(Held(data, len), 1, len - count)
    BY <1>1, <2>2, HeldBeginning
  <2> QED  BY <2>1, <2>2, <2>3, <1>1 DEF Value, Spent
<1>3. CASE ~(count < len)
  <2>1. End({"abort"})
    BY <1>3 DEF av_pop_many
  <2> QED  BY <2>1, EndKeepsValue
<1> QED  BY <1>2, <1>3

-----------------------------------------------------------------------------
(* The refinement.                                                          *)

LEMMA ReadRefines ==
  ASSUME VectorInv, stage = "live", NEW k \in Nat, 1 <= k, k <= len, Read(k),
         call' \in {"av_at", "av_last"}, call' = "av_last" => k = len
  PROVE  Values!Next
<1>1. Len(Value) = len
  BY StateFacts
<1>2. CASE ~Spent /\ k \in 1 .. Len(Value) /\ got' = Value[k]
           /\ Value' = Value /\ (Spent' <=> Spent) /\ stage' = stage
  <2>1. \E j \in 1 .. Len(Value) :
          got' = Value[j] /\ (call' = "av_last" => j = Len(Value))
    BY <1>1, <1>2
  <2>2. Values!av_at
    BY <2>1, <1>2 DEF Values!av_at, Value, Held, Spent
  <2> QED  BY <2>2 DEF Values!Next
<1>3. CASE Spent /\ stage' = "overrun"
           /\ Value' = Value /\ (Spent' <=> Spent) /\ got' = got
  BY <1>3 DEF Values!Next, Values!Break, Value, Held, Spent
<1> QED  BY <1>2, <1>3, ReadStep

LEMMA AbortRefines ==
  ASSUME stage = "live", End({"abort"}), call' \in {"av_at", "av_last"},
         call' = "av_last" => Value = <<>>
  PROVE  Values!Next
<1>1. /\ stage' = "abort" /\ Value' = Value /\ (Spent' <=> Spent) /\ got' = got
  BY EndKeepsValue
<1>2. Values!Refuse
  <2>1. call' \in {"av_at", "av_last", "av_pop", "av_pop_many"}
    OBVIOUS
  <2>2. call' \in {"av_last", "av_pop"} => Value = <<>>
    OBVIOUS
  <2> QED  BY <1>1, <2>1, <2>2 DEF Values!Refuse, Value, Held, Spent
<1> QED  BY <1>2 DEF Values!Next

LEMMA StepRefines ==
  ASSUME VectorInv, [Next]_vectorVars
  PROVE  [Values!Next]_(Values!valueVars)
<1> USE DEF Value, Spent, Held
<1>1. CASE UNCHANGED vectorVars
  BY <1>1 DEF vectorVars, Values!valueVars
<1>2. ASSUME NEW item \in Item, av_append(item)
      PROVE  Values!Next
  <2>1. stage = "live" /\ call' = "av_append"
    BY <1>2 DEF av_append, Using
  <2> QED
    BY <2>1, <1>2, AppendStep DEF Values!Next, Values!av_append, Values!Break
<1>3. ASSUME NEW items \in Batches, av_append_many(items)
      PROVE  Values!Next
  <2>1. stage = "live" /\ call' = "av_append_many"
    BY <1>3 DEF av_append_many, Using
  <2> QED
    BY <2>1, <1>3, AppendManyStep
       DEF Values!Next, Values!av_append_many, Values!Break
<1>4. ASSUME NEW amt \in Counter, av_reserve(amt)
      PROVE  Values!Next
  <2>1. stage = "live" /\ call' = "av_reserve"
    BY <1>4 DEF av_reserve, Using
  <2> QED
    BY <2>1, <1>4, ReserveStep DEF Values!Next, Values!av_reserve, Values!Break
<1>5. ASSUME av_clear PROVE Values!Next
  <2>1. stage = "live" /\ call' = "av_clear"
    BY <1>5 DEF av_clear, Using
  <2> QED
    BY <2>1, <1>5, ClearStep DEF Values!Next, Values!av_clear, Values!Break
<1>6. ASSUME av_free PROVE Values!Next
  <2>1. stage = "live" /\ call' = "av_free"
    BY <1>6 DEF av_free, Using
  <2> QED
    BY <2>1, <1>6, FreeStep DEF Values!Next, Values!av_free, Values!Unset
<1>7. ASSUME av_last PROVE Values!Next
  <2>1. stage = "live" /\ call' = "av_last" /\ len \in Nat /\ Len(Value) = len
        /\ Value \in Seq(Cell)
    BY <1>7, StateFacts DEF av_last, Using
  <2>2. CASE len > 0
    <3>1. Read(len) /\ 1 <= len /\ len <= len
      BY <1>7, <2>1, <2>2, SMT DEF av_last
    <3> QED
      BY <3>1, <2>1, ReadRefines
  <2>3. CASE ~(len > 0)
    <3>1. End({"abort"})
      BY <1>7, <2>3 DEF av_last
    <3>2. Value = <<>>
      BY <2>1, <2>3, EmptySeq, SMT
    <3> QED
      BY <3>1, <3>2, <2>1, AbortRefines
  <2> QED  BY <2>2, <2>3
<1>8. ASSUME NEW pos \in Counter, av_at(pos) PROVE Values!Next
  <2>1. stage = "live" /\ call' = "av_at" /\ len \in Nat /\ pos \in Nat
    BY <1>8, StateFacts DEF av_at, Using, Counter
  <2>2. CASE pos < len
    <3>1. Read(pos + 1) /\ pos + 1 \in Nat /\ 1 <= pos + 1 /\ pos + 1 <= len
      BY <1>8, <2>1, <2>2, SMT DEF av_at
    <3> QED
      BY <3>1, <2>1, ReadRefines
  <2>3. CASE ~(pos < len)
    <3>1. End({"abort"})
      BY <1>8, <2>3 DEF av_at
    <3> QED
      BY <3>1, <2>1, AbortRefines
  <2> QED  BY <2>2, <2>3
<1>9. ASSUME NEW pos \in Counter, av_pop(pos) PROVE Values!Next
  <2>1. stage = "live" /\ call' = "av_pop"
    BY <1>9 DEF av_pop, Using
  <2> QED
    BY <2>1, <1>9, PopStep
       DEF Values!Next, Values!av_pop, Values!Refuse, Values!Break
<1>10. ASSUME NEW count \in Counter, av_pop_many(count) PROVE Values!Next
  <2>1. stage = "live" /\ call' = "av_pop_many"
    BY <1>10 DEF av_pop_many, Using
  <2> QED
    BY <2>1, <1>10, PopManyStep
       DEF Values!Next, Values!av_pop_many, Values!Refuse
<1> QED
  BY <1>1, <1>2, <1>3, <1>4, <1>5, <1>6, <1>7, <1>8, <1>9, <1>10 DEF Next

(* A vector implements the sequence of VectorValues: whatever macros are     *)
(* used in whatever order, no item is lost, moved or invented, and the       *)
(* process ends only for the reasons given there.                           *)
THEOREM VectorIsASequence == Spec => IsASequence
<1>1. Init => Values!Init
  <2> SUFFICES ASSUME Init PROVE Values!Init
    OBVIOUS
  <2>1. /\ data = <<>> /\ len = 0 /\ cap = 0 /\ got = Junk /\ call = "none"
        /\ stage = "live"
    BY DEF Init
  <2>2. [k \in 1 .. 0 |-> Junk] = <<>>
    BY SMT
  <2> QED  BY <2>1, <2>2, SMT DEF Values!Init
<1>2. VectorInv /\ [Next]_vectorVars => [Values!Next]_(Values!valueVars)
  BY StepRefines
<1> QED
  BY <1>1, <1>2, VectorInvariant, PTL DEF Spec, IsASequence, Values!Spec
=============================================================================
