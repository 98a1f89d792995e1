---------------------------- MODULE AStringLemmas ----------------------------
(***************************************************************************)
(* What the functions of AString.tla make of a string that is in order: the *)
(* lemmas that the proofs about those who call them rest on.               *)
(***************************************************************************)
EXTENDS AString, SequenceTheorems, WellFoundedInduction, TLAPS

Bytes(cells) == \A i \in 1 .. Len(cells) : cells[i] # Junk
Good(s) ==
  /\ s \in AStrings
  /\ s.len <= Cap(s)
  /\ \A i \in 1 .. s.len : s.data[i] # Junk
Fine(s) == Good(s) /\ Terminated(s)

(* A set of natural numbers has a least element.                            *)
LEMMA LeastElement ==
  ASSUME NEW T, T \subseteq Nat, T # {}
  PROVE  \E x \in T : \A y \in T : x <= y
<1> DEFINE Less == {ss \in Nat \X Nat : ss[1] < ss[2]}
<1>1. IsWellFoundedOn(OpToRel(<, Nat), Nat)
  BY NatLessThanWellFounded
<1>2. \E x \in T : \A y \in T : ~ (<<y, x>> \in OpToRel(<, Nat))
  BY <1>1, WFMin, Zenon
<1>3. OpToRel(<, Nat) = Less
  BY Zenon DEF OpToRel
<1>4. PICK x \in T : \A y \in T : <<y, x>> \notin Less
  BY <1>2, <1>3, Zenon
<1>5. ASSUME NEW y \in T PROVE x <= y
  <2>1. <<y, x>> \notin Less
    BY <1>4
  <2>2. ~(y < x)
    BY <2>1
  <2> QED BY <2>2
<1> QED BY <1>5

LEMMA GreatestElement ==
  ASSUME NEW m \in Nat, NEW T, T \subseteq 0 .. m, T # {}
  PROVE  \E x \in T : \A y \in T : y <= x
<1> DEFINE D == {d \in 0 .. m : m - d \in T}
<1>1. D \subseteq Nat /\ D # {}
  <2>1. PICK x \in T : TRUE
    OBVIOUS
  <2>2. m - x \in 0 .. m /\ m - (m - x) = x
    BY <2>1
  <2> QED BY <2>1, <2>2
<1>2. PICK d \in D : \A e \in D : d <= e
  BY <1>1, LeastElement
<1>3. ASSUME NEW y \in T PROVE y <= m - d
  <2>1. y \in 0 .. m /\ m - y \in 0 .. m /\ m - (m - y) = y
    OBVIOUS
  <2>2. d <= m - y
    BY <1>2, <2>1
  <2> QED BY <2>1, <2>2
<1> QED BY <1>2, <1>3

(* Induction, for a set of natural numbers.                                  *)
LEMMA AllNumbers ==
  ASSUME NEW T, T \subseteq Nat, 0 \in T, \A n \in T : n + 1 \in T
  PROVE  T = Nat
<1> SUFFICES ASSUME Nat \ T # {} PROVE FALSE
  OBVIOUS
<1>1. PICK m \in Nat \ T : \A y \in Nat \ T : m <= y
  BY LeastElement
<1>2. m - 1 \in Nat /\ ~ (m <= m - 1) /\ (m - 1) + 1 = m
  BY <1>1
<1>3. m - 1 \in T
  BY <1>1, <1>2
<1> QED BY <1>1, <1>2, <1>3

-----------------------------------------------------------------------------
(* The C library.                                                           *)

LEMMA CharIsCell ==
  /\ Char \subseteq Cell /\ NUL \in Cell /\ Byte \subseteq Cell
  /\ \A c \in Byte : c # Junk
  /\ NUL # Junk
BY AStringAssumption DEF Byte, Cell, NUL, Junk

LEMMA BlockIsSeq ==
  ASSUME NEW n \in Nat, NEW f \in [1 .. n -> Cell]
  PROVE  f \in Seq(Cell) /\ Len(f) = n
<1>1. f \in Seq(Cell)
  BY SeqDef
<1>2. DOMAIN f = 1 .. n /\ DOMAIN f = 1 .. Len(f) /\ Len(f) \in Nat
  BY <1>1, LenProperties
<1> QED BY <1>1, <1>2

LEMMA callocCells ==
  ASSUME NEW n \in Nat
  PROVE  /\ calloc(n) \in Seq(Cell) /\ Len(calloc(n)) = n
         /\ \A i \in 1 .. n : calloc(n)[i] = NUL
<1>1. calloc(n) \in [1 .. n -> Cell]
  BY CharIsCell DEF calloc
<1> QED BY <1>1, BlockIsSeq DEF calloc

LEMMA reallocCells ==
  ASSUME NEW data \in Seq(Cell), NEW n \in Nat
  PROVE  /\ realloc(data, n) \in Seq(Cell) /\ Len(realloc(data, n)) = n
         /\ \A i \in 1 .. n : i <= Len(data) => realloc(data, n)[i] = data[i]
<1>1. ASSUME NEW i \in 1 .. n
      PROVE  (IF i <= Len(data) THEN data[i] ELSE Junk) \in Cell
  BY DEF Cell
<1>2. realloc(data, n) \in [1 .. n -> Cell]
  BY <1>1 DEF realloc
<1> QED BY <1>2, BlockIsSeq DEF realloc

LEMMA PaddedCells ==
  ASSUME NEW cells \in Seq(Cell), NEW n \in Nat
  PROVE  /\ Padded(cells, n) \in Seq(Cell) /\ Len(Padded(cells, n)) = n
         /\ \A i \in 1 .. n : \/ Padded(cells, n)[i] = NUL
                              \/ i <= Len(cells) /\ Padded(cells, n)[i] = cells[i]
<1> DEFINE Ended(i) == \E j \in 1 .. i : j > Len(cells) \/ cells[j] = NUL
<1>1. ASSUME NEW i \in 1 .. n, ~Ended(i)
      PROVE  i <= Len(cells) /\ cells[i] \in Cell
  BY <1>1
<1>2. Padded(cells, n) = [i \in 1 .. n |-> IF Ended(i) THEN NUL ELSE cells[i]]
  BY DEF Padded
<1> HIDE DEF Ended
<1>3. Padded(cells, n) \in [1 .. n -> Cell]
  BY <1>1, <1>2, CharIsCell
<1> QED BY <1>1, <1>2, <1>3, BlockIsSeq

LEMMA OverwriteCells ==
  ASSUME NEW data \in Seq(Cell), NEW at \in Nat, NEW cells \in Seq(Cell)
  PROVE  /\ Overwrite(data, at, cells) \in Seq(Cell)
         /\ Len(Overwrite(data, at, cells)) = Len(data)
         /\ \A i \in 1 .. Len(data) :
              Overwrite(data, at, cells)[i] =
                IF i \in at + 1 .. at + Len(cells) THEN cells[i - at] ELSE data[i]
<1>1. ASSUME NEW i \in 1 .. Len(data)
      PROVE  (IF i \in at + 1 .. at + Len(cells) THEN cells[i - at] ELSE data[i])
               \in Cell
  BY <1>1
<1>2. Overwrite(data, at, cells) \in [1 .. Len(data) -> Cell]
  BY <1>1 DEF Overwrite
<1> QED BY <1>2, BlockIsSeq DEF Overwrite

(* strlen finds the first NUL, if there is one.                             *)
LEMMA strlenFirst ==
  ASSUME NEW data \in Seq(Cell), HasNul(data)
  PROVE  /\ strlen(data) \in 0 .. Len(data) - 1
         /\ data[strlen(data) + 1] = NUL
         /\ \A j \in 1 .. strlen(data) : data[j] # NUL
<1> DEFINE T == {i \in 1 .. Len(data) : data[i] = NUL}
<1>1. T \subseteq Nat /\ T # {}
  BY DEF HasNul
<1>2. PICK m \in T : \A y \in T : m <= y
  BY <1>1, LeastElement
<1>3. \E i \in 1 .. Len(data) :
        data[i] = NUL /\ \A j \in 1 .. i - 1 : data[j] # NUL
  BY <1>2
<1> QED BY <1>3 DEF strlen

LEMMA strlenIs ==
  ASSUME NEW data \in Seq(Cell), NEW n \in 0 .. Len(data) - 1,
         data[n + 1] = NUL, \A j \in 1 .. n : data[j] # NUL
  PROVE  HasNul(data) /\ strlen(data) = n
<1>1. n + 1 \in 1 .. Len(data)
  OBVIOUS
<1>2. HasNul(data)
  BY <1>1 DEF HasNul
<1>3. /\ strlen(data) \in 0 .. Len(data) - 1 /\ data[strlen(data) + 1] = NUL
      /\ \A j \in 1 .. strlen(data) : data[j] # NUL
  BY <1>2, strlenFirst
<1>4. ~(strlen(data) < n)
  BY <1>3
<1>5. ~(n < strlen(data))
  BY <1>3
<1> QED BY <1>2, <1>3, <1>4, <1>5

LEMMA PartOfCells ==
  ASSUME NEW data \in Seq(Cell), NEW m \in Nat, NEW n \in Nat, m <= n, n <= Len(data)
  PROVE  /\ SubSeq(data, m + 1, n) \in Seq(Cell)
         /\ Len(SubSeq(data, m + 1, n)) = n - m
         /\ \A k \in 1 .. n - m : SubSeq(data, m + 1, n)[k] = data[m + k]
<1>1. \A i \in m + 1 .. n : data[i] \in Cell
  OBVIOUS
<1>2. /\ m + 1 \in Int /\ n \in Int /\ n - (m + 1) + 1 = n - m
      /\ m + 1 <= n \/ n - m = 0
      /\ \A k \in 1 .. n - m : (m + 1) + k - 1 = m + k
  OBVIOUS
<1>3. /\ SubSeq(data, m + 1, n) \in Seq(Cell)
      /\ Len(SubSeq(data, m + 1, n)) = IF m + 1 <= n THEN n - (m + 1) + 1 ELSE 0
      /\ \A k \in 1 .. n - (m + 1) + 1 :
           SubSeq(data, m + 1, n)[k] = data[(m + 1) + k - 1]
  BY <1>1, <1>2, SubSeqProperties
<1> QED BY <1>2, <1>3

LEMMA OverwriteFront ==
  ASSUME NEW data \in Seq(Cell), NEW cells \in Seq(Cell)
  PROVE  /\ Overwrite(data, 0, cells) \in Seq(Cell)
         /\ Len(Overwrite(data, 0, cells)) = Len(data)
         /\ \A i \in 1 .. Len(data) :
              Overwrite(data, 0, cells)[i] =
                IF i <= Len(cells) THEN cells[i] ELSE data[i]
<1>1. /\ Overwrite(data, 0, cells) \in Seq(Cell)
      /\ Len(Overwrite(data, 0, cells)) = Len(data)
      /\ \A i \in 1 .. Len(data) :
           Overwrite(data, 0, cells)[i] =
             IF i \in 0 + 1 .. 0 + Len(cells) THEN cells[i - 0] ELSE data[i]
  BY OverwriteCells
<1>2. ASSUME NEW i \in 1 .. Len(data)
      PROVE  Overwrite(data, 0, cells)[i] =
               IF i <= Len(cells) THEN cells[i] ELSE data[i]
  <2>1. i - 0 = i /\ (i \in 0 + 1 .. 0 + Len(cells) <=> i <= Len(cells))
    OBVIOUS
  <2> QED BY <1>1, <2>1
<1> QED BY <1>1, <1>2

(* A new block with room for a NUL behind the cells written has one there.   *)
LEMMA FreshIs ==
  ASSUME NEW t \in Seq(Cell)
  PROVE  /\ Fresh(Len(t) + 1, Append(t, NUL)) = Append(t, NUL)
         /\ Fresh(Len(t) + 1, t) = Append(t, NUL)
<1> DEFINE n == Len(t)
           a == Append(t, NUL)
           c == calloc(n + 1)
<1>1. n \in Nat /\ n + 1 \in Nat /\ NUL \in Cell
  BY CharIsCell
<1>2. /\ a \in Seq(Cell) /\ Len(a) = n + 1 /\ a[n + 1] = NUL
      /\ \A i \in 1 .. n : a[i] = t[i]
  BY <1>1, AppendProperties
<1>3. c \in Seq(Cell) /\ Len(c) = n + 1 /\ \A i \in 1 .. n + 1 : c[i] = NUL
  BY <1>1, callocCells
<1> HIDE DEF a, c
<1>4. ASSUME NEW b \in Seq(Cell), b = a \/ (b = t)
      PROVE  Overwrite(c, 0, b) = a
  <2>1. /\ Overwrite(c, 0, b) \in Seq(Cell) /\ Len(Overwrite(c, 0, b)) = n + 1
        /\ \A i \in 1 .. n + 1 :
             Overwrite(c, 0, b)[i] = IF i <= Len(b) THEN b[i] ELSE c[i]
    BY <1>3, <1>4, OverwriteFront
  <2>2. \A i \in 1 .. n + 1 : Overwrite(c, 0, b)[i] = a[i]
    BY <1>1, <1>2, <1>3, <1>4, <2>1
  <2> QED BY <1>1, <1>2, <2>1, <2>2, SeqEqual
<1> QED BY <1>2, <1>4 DEF Fresh, a, c

LEMMA MakeGood ==
  ASSUME NEW d \in Seq(Cell), NEW n \in Nat, n <= Len(d),
         \A i \in 1 .. n : d[i] # Junk
  PROVE  /\ Good([data |-> d, len |-> n])
         /\ n < Len(d) /\ d[n + 1] = NUL => Fine([data |-> d, len |-> n])
         /\ Terminated([data |-> d, len |-> n]) <=> n < Len(d) /\ d[n + 1] = NUL
BY DEF Good, Fine, Terminated, AStrings, Cap

(* A block that begins with v holds v.                                       *)
LEMMA BlockHolds ==
  ASSUME NEW d \in Seq(Cell), NEW v \in Seq(Cell), NEW n \in Nat,
         Len(v) = n, n <= Len(d), \A i \in 1 .. n : d[i] = v[i]
  PROVE  Value([data |-> d, len |-> n]) = v
<1> DEFINE w == SubSeq(d, 1, n)
<1>1. w \in Seq(Cell) /\ Len(w) = n /\ \A i \in 1 .. n : w[i] = d[i]
  BY SubSeqProperties
<1>2. Value([data |-> d, len |-> n]) = w
  BY DEF Value
<1> HIDE DEF w
<1>3. \A i \in 1 .. n : w[i] = v[i]
  BY <1>1
<1> QED BY <1>1, <1>2, <1>3, SeqEqual

LEMMA NothingHeld == ASSUME NEW d \in Seq(Cell) PROVE Value([data |-> d, len |-> 0]) = <<>>
<1> DEFINE w == SubSeq(d, 1, 0)
<1>1. w \in Seq(Cell) /\ Len(w) = 0
  BY SubSeqProperties
<1>2. Value([data |-> d, len |-> 0]) = w
  BY DEF Value
<1> HIDE DEF w
<1> QED BY <1>1, <1>2, EmptySeq

LEMMA Parts ==
  ASSUME NEW s \in AStrings
  PROVE  /\ s.data \in Seq(Cell) /\ s.len \in Nat
         /\ Cap(s) \in Nat /\ Len(s.data) = Cap(s)
         /\ s = [data |-> s.data, len |-> s.len]
BY DEF AStrings, Cap

-----------------------------------------------------------------------------
(* Each function leaves a string that is in order, given one that is.       *)

LEMMA with_capacityFine ==
  ASSUME NEW n \in Nat \ {0}
  PROVE  /\ Fine(as_with_capacity(n)) /\ Cap(as_with_capacity(n)) = n
         /\ Value(as_with_capacity(n)) = <<>>
<1>1. Fine(as_with_capacity(n)) /\ Cap(as_with_capacity(n)) = n
  BY callocCells DEF as_with_capacity, Fine, Good, Terminated, AStrings, Cap
<1> QED BY <1>1, callocCells, NothingHeld DEF as_with_capacity

LEMMA newFine == Fine(as_new) /\ Cap(as_new) = NewCap /\ Value(as_new) = <<>>
BY with_capacityFine, AStringAssumption DEF as_new

LEMMA from_cstrIs ==
  ASSUME NEW t \in Seq(Cell)
  PROVE  /\ as_from_cstr(t) = [data |-> Append(t, NUL), len |-> Len(t)]
         /\ as_read_file(t) = as_from_cstr(t)
BY FreshIs DEF as_from_cstr, as_read_file

LEMMA from_cstrFine ==
  ASSUME NEW t \in Seq(Byte)
  PROVE  /\ Fine(as_from_cstr(t)) /\ Value(as_from_cstr(t)) = t
         /\ as_read_file(t) = as_from_cstr(t)
         /\ as_from_cstr_InBlock(t) /\ as_read_file_InBlock(t)
<1>1. t \in Seq(Cell) /\ \A i \in 1 .. Len(t) : t[i] # Junk
  BY CharIsCell, SeqMonotonic
<1>2. /\ Append(t, NUL) \in Seq(Cell) /\ Len(Append(t, NUL)) = Len(t) + 1
      /\ Append(t, NUL)[Len(t) + 1] = NUL
      /\ \A i \in 1 .. Len(t) : Append(t, NUL)[i] = t[i]
  BY <1>1, CharIsCell, AppendProperties
<1> DEFINE d == Append(t, NUL)
<1>3. as_from_cstr(t) = [data |-> d, len |-> Len(t)] /\ as_read_file(t) = as_from_cstr(t)
  BY <1>1, from_cstrIs
<1> DEFINE n == Len(t)
<1>4. n \in Nat /\ Len(t) = n
  BY <1>1
<1>5. d \in Seq(Cell) /\ n < Len(d) /\ d[n + 1] = NUL /\ \A i \in 1 .. n : d[i] = t[i]
  BY <1>2, <1>4
<1> HIDE DEF d, n
<1>6. n <= Len(d) /\ \A i \in 1 .. n : d[i] # Junk
  BY <1>1, <1>4, <1>5
<1>7. Value([data |-> d, len |-> n]) = t
  BY <1>1, <1>4, <1>5, <1>6, BlockHolds
<1>8. Fine([data |-> d, len |-> n])
  BY <1>4, <1>5, <1>6, MakeGood
<1>9. n + 1 <= Cap([data |-> d, len |-> n])
  BY <1>4, <1>5, LenProperties DEF Cap
<1>10. n < Cap([data |-> d, len |-> n])
  BY <1>4, <1>5, LenProperties DEF Cap
<1>11. as_from_cstr_InBlock(t) /\ as_read_file_InBlock(t)
  BY <1>3, <1>4, <1>9, <1>10 DEF as_from_cstr_InBlock, as_read_file_InBlock, n
<1> QED BY <1>3, <1>4, <1>7, <1>8, <1>11

LEMMA reserveGood ==
  ASSUME NEW s \in AStrings, NEW n \in Nat
  PROVE  /\ as_reserve(s, n) \in AStrings
         /\ Cap(as_reserve(s, n)) = n
         /\ as_reserve(s, n).len = s.len
         /\ \A i \in 1 .. n : i <= Cap(s) => as_reserve(s, n).data[i] = s.data[i]
BY reallocCells DEF as_reserve, AStrings, Cap

LEMMA clearGood ==
  ASSUME NEW s \in AStrings
  PROVE  /\ as_clear(s) \in AStrings
         /\ Cap(as_clear(s)) = Cap(s)
         /\ as_clear(s).len = s.len
         /\ \A i \in 1 .. Cap(s) : as_clear(s).data[i] = NUL
<1>1. Cap(s) \in Nat
  BY DEF AStrings, Cap
<1> QED BY <1>1, callocCells DEF as_clear, AStrings, Cap

(* The cells copied are no Junk, as far as the first NUL.                   *)
LEMMA ncopyFine ==
  ASSUME NEW s \in AStrings, NEW src \in Seq(Cell), NEW n \in Nat,
         \A i \in 1 .. n : i <= Len(src) => src[i] # Junk
  PROVE  Fine(as_ncopy_cstr(s, src, n)) /\ Value(as_ncopy_cstr(s, src, n)) = Padded(src, n)
<1> DEFINE r == IF n + 1 > Cap(s) THEN as_reserve(s, n + 1) ELSE s
           t == as_clear(r)
           p == Padded(src, n)
           d == Overwrite(t.data, 0, p)
<1>0. Cap(s) \in Nat /\ n + 1 \in Nat
  BY Parts
<1>1. r \in AStrings /\ Cap(r) >= n + 1
  <2>1. CASE n + 1 > Cap(s)
    BY <1>0, <2>1, reserveGood
  <2>2. CASE ~(n + 1 > Cap(s))
    BY <1>0, <2>2
  <2> QED BY <2>1, <2>2
<1>2. /\ t \in AStrings /\ Cap(t) >= n + 1
      /\ \A i \in 1 .. Cap(t) : t.data[i] = NUL
  <2> HIDE DEF r
  <2> QED BY <1>1, clearGood
<1>3. /\ p \in Seq(Cell) /\ Len(p) = n
      /\ \A i \in 1 .. n : p[i] # Junk
  BY PaddedCells, CharIsCell
<1>4. /\ d \in Seq(Cell) /\ Len(d) = Cap(t)
      /\ \A i \in 1 .. Cap(t) : d[i] = IF i <= n THEN p[i] ELSE NUL
  <2>1. t.data \in Seq(Cell) /\ Len(t.data) = Cap(t)
    BY <1>2, Parts
  <2> HIDE DEF t, p
  <2> QED BY <1>2, <1>3, <2>1, OverwriteFront
<1>5. as_ncopy_cstr(s, src, n) = [data |-> d, len |-> n]
  BY DEF as_ncopy_cstr
<1>6. Cap(t) \in Nat
  BY <1>2, Parts
<1> HIDE DEF d, t, p
<1>7. n < Len(d) /\ d[n + 1] = NUL /\ \A i \in 1 .. n : d[i] # Junk
  BY <1>2, <1>3, <1>4, <1>6
<1>8. Value([data |-> d, len |-> n]) = p
  BY <1>2, <1>3, <1>4, <1>6, BlockHolds
<1> QED BY <1>4, <1>5, <1>6, <1>7, <1>8, MakeGood DEF p

LEMMA ncopyInBlock ==
  ASSUME NEW s \in AStrings, NEW src \in Seq(Cell), NEW n \in Nat,
         \A i \in 1 .. n : i <= Len(src) => src[i] # Junk, HasCells(src, n)
  PROVE  as_ncopy_cstr_InBlock(s, src, n)
<1>1. Fine(as_ncopy_cstr(s, src, n))
  BY ncopyFine
<1>2. as_ncopy_cstr(s, src, n).len = n
  BY DEF as_ncopy_cstr
<1>3. n <= Cap(as_ncopy_cstr(s, src, n))
  BY <1>1, <1>2 DEF Fine, Good
<1> QED BY <1>3 DEF as_ncopy_cstr_InBlock

LEMMA dupeGood ==
  ASSUME NEW s, Good(s)
  PROVE  /\ as_dupe_InBlock(s)
         /\ Good(as_dupe(s)) /\ (Terminated(s) => Terminated(as_dupe(s)))
         /\ Value(as_dupe(s)) = Padded(s.data, s.len)
<1> DEFINE p == Padded(s.data, s.len)
           c == calloc(Cap(s))
           d == Overwrite(c, 0, p)
<1>1. s.data \in Seq(Cell) /\ s.len \in Nat /\ Cap(s) \in Nat /\ Len(s.data) = Cap(s)
  BY DEF Good, AStrings, Cap
<1>2. /\ p \in Seq(Cell) /\ Len(p) = s.len
      /\ \A i \in 1 .. s.len : p[i] # Junk
  BY <1>1, PaddedCells, CharIsCell DEF Good
<1>3. c \in Seq(Cell) /\ Len(c) = Cap(s) /\ \A i \in 1 .. Cap(s) : c[i] = NUL
  BY <1>1, callocCells
<1> HIDE DEF p, c
<1>4. /\ d \in Seq(Cell) /\ Len(d) = Cap(s)
      /\ \A i \in 1 .. Cap(s) : d[i] = IF i <= s.len THEN p[i] ELSE NUL
  BY <1>1, <1>2, <1>3, OverwriteFront
<1>5. as_dupe(s) = [data |-> d, len |-> s.len]
  BY DEF as_dupe, Fresh, p, c
<1> HIDE DEF d
<1>6. s.len <= Cap(s) /\ \A i \in 1 .. s.len : d[i] # Junk
  BY <1>1, <1>2, <1>4 DEF Good
<1>7. Terminated(s) => s.len < Len(d) /\ d[s.len + 1] = NUL
  BY <1>1, <1>4 DEF Terminated
<1>8. Value([data |-> d, len |-> s.len]) = p
  BY <1>1, <1>2, <1>4, <1>6, BlockHolds
<1>9. as_dupe_InBlock(s)
  BY <1>1, <1>4, <1>5, <1>6 DEF as_dupe_InBlock, HasCells, Cap
<1> QED BY <1>1, <1>4, <1>5, <1>6, <1>7, <1>8, <1>9, MakeGood DEF p

LEMMA sliceFine ==
  ASSUME NEW s, Good(s), NEW i \in 0 .. s.len, NEW j \in 0 .. s.len, i <= j
  PROVE  /\ Fine(as_slice(s, i, j))
         /\ Value(as_slice(s, i, j)) = Padded(SubSeq(s.data, i + 1, Cap(s)), j - i)
         /\ as_slice_InBlock(s, i, j)
<1> DEFINE rest == SubSeq(s.data, i + 1, Cap(s))
<1>1. s.data \in Seq(Cell) /\ Cap(s) = Len(s.data) /\ Len(s.data) \in Nat
      /\ s.len \in Nat /\ s.len <= Len(s.data)
  BY DEF Good, AStrings, Cap
<1>2. /\ rest \in Seq(Cell) /\ Len(rest) = Cap(s) - i
      /\ \A k \in 1 .. Cap(s) - i : rest[k] = s.data[i + k]
  BY <1>1, SubSeqProperties
<1>3. \A k \in 1 .. j - i : k <= Len(rest) => rest[k] # Junk
  BY <1>1, <1>2 DEF Good
<1>4. as_new \in AStrings
  BY newFine DEF Fine, Good
<1> HIDE DEF rest
<1>5. /\ Fine(as_ncopy_cstr(as_new, rest, j - i))
      /\ Value(as_ncopy_cstr(as_new, rest, j - i)) = Padded(rest, j - i)
  BY <1>1, <1>2, <1>3, <1>4, ncopyFine
<1>6. HasCells(rest, j - i) /\ i <= Cap(s)
  BY <1>1, <1>2 DEF HasCells
<1>7. as_ncopy_cstr_InBlock(as_new, rest, j - i)
  BY <1>1, <1>2, <1>3, <1>4, <1>6, ncopyInBlock
<1> QED BY <1>5, <1>6, <1>7 DEF as_slice, as_slice_InBlock, rest

LEMMA sprintfFine ==
  ASSUME NEW s \in AStrings, NEW text \in Seq(Byte)
  PROVE  Fine(as_sprintf(s, text)) /\ Value(as_sprintf(s, text)) = text
<1> DEFINE size == Len(text) + 1
           t == IF as_valid(s) THEN as_reserve(s, size) ELSE as_with_capacity(size)
           u == as_clear(t)
           d == Overwrite(u.data, 0, text)
<1>0. text \in Seq(Cell) /\ Len(text) \in Nat /\ \A i \in 1 .. Len(text) : text[i] # Junk
  BY CharIsCell, SeqMonotonic
<1>1. t \in AStrings /\ Cap(t) = size
  <2>1. size \in Nat \ {0}
    BY <1>0
  <2> HIDE DEF size
  <2>2. as_with_capacity(size) \in AStrings /\ Cap(as_with_capacity(size)) = size
    BY <2>1, with_capacityFine DEF Fine, Good
  <2>3. as_reserve(s, size) \in AStrings /\ Cap(as_reserve(s, size)) = size
    BY <2>1, reserveGood
  <2> QED BY <2>2, <2>3
<1>2. u \in AStrings /\ Cap(u) = size /\ \A i \in 1 .. size : u.data[i] = NUL
  <2> HIDE DEF t
  <2> QED BY <1>1, clearGood
<1>3. u.data \in Seq(Cell) /\ Len(u.data) = size
  BY <1>2 DEF AStrings, Cap
<1>4. /\ d \in Seq(Cell) /\ Len(d) = size
      /\ \A i \in 1 .. size : d[i] = IF i <= Len(text) THEN text[i] ELSE NUL
  <2> HIDE DEF u
  <2> QED BY <1>0, <1>2, <1>3, OverwriteFront
<1>5. as_sprintf(s, text) = [data |-> d, len |-> Len(text)]
  BY DEF as_sprintf
<1> HIDE DEF d
<1>6. Value([data |-> d, len |-> Len(text)]) = text
  BY <1>0, <1>4, BlockHolds
<1> QED BY <1>0, <1>4, <1>5, <1>6, MakeGood

LEMMA ValueOfGood ==
  ASSUME NEW s, Good(s)
  PROVE  /\ Value(s) \in Seq(Byte) /\ Len(Value(s)) = s.len
         /\ \A i \in 1 .. s.len : Value(s)[i] = s.data[i]
<1>1. /\ s.data \in Seq(Cell) /\ s.len \in Nat /\ s.len <= Len(s.data)
      /\ \A i \in 1 .. s.len : s.data[i] # Junk
  BY Parts DEF Good, Cap
<1>2. /\ Value(s) \in Seq(Cell) /\ Len(Value(s)) = s.len
      /\ \A i \in 1 .. s.len : Value(s)[i] = s.data[i]
  BY <1>1, SubSeqProperties DEF Value
<1>3. \A i \in 1 .. s.len : Value(s)[i] \in Byte
  BY <1>1, <1>2 DEF Cell
<1>4. Value(s) \in [1 .. s.len -> Byte]
  BY <1>1, <1>2, <1>3, LenProperties
<1> QED BY <1>1, <1>2, <1>4, SeqDef

LEMMA FoldCells ==
  ASSUME NEW table \in [Char -> Char], NEW cells \in Seq(Byte)
  PROVE  Fold(table, cells) \in Seq(Byte) /\ Len(Fold(table, cells)) = Len(cells)
<1>1. \A i \in 1 .. Len(cells) :
        (IF cells[i] \in Char THEN table[cells[i]] ELSE cells[i]) \in Byte
  BY DEF Byte
<1>2. Fold(table, cells) \in [1 .. Len(cells) -> Byte]
  BY <1>1 DEF Fold
<1>3. Fold(table, cells) \in Seq(Byte)
  BY <1>2, SeqDef
<1> QED BY <1>2, <1>3, LenProperties

LEMMA foldFine ==
  ASSUME NEW s, Good(s), NEW table \in [Char -> Char]
  PROVE  /\ as_fold(table, s) = as_from_cstr(Fold(table, Value(s)))
         /\ Fine(as_fold(table, s)) /\ Value(as_fold(table, s)) = Fold(table, Value(s))
         /\ as_fold_InBlock(table, s)
<1>1. Fold(table, Value(s)) \in Seq(Byte) /\ Len(Fold(table, Value(s))) = s.len
  BY ValueOfGood, FoldCells
<1>2. /\ Fine(as_from_cstr(Fold(table, Value(s))))
      /\ Value(as_from_cstr(Fold(table, Value(s)))) = Fold(table, Value(s))
  BY <1>1, from_cstrFine
<1> DEFINE f == Fold(table, Value(s))
<1>3. f \in Seq(Cell) /\ Len(f) = s.len
  BY <1>1, CharIsCell, SeqMonotonic
<1> HIDE DEF f
<1>4. as_fold(table, s) = [data |-> Append(f, NUL), len |-> s.len]
  BY <1>3, FreshIs DEF as_fold, f
<1>5. as_fold(table, s) = as_from_cstr(f)
  BY <1>3, <1>4, from_cstrIs
<1>6. Len(Append(f, NUL)) = s.len + 1 /\ s.len \in Nat /\ s.len <= Cap(s) /\ Cap(s) \in Nat
  BY <1>3, CharIsCell, AppendProperties, Parts DEF Good
<1>7. as_fold_InBlock(table, s)
  BY <1>4, <1>6 DEF as_fold_InBlock, Cap
<1> QED BY <1>2, <1>5, <1>7 DEF f

LEMMA inplace_foldGood ==
  ASSUME NEW s, Good(s), NEW table \in [Char -> Char]
  PROVE  /\ Good(as_inplace_fold(table, s))
         /\ Terminated(s) => Terminated(as_inplace_fold(table, s))
         /\ Value(as_inplace_fold(table, s)) = Fold(table, Value(s))
         /\ as_valid(s) => as_valid(as_inplace_fold(table, s))
<1> DEFINE f == Fold(table, Value(s))
           d == Overwrite(s.data, 0, f)
<1>1. /\ s \in AStrings /\ s.data \in Seq(Cell) /\ s.len \in Nat
      /\ Cap(s) \in Nat /\ Len(s.data) = Cap(s) /\ s.len <= Cap(s)
  BY Parts DEF Good
<1>2. f \in Seq(Byte) /\ Len(f) = s.len
  BY ValueOfGood, FoldCells
<1>3. f \in Seq(Cell) /\ \A i \in 1 .. s.len : f[i] # Junk
  BY <1>2, CharIsCell, SeqMonotonic
<1>4. as_inplace_fold(table, s) = [data |-> d, len |-> s.len]
  BY <1>1 DEF as_inplace_fold, AStrings
<1> HIDE DEF f
<1>5. /\ d \in Seq(Cell) /\ Len(d) = Cap(s)
      /\ \A i \in 1 .. Cap(s) : d[i] = IF i <= s.len THEN f[i] ELSE s.data[i]
  BY <1>1, <1>2, <1>3, OverwriteFront
<1> HIDE DEF d
<1>6. \A i \in 1 .. s.len : d[i] # Junk
  BY <1>1, <1>3, <1>5
<1>7. Terminated(s) => s.len < Len(d) /\ d[s.len + 1] = NUL
  BY <1>1, <1>5 DEF Terminated
<1>8. Value([data |-> d, len |-> s.len]) = f
  BY <1>1, <1>2, <1>3, <1>5, BlockHolds
<1>9. s.data # <<>> => d # <<>>
  BY <1>1, <1>5, EmptySeq
<1> QED BY <1>1, <1>4, <1>5, <1>6, <1>7, <1>8, <1>9, MakeGood DEF f, as_valid

LEMMA clearKeeps ==
  ASSUME NEW s, Good(s)
  PROVE  /\ Good(as_clear(s)) /\ (Terminated(s) => Terminated(as_clear(s)))
         /\ Value(as_clear(s)) = [i \in 1 .. s.len |-> NUL]
         /\ as_valid(s) => as_valid(as_clear(s))
<1>1. /\ s \in AStrings /\ s.len \in Nat /\ Cap(s) \in Nat /\ s.len <= Cap(s)
  BY Parts DEF Good
<1>2. /\ as_clear(s) \in AStrings /\ Cap(as_clear(s)) = Cap(s)
      /\ as_clear(s).len = s.len
      /\ \A i \in 1 .. Cap(s) : as_clear(s).data[i] = NUL
  BY <1>1, clearGood
<1>3. Good(as_clear(s)) /\ (Terminated(s) => Terminated(as_clear(s)))
  BY <1>1, <1>2, CharIsCell DEF Good, Terminated
<1> DEFINE v == [i \in 1 .. s.len |-> NUL]  d == as_clear(s).data
<1>4. v \in [1 .. s.len -> Cell] /\ \A i \in 1 .. s.len : v[i] = NUL
  BY CharIsCell
<1> HIDE DEF v
<1>5. v \in Seq(Cell) /\ Len(v) = s.len
  BY <1>1, <1>4, BlockIsSeq
<1>6. /\ d \in Seq(Cell) /\ Len(d) = Cap(s) /\ as_clear(s) = [data |-> d, len |-> s.len]
      /\ \A i \in 1 .. Cap(s) : d[i] = NUL
  BY <1>2, Parts
<1> HIDE DEF d
<1>7. \A i \in 1 .. s.len : d[i] = v[i]
  BY <1>1, <1>4, <1>6
<1>8. Value([data |-> d, len |-> s.len]) = v
  BY <1>1, <1>5, <1>6, <1>7, BlockHolds
<1>9. s.data # <<>> => d # <<>>
  BY <1>1, <1>6, EmptySeq, Parts
<1> QED BY <1>3, <1>6, <1>8, <1>9 DEF v, as_valid, d

(* One cell written.                                                        *)
LEMMA OverwriteOne ==
  ASSUME NEW data \in Seq(Cell), NEW at \in Nat, at < Len(data), NEW c \in Cell
  PROVE  /\ Overwrite(data, at, <<c>>) \in Seq(Cell)
         /\ Len(Overwrite(data, at, <<c>>)) = Len(data)
         /\ Overwrite(data, at, <<c>>)[at + 1] = c
         /\ \A i \in 1 .. Len(data) :
              i # at + 1 => Overwrite(data, at, <<c>>)[i] = data[i]
<1> DEFINE cells == <<c>>
           d == Overwrite(data, at, cells)
<1>1. cells \in Seq(Cell) /\ Len(cells) = 1 /\ cells[1] = c
  OBVIOUS
<1> HIDE DEF cells
<1>2. /\ d \in Seq(Cell) /\ Len(d) = Len(data)
      /\ \A i \in 1 .. Len(data) :
           d[i] = IF i \in at + 1 .. at + Len(cells) THEN cells[i - at] ELSE data[i]
  BY <1>1, OverwriteCells
<1>3. at + 1 \in 1 .. Len(data) /\ (at + 1) - at = 1
  OBVIOUS
<1> HIDE DEF d
<1>4. d[at + 1] = cells[(at + 1) - at]
  BY <1>1, <1>2, <1>3
<1>5. d[at + 1] = c
  BY <1>1, <1>3, <1>4
<1>6. \A i \in 1 .. Len(data) : i # at + 1 => d[i] = data[i]
  BY <1>1, <1>2
<1> QED BY <1>2, <1>5, <1>6 DEF d, cells

(* The block has grown before the character is written.                     *)
LEMMA append_charGood ==
  ASSUME NEW s, Good(s), as_valid(s), NEW c \in Byte
  PROVE  /\ Good(as_append_char(s, c)) /\ as_valid(as_append_char(s, c))
         /\ as_append_char(s, c).len = s.len + 1
         /\ as_append_char(s, c).data[s.len + 1] = c
         /\ \A i \in 1 .. s.len : as_append_char(s, c).data[i] = s.data[i]
         /\ as_append_char_InBlock(s, c)
<1> DEFINE t == IF s.len + 1 > Cap(s) THEN as_reserve(s, 2 * Cap(s)) ELSE s
           d == Overwrite(t.data, s.len, <<c>>)
<1>1. /\ s \in AStrings /\ s.data \in Seq(Cell) /\ s.len \in Nat
      /\ Cap(s) \in Nat /\ Len(s.data) = Cap(s) /\ s.len <= Cap(s)
      /\ \A i \in 1 .. s.len : s.data[i] # Junk
  BY Parts DEF Good
<1>2. Cap(s) > 0
  BY <1>1, EmptySeq DEF as_valid
<1>3. /\ t \in AStrings /\ Cap(t) \in Nat /\ s.len < Cap(t)
      /\ \A i \in 1 .. s.len : t.data[i] = s.data[i]
  <2>1. CASE s.len + 1 > Cap(s)
    <3> DEFINE n == 2 * Cap(s)
    <3>1. n \in Nat /\ s.len < n /\ Cap(s) <= n
      BY <1>1, <1>2
    <3>2. t = as_reserve(s, n)
      BY <2>1
    <3> HIDE DEF n, t
    <3>3. /\ t \in AStrings /\ Cap(t) = n
          /\ \A i \in 1 .. n : i <= Cap(s) => t.data[i] = s.data[i]
      BY <1>1, <3>1, <3>2, reserveGood
    <3>4. \A i \in 1 .. s.len : i \in 1 .. n /\ i <= Cap(s)
      BY <1>1, <3>1
    <3> QED BY <3>1, <3>3, <3>4
  <2>2. CASE ~(s.len + 1 > Cap(s))
    <3>1. t = s
      BY <2>2
    <3> HIDE DEF t
    <3> QED BY <1>1, <2>2, <3>1
  <2> QED BY <2>1, <2>2
<1> HIDE DEF t
<1>4. t.data \in Seq(Cell) /\ Len(t.data) = Cap(t)
  BY <1>3, Parts
<1>5. c \in Cell /\ c # Junk
  BY CharIsCell
<1>6. /\ d \in Seq(Cell) /\ Len(d) = Cap(t) /\ d[s.len + 1] = c
      /\ \A i \in 1 .. Cap(t) : i # s.len + 1 => d[i] = t.data[i]
  <2>1. s.len \in Nat /\ s.len < Len(t.data) /\ c \in Cell
    BY <1>1, <1>3, <1>4, <1>5
  <2>2. /\ d \in Seq(Cell) /\ Len(d) = Len(t.data) /\ d[s.len + 1] = c
        /\ \A i \in 1 .. Len(t.data) : i # s.len + 1 => d[i] = t.data[i]
    <3>1. t.data \in Seq(Cell)
      BY <1>4
    <3> QED BY <2>1, <3>1, OverwriteOne
  <2> QED BY <1>4, <2>2
<1>7. as_append_char(s, c) = [data |-> d, len |-> s.len + 1]
  BY DEF as_append_char, t
<1> HIDE DEF d
<1>8. \A i \in 1 .. s.len + 1 : d[i] # Junk
  BY <1>1, <1>3, <1>5, <1>6
<1>9. /\ s.len + 1 \in Nat /\ s.len + 1 <= Len(d) /\ d # <<>>
      /\ \A i \in 1 .. s.len : d[i] = s.data[i]
  BY <1>1, <1>3, <1>6
<1>10. Good([data |-> d, len |-> s.len + 1])
  BY <1>6, <1>8, <1>9, MakeGood
<1>11. as_append_char_InBlock(s, c)
  BY <1>1, <1>3, <1>6, <1>7 DEF as_append_char_InBlock, Cap
<1> QED BY <1>6, <1>7, <1>9, <1>10, <1>11 DEF as_valid

LEMMA append_charValue ==
  ASSUME NEW s, Good(s), as_valid(s), NEW c \in Byte
  PROVE  Value(as_append_char(s, c)) = Append(Value(s), c)
<1> DEFINE t == as_append_char(s, c)
           v == Value(s)
           w == Value(t)
<1>1. /\ Good(t) /\ t.len = s.len + 1 /\ t.data[s.len + 1] = c /\ s.len \in Nat
      /\ \A i \in 1 .. s.len : t.data[i] = s.data[i]
  BY append_charGood DEF Good, AStrings
<1> HIDE DEF t
<1>2. v \in Seq(Byte) /\ Len(v) = s.len /\ \A i \in 1 .. s.len : v[i] = s.data[i]
  BY ValueOfGood
<1>3. w \in Seq(Byte) /\ Len(w) = t.len /\ \A i \in 1 .. t.len : w[i] = t.data[i]
  BY <1>1, ValueOfGood
<1> HIDE DEF v, w
<1>4. /\ Append(v, c) \in Seq(Byte) /\ Len(Append(v, c)) = s.len + 1
      /\ Append(v, c)[s.len + 1] = c
      /\ \A i \in 1 .. s.len : Append(v, c)[i] = v[i]
  BY <1>2, AppendProperties
<1>5. \A i \in 1 .. s.len + 1 : i \in 1 .. s.len \/ i = s.len + 1
  BY <1>1
<1>6. \A i \in 1 .. s.len + 1 : w[i] = Append(v, c)[i]
  BY <1>1, <1>2, <1>3, <1>4, <1>5
<1> QED BY <1>1, <1>3, <1>4, <1>6, SeqEqual DEF v, w, t

(* The copy is the text itself, if what follows a NUL is NUL.                *)
LEMMA dupeValue ==
  ASSUME NEW s, Good(s),
         \A i, j \in 1 .. s.len : j <= i /\ s.data[j] = NUL => s.data[i] = NUL
  PROVE  Value(as_dupe(s)) = Value(s)
<1> DEFINE p == Padded(s.data, s.len)
<1>1. s.data \in Seq(Cell) /\ s.len \in Nat /\ Len(s.data) \in Nat /\ s.len <= Len(s.data)
  BY DEF Good, AStrings, Cap
<1>2. p \in Seq(Cell) /\ Len(p) = s.len
  BY <1>1, PaddedCells
<1>3. ASSUME NEW i \in 1 .. s.len PROVE p[i] = s.data[i]
  <2>1. p[i] = IF \E j \in 1 .. i : j > Len(s.data) \/ s.data[j] = NUL THEN NUL
               ELSE s.data[i]
    BY DEF Padded
  <2>2. \A j \in 1 .. i : j \in 1 .. s.len /\ j <= i /\ ~ (j > Len(s.data))
    BY <1>1
  <2> QED BY <2>1, <2>2
<1> HIDE DEF p
<1>4. \A i \in 1 .. s.len : s.data[i] = p[i]
  BY <1>3
<1>5. s.data \in Seq(Cell) /\ s.len \in Nat /\ s.len <= Len(s.data)
  BY <1>1
<1>6. Value([data |-> s.data, len |-> s.len]) = p
  BY <1>2, <1>4, <1>5, BlockHolds
<1> QED BY <1>6, dupeGood, Parts DEF p, Good

LEMMA popFine ==
  ASSUME NEW s, Good(s), s.len > 0
  PROVE  /\ Fine(as_pop(s)) /\ Cap(as_pop(s)) = Cap(s)
         /\ Value(as_pop(s)) = SubSeq(Value(s), 1, s.len - 1)
<1> DEFINE n == s.len - 1
           d == Overwrite(s.data, n, <<NUL>>)
<1>1. /\ s.data \in Seq(Cell) /\ s.len \in Nat
      /\ Cap(s) \in Nat /\ Len(s.data) = Cap(s) /\ s.len <= Cap(s)
      /\ \A i \in 1 .. s.len : s.data[i] # Junk
  BY Parts DEF Good
<1>2. n \in Nat /\ n < Cap(s) /\ n + 1 = s.len
  BY <1>1
<1>3. as_pop(s) = [data |-> d, len |-> n]
  BY DEF as_pop
<1> HIDE DEF n
<1>4. /\ d \in Seq(Cell) /\ Len(d) = Cap(s) /\ d[n + 1] = NUL
      /\ \A i \in 1 .. Cap(s) : i # n + 1 => d[i] = s.data[i]
  <2>1. n \in Nat /\ n < Len(s.data) /\ NUL \in Cell
    BY <1>1, <1>2, CharIsCell
  <2>2. /\ d \in Seq(Cell) /\ Len(d) = Len(s.data) /\ d[n + 1] = NUL
        /\ \A i \in 1 .. Len(s.data) : i # n + 1 => d[i] = s.data[i]
    <3>1. s.data \in Seq(Cell)
      BY <1>1
    <3> QED BY <2>1, <3>1, OverwriteOne
  <2> QED BY <1>1, <2>2
<1> HIDE DEF d
<1>5. \A i \in 1 .. n : d[i] # Junk
  BY <1>1, <1>2, <1>4
<1>6. Fine(as_pop(s)) /\ Cap(as_pop(s)) = Cap(s)
  BY <1>1, <1>2, <1>3, <1>4, <1>5, MakeGood DEF Cap
<1> DEFINE v == Value(s)  w == SubSeq(v, 1, n)
<1>7. v \in Seq(Byte) /\ Len(v) = s.len /\ \A i \in 1 .. s.len : v[i] = s.data[i]
  BY ValueOfGood
<1> HIDE DEF v
<1>8. w \in Seq(Byte) /\ Len(w) = n /\ \A i \in 1 .. n : w[i] = v[i]
  BY <1>1, <1>2, <1>7, SubSeqProperties
<1>9. w \in Seq(Cell)
  BY <1>8, CharIsCell, SeqMonotonic
<1> HIDE DEF w
<1>10. n <= Len(d) /\ \A i \in 1 .. n : d[i] = w[i]
  <2>1. n <= Len(d) /\ \A i \in 1 .. n : i \in 1 .. s.len /\ i \in 1 .. Cap(s) /\ i # n + 1
    BY <1>1, <1>2, <1>4
  <2> QED BY <1>4, <1>7, <1>8, <2>1
<1>11. Value([data |-> d, len |-> n]) = w
  BY <1>2, <1>4, <1>8, <1>9, <1>10, BlockHolds
<1> QED BY <1>3, <1>6, <1>11 DEF v, w, n

-----------------------------------------------------------------------------
(* Input.                                                                   *)

LEMMA StoredCells ==
  ASSUME NEW line \in Seq(Byte), NEW cap \in Nat \ {0}
  PROVE  LET c == Stored(line, cap)
         IN  /\ c \in Seq(Cell) /\ Len(c) \in 1 .. cap
             /\ c[Len(c)] = NUL
             /\ \A i \in 1 .. Len(c) : c[i] # Junk
<1> DEFINE n == IF Len(line) < cap THEN Len(line) ELSE cap - 1
           head == SubSeq(line, 1, n)
<1>1. n \in 0 .. cap - 1 /\ n <= Len(line)
  BY LenProperties
<1> HIDE DEF n
<1>2. head \in Seq(Byte) /\ Len(head) = n
  BY <1>1, SubSeqProperties
<1> HIDE DEF head
<1>3. NUL \in Byte /\ Append(head, NUL) \in Seq(Byte)
  BY <1>2, AppendProperties DEF Byte
<1>4. Len(Append(head, NUL)) = n + 1 /\ Append(head, NUL)[n + 1] = NUL
  BY <1>2, <1>3, AppendProperties
<1>5. Stored(line, cap) = Append(head, NUL)
  BY DEF Stored, head, n
<1>6. \A i \in 1 .. n + 1 : Append(head, NUL)[i] \in Byte
  BY <1>3, <1>4
<1>7. Append(head, NUL) \in Seq(Cell)
  BY <1>3, CharIsCell, SeqMonotonic
<1> QED BY <1>1, <1>4, <1>5, <1>6, <1>7, CharIsCell

(* The NUL that fgets stores ends the string before any Junk.               *)
LEMMA fgetsFine ==
  ASSUME NEW s \in AStrings, NEW cap \in Nat \ {0}, NEW line \in Seq(Byte)
  PROVE  LET c == Stored(line, cap)
         IN  Fine(as_fgets(s, cap, line)) /\ Value(as_fgets(s, cap, line)) = SubSeq(c, 1, strlen(c))
<1> DEFINE t == IF as_valid(s) THEN as_reserve(s, cap) ELSE as_with_capacity(cap)
           c == Stored(line, cap)
           d == Overwrite(t.data, 0, c)
<1>1. t \in AStrings /\ Cap(t) = cap
  <2>1. as_reserve(s, cap) \in AStrings /\ Cap(as_reserve(s, cap)) = cap
    BY reserveGood
  <2>2. as_with_capacity(cap) \in AStrings /\ Cap(as_with_capacity(cap)) = cap
    BY with_capacityFine DEF Fine, Good
  <2> QED BY <2>1, <2>2
<1>2. /\ c \in Seq(Cell) /\ Len(c) \in 1 .. cap /\ c[Len(c)] = NUL
      /\ \A i \in 1 .. Len(c) : c[i] # Junk
  BY StoredCells
<1> HIDE DEF c, t
<1>3. t.data \in Seq(Cell) /\ Len(t.data) = cap
  BY <1>1, Parts
<1>4. /\ d \in Seq(Cell) /\ Len(d) = cap
      /\ \A i \in 1 .. cap : d[i] = IF i <= Len(c) THEN c[i] ELSE t.data[i]
  BY <1>2, <1>3, OverwriteFront
<1>5. as_fgets(s, cap, line) = [data |-> d, len |-> strlen(d)]
  BY DEF as_fgets, t, c
<1> HIDE DEF d
<1>6. d[Len(c)] = NUL /\ Len(c) \in 1 .. Len(d)
  BY <1>2, <1>4
<1>7. HasNul(d)
  BY <1>6 DEF HasNul
<1>8. /\ strlen(d) \in 0 .. Len(d) - 1 /\ d[strlen(d) + 1] = NUL
      /\ \A j \in 1 .. strlen(d) : d[j] # NUL
  BY <1>4, <1>7, strlenFirst
<1>9. strlen(d) < Len(c)
  BY <1>2, <1>4, <1>6, <1>8
<1>10. \A i \in 1 .. strlen(d) : d[i] # Junk
  BY <1>2, <1>4, <1>8, <1>9
<1>11. strlen(d) \in Nat /\ strlen(d) < Len(d)
  BY <1>4, <1>8
<1> DEFINE n == strlen(d)  w == SubSeq(c, 1, n)
<1>12. n \in 0 .. Len(c) - 1 /\ c[n + 1] = NUL /\ \A j \in 1 .. n : c[j] = d[j] /\ c[j] # NUL
  BY <1>2, <1>4, <1>8, <1>9
<1>13. strlen(c) = n
  BY <1>2, <1>12, strlenIs
<1>14. w \in Seq(Cell) /\ Len(w) = n /\ \A j \in 1 .. n : w[j] = c[j]
  BY <1>2, <1>12, SubSeqProperties
<1>15. n \in Nat /\ n < Len(d) /\ n <= Len(d)
  BY <1>4, <1>11
<1>16. d[n + 1] = NUL /\ \A j \in 1 .. n : d[j] # Junk
  BY <1>8, <1>10
<1> HIDE DEF w, n
<1>17. \A j \in 1 .. n : d[j] = w[j]
  BY <1>12, <1>14
<1>18. Value([data |-> d, len |-> n]) = w
  BY <1>4, <1>14, <1>15, <1>17, BlockHolds
<1>19. Fine([data |-> d, len |-> n])
  BY <1>4, <1>15, <1>16, MakeGood
<1> QED BY <1>5, <1>13, <1>18, <1>19 DEF w, n, c

LEMMA fgetsInBlock ==
  ASSUME NEW s \in AStrings, NEW cap \in Nat \ {0}, NEW line \in Seq(Byte)
  PROVE  as_fgets_InBlock(s, cap, line)
<1> DEFINE t == IF as_valid(s) THEN as_reserve(s, cap) ELSE as_with_capacity(cap)
           c == Stored(line, cap)
           d == Overwrite(t.data, 0, c)
<1>1. t \in AStrings /\ Cap(t) = cap
  <2>1. as_reserve(s, cap) \in AStrings /\ Cap(as_reserve(s, cap)) = cap
    BY reserveGood
  <2>2. as_with_capacity(cap) \in AStrings /\ Cap(as_with_capacity(cap)) = cap
    BY with_capacityFine DEF Fine, Good
  <2> QED BY <2>1, <2>2
<1>2. c \in Seq(Cell) /\ Len(c) \in 1 .. cap
  BY StoredCells
<1> HIDE DEF c, t
<1>3. t.data \in Seq(Cell) /\ Len(t.data) = cap
  BY <1>1, Parts
<1>4. Len(d) = cap
  BY <1>2, <1>3, OverwriteFront
<1>5. as_fgets(s, cap, line) = [data |-> d, len |-> strlen(d)]
  BY DEF as_fgets, t, c
<1>6. Fine(as_fgets(s, cap, line))
  BY fgetsFine
<1> HIDE DEF d
<1>7. HasNul(as_fgets(s, cap, line).data)
  BY <1>6 DEF Fine, Good, AStrings, Terminated, Cap, HasNul
<1>8. Len(c) <= Cap(as_fgets(s, cap, line))
  BY <1>2, <1>4, <1>5 DEF Cap
<1> QED BY <1>7, <1>8 DEF as_fgets_InBlock, c

(* A block that keeps a cell after the text keeps the NUL there.            *)
LEMMA reserveKeeps ==
  ASSUME NEW s, Good(s), NEW n \in Nat, s.len < n
  PROVE  /\ Good(as_reserve(s, n)) /\ as_valid(as_reserve(s, n))
         /\ Terminated(s) => Terminated(as_reserve(s, n))
         /\ Value(as_reserve(s, n)) = Value(s)
<1>1. /\ s \in AStrings /\ s.len \in Nat /\ Cap(s) \in Nat /\ s.len <= Cap(s)
      /\ \A i \in 1 .. s.len : s.data[i] # Junk
  BY Parts DEF Good
<1>2. /\ as_reserve(s, n) \in AStrings /\ Cap(as_reserve(s, n)) = n
      /\ as_reserve(s, n).len = s.len
      /\ \A i \in 1 .. n : i <= Cap(s) => as_reserve(s, n).data[i] = s.data[i]
  BY <1>1, reserveGood
<1>3. Good(as_reserve(s, n))
  BY <1>1, <1>2 DEF Good
<1>4. ASSUME Terminated(s) PROVE Terminated(as_reserve(s, n))
  BY <1>1, <1>2, <1>4 DEF Terminated
<1> DEFINE d == as_reserve(s, n).data  v == Value(s)
<1>5. d \in Seq(Cell) /\ Len(d) = n /\ as_reserve(s, n) = [data |-> d, len |-> s.len]
  BY <1>2, Parts
<1>6. v \in Seq(Byte) /\ Len(v) = s.len /\ \A i \in 1 .. s.len : v[i] = s.data[i]
  BY ValueOfGood
<1>7. v \in Seq(Cell)
  BY <1>6, CharIsCell, SeqMonotonic
<1> HIDE DEF v
<1>8. \A i \in 1 .. s.len : d[i] = v[i]
  BY <1>1, <1>2, <1>6
<1> HIDE DEF d
<1>9. Value([data |-> d, len |-> s.len]) = v
  BY <1>1, <1>5, <1>6, <1>7, <1>8, BlockHolds
<1>10. d # <<>>
  BY <1>1, <1>5, EmptySeq
<1> QED BY <1>3, <1>4, <1>5, <1>9, <1>10 DEF v, d, as_valid

(* A newline at the end of what fgets has read is dropped.                   *)
LEMMA read_lineFine ==
  ASSUME NEW s \in AStrings, NEW line \in Seq(Byte),
         as_fgets(s, LineCap, line).len > 0
  PROVE  LET v == Value(as_fgets(s, LineCap, line))
         IN  /\ Fine(as_read_line(s, line))
             /\ Value(as_read_line(s, line)) =
                  IF v[Len(v)] = NL THEN SubSeq(v, 1, Len(v) - 1) ELSE v
<1> DEFINE t == as_fgets(s, LineCap, line)
           u == IF t.data[t.len] = NL THEN as_pop(t) ELSE t
<1>1. Fine(t) /\ t.len > 0
  BY fgetsFine, AStringAssumption
<1> HIDE DEF t
<1> DEFINE v == Value(t)  w == IF v[Len(v)] = NL THEN SubSeq(v, 1, Len(v) - 1) ELSE v
<1>5. Len(v) = t.len /\ v[Len(v)] = t.data[t.len]
  <2>1. t.len \in Nat /\ t.len \in 1 .. t.len
    BY <1>1 DEF Fine, Good, AStrings
  <2>2. Len(v) = t.len /\ v[t.len] = t.data[t.len]
    BY <1>1, <2>1, ValueOfGood DEF Fine
  <2> QED BY <2>2
<1>2. Fine(u) /\ Value(u) = w
  BY <1>1, <1>5, popFine DEF Fine
<1> HIDE DEF u, v, w
<1>3. u.len \in Nat /\ u.len + 1 \in Nat /\ u.len < u.len + 1
  BY <1>2, Parts DEF Fine, Good
<1>4. Fine(as_reserve(u, u.len + 1)) /\ Value(as_reserve(u, u.len + 1)) = w
  BY <1>2, <1>3, reserveKeeps DEF Fine
<1> QED BY <1>4 DEF as_read_line, t, u, v, w

LEMMA popInBlock == ASSUME NEW s, Good(s), s.len > 0 PROVE as_pop_InBlock(s)
<1>1. s.len \in Nat /\ s.len <= Cap(s) /\ Cap(s) \in Nat
  BY Parts DEF Good
<1> QED BY <1>1 DEF as_pop_InBlock

LEMMA read_lineInBlock ==
  ASSUME NEW s \in AStrings, NEW line \in Seq(Byte),
         as_fgets(s, LineCap, line).len > 0
  PROVE  as_read_line_InBlock(s, line)
<1>1. Fine(as_fgets(s, LineCap, line)) /\ as_fgets_InBlock(s, LineCap, line)
  BY fgetsFine, fgetsInBlock, AStringAssumption
<1>2. as_pop_InBlock(as_fgets(s, LineCap, line))
  BY <1>1, popInBlock DEF Fine
<1> QED BY <1>1, <1>2 DEF as_read_line_InBlock

-----------------------------------------------------------------------------
(* Trimming.                                                                *)

LEMMA FirstInkInText ==
  ASSUME NEW s, Good(s), NEW white
  PROVE  /\ FirstInk(s, white) \in 0 .. s.len
         /\ \A i \in 1 .. FirstInk(s, white) : s.data[i] \in white
         /\ FirstInk(s, white) < s.len => s.data[FirstInk(s, white) + 1] \notin white
<1> DEFINE T == {i \in 1 .. s.len : s.data[i] \notin white}
<1>1. s.len \in Nat
  BY DEF Good, AStrings
<1>2. CASE \A i \in 1 .. s.len : s.data[i] \in white
  BY <1>1, <1>2 DEF FirstInk
<1>3. CASE ~\A i \in 1 .. s.len : s.data[i] \in white
  <2>1. T \subseteq Nat /\ T # {}
    BY <1>1, <1>3
  <2>2. PICK m \in T : \A y \in T : m <= y
    BY <2>1, LeastElement
  <2>3. \E i \in 1 .. s.len :
          s.data[i] \notin white /\ \A j \in 1 .. i - 1 : s.data[j] \in white
    BY <1>1, <2>2
  <2> DEFINE k == CHOOSE i \in 1 .. s.len :
          s.data[i] \notin white /\ \A j \in 1 .. i - 1 : s.data[j] \in white
  <2>4. k \in 1 .. s.len /\ s.data[k] \notin white /\ \A j \in 1 .. k - 1 : s.data[j] \in white
    BY <2>3
  <2>5. FirstInk(s, white) = k - 1 /\ (k - 1) + 1 = k
    BY <1>3, <2>4 DEF FirstInk
  <2> HIDE DEF k
  <2> QED BY <1>1, <2>4, <2>5
<1> QED BY <1>2, <1>3

LEMMA EndOfInkInText ==
  ASSUME NEW s, Good(s), NEW white, HasInk(s, white)
  PROVE  /\ EndOfInk(s, white) \in 1 .. s.len
         /\ s.data[EndOfInk(s, white)] \notin white
         /\ \A j \in EndOfInk(s, white) + 1 .. s.len : s.data[j] \in white
<1> DEFINE T == {k \in 0 .. s.len : s.len - k \in 1 .. s.len /\ s.data[s.len - k] \notin white}
<1>1. s.len \in Nat
  BY DEF Good, AStrings
<1>2. PICK i \in 1 .. s.len : s.data[i] \notin white
  BY DEF HasInk
<1>3. s.len - (s.len - i) = i /\ s.len - i \in 0 .. s.len
  BY <1>1
<1>4. T \subseteq Nat /\ T # {}
  BY <1>1, <1>2, <1>3
<1>5. PICK m \in T : \A y \in T : m <= y
  BY <1>4, LeastElement
<1>6. ASSUME NEW j \in (s.len - m) + 1 .. s.len
      PROVE  s.data[j] \in white
  <2>1. /\ s.len - (s.len - j) = j /\ s.len - j \in 0 .. s.len /\ s.len - j < m
        /\ j \in 1 .. s.len
    BY <1>1, <1>5
  <2> QED BY <1>5, <2>1
<1>7. \E k \in 1 .. s.len :
        s.data[k] \notin white /\ \A j \in k + 1 .. s.len : s.data[j] \in white
  BY <1>5, <1>6
<1> QED BY <1>7 DEF EndOfInk

LEMMA InkOrder ==
  ASSUME NEW s, Good(s), NEW white, HasInk(s, white)
  PROVE  FirstInk(s, white) < EndOfInk(s, white)
<1>1. /\ FirstInk(s, white) \in 0 .. s.len /\ s.len \in Nat
      /\ \A i \in 1 .. FirstInk(s, white) : s.data[i] \in white
  BY FirstInkInText DEF Good, AStrings
<1>2. /\ EndOfInk(s, white) \in 1 .. s.len
      /\ s.data[EndOfInk(s, white)] \notin white
  BY EndOfInkInText
<1> QED BY <1>1, <1>2

LEMMA trimFine ==
  ASSUME NEW s, Good(s), HasInk(s, White)
  PROVE  /\ as_trim(s) = as_from_cstr(SubSeq(s.data, FirstInk(s, White) + 1, EndOfInk(s, White)))
         /\ Fine(as_trim(s))
         /\ Value(as_trim(s)) = SubSeq(s.data, FirstInk(s, White) + 1, EndOfInk(s, White))
         /\ as_trim_InBlock(s)
<1> DEFINE m == FirstInk(s, White)
           n == EndOfInk(s, White)
           u == SubSeq(s.data, m + 1, n)
<1>1. m \in 0 .. s.len /\ n \in 1 .. s.len
  BY FirstInkInText, EndOfInkInText
<1>2. /\ s.data \in Seq(Cell) /\ s.len \in Nat
      /\ Cap(s) \in Nat /\ Len(s.data) = Cap(s) /\ s.len <= Cap(s)
      /\ \A i \in 1 .. s.len : s.data[i] # Junk
  BY Parts DEF Good
<1> HIDE DEF m, n
<1>3. \A i \in m + 1 .. n : s.data[i] \in Byte
  BY <1>1, <1>2 DEF Cell
<1>4. u \in Seq(Byte)
  BY <1>1, <1>2, <1>3, SubSeqProperties
<1>5. m <= n
  BY <1>1, <1>2, InkOrder DEF m, n
<1>6. u \in Seq(Cell) /\ Len(u) = n - m /\ n - m \in Nat
  BY <1>1, <1>2, <1>5, PartOfCells
<1> HIDE DEF u
<1>7. as_trim(s) = [data |-> Append(u, NUL), len |-> n - m]
  BY <1>6, FreshIs DEF as_trim, u, m, n
<1>8. as_trim(s) = as_from_cstr(u)
  BY <1>6, <1>7, from_cstrIs
<1>9. Len(Append(u, NUL)) = n - m + 1
  BY <1>6, CharIsCell, AppendProperties
<1>10. as_trim_InBlock(s)
  BY <1>2, <1>6, <1>7, <1>9 DEF as_trim_InBlock, Cap
<1> QED BY <1>4, <1>8, <1>10, from_cstrFine DEF u, m, n

(* The NUL after the text stops strlen, wherever the text now begins.       *)
LEMMA trim_leftFine ==
  ASSUME NEW s, Fine(s)
  PROVE  LET rest == SubSeq(s.data, FirstInk(s, White) + 1, Cap(s))
         IN  /\ as_trim_left_InBlock(s) /\ Fine(as_trim_left(s))
             /\ Value(as_trim_left(s)) = SubSeq(rest, 1, strlen(rest))
<1> DEFINE m == FirstInk(s, White)
           rest == SubSeq(s.data, m + 1, Cap(s))
           u == SubSeq(rest, 1, strlen(rest))
<1>1. m \in 0 .. s.len
  BY FirstInkInText DEF Fine
<1>2. /\ s.data \in Seq(Cell) /\ s.len \in Nat
      /\ Cap(s) \in Nat /\ Len(s.data) = Cap(s) /\ s.len < Cap(s)
      /\ s.data[s.len + 1] = NUL
      /\ \A i \in 1 .. s.len : s.data[i] # Junk
  BY Parts DEF Fine, Good, Terminated
<1> HIDE DEF m
<1>3. /\ rest \in Seq(Cell) /\ Len(rest) = Cap(s) - m
      /\ \A k \in 1 .. Cap(s) - m : rest[k] = s.data[m + k]
  <2>1. /\ m + 1 \in Int /\ Cap(s) \in Int /\ m + 1 <= Cap(s)
        /\ Cap(s) - (m + 1) + 1 = Cap(s) - m
        /\ \A i \in m + 1 .. Cap(s) : s.data[i] \in Cell
        /\ \A k \in 1 .. Cap(s) - m : (m + 1) + k - 1 = m + k
    BY <1>1, <1>2
  <2> HIDE DEF rest
  <2>2. /\ rest \in Seq(Cell) /\ Len(rest) = Cap(s) - m
        /\ \A k \in 1 .. Cap(s) - m : rest[k] = s.data[(m + 1) + k - 1]
    BY <2>1, SubSeqProperties DEF rest
  <2> QED  BY <2>1, <2>2
<1> HIDE DEF rest
<1> DEFINE e == s.len - m + 1
<1>4. e \in 1 .. Len(rest) /\ m + e = s.len + 1
  BY <1>1, <1>2, <1>3
<1>5. rest[e] = NUL
  BY <1>2, <1>3, <1>4
<1>6. HasNul(rest)
  BY <1>4, <1>5 DEF HasNul
<1>7. strlen(rest) \in 0 .. Len(rest) - 1 /\ \A j \in 1 .. strlen(rest) : rest[j] # NUL
  BY <1>3, <1>6, strlenFirst
<1>8. strlen(rest) < e
  BY <1>4, <1>5, <1>7
<1>9. ASSUME NEW i \in 1 .. strlen(rest)
      PROVE  rest[i] \in Byte
  <2>1. i \in 1 .. Cap(s) - m /\ m + i \in 1 .. s.len
    BY <1>1, <1>2, <1>3, <1>7, <1>8
  <2>2. rest[i] = s.data[m + i] /\ s.data[m + i] # Junk
    BY <1>2, <1>3, <2>1
  <2> QED BY <1>2, <2>1, <2>2 DEF Cell
<1>10. u \in Seq(Byte)
  BY <1>3, <1>7, <1>9, SubSeqProperties
<1> HIDE DEF u
<1>11. Fine(as_from_cstr(u)) /\ Value(as_from_cstr(u)) = u
  BY <1>10, from_cstrFine
<1>12. as_trim_left_InBlock(s)
  BY <1>2, <1>6 DEF as_trim_left_InBlock, rest, m
<1> QED BY <1>11, <1>12 DEF as_trim_left, u, rest, m

-----------------------------------------------------------------------------
(* A capacity that is doubled until it suffices.                            *)

IsGrown(f, m, cap) == \A k \in 0 .. m : f[k] = IF k = 0 THEN cap ELSE 2 * f[k - 1]

LEMMA GrownExists ==
  ASSUME NEW cap \in Nat, NEW n \in Nat
  PROVE  \E f \in [0 .. n -> Nat] : IsGrown(f, n, cap)
<1> DEFINE T == {m \in Nat : \E f \in [0 .. m -> Nat] : IsGrown(f, m, cap)}
<1>1. 0 \in T
  <2> DEFINE f == [k \in 0 .. 0 |-> cap]
  <2>1. f \in [0 .. 0 -> Nat] /\ \A k \in 0 .. 0 : k = 0 /\ f[k] = cap
    OBVIOUS
  <2>2. IsGrown(f, 0, cap)
    BY <2>1 DEF IsGrown
  <2> QED BY <2>1, <2>2
<1>2. ASSUME NEW m \in T PROVE m + 1 \in T
  <2>1. PICK f \in [0 .. m -> Nat] : IsGrown(f, m, cap)
    OBVIOUS
  <2> DEFINE x == 2 * f[m]
             g == [k \in 0 .. m + 1 |-> IF k = m + 1 THEN x ELSE f[k]]
  <2>2. x \in Nat
    OBVIOUS
  <2> HIDE DEF x
  <2>3. \A k \in 0 .. m + 1 : k # m + 1 => k \in 0 .. m
    OBVIOUS
  <2>4. g \in [0 .. m + 1 -> Nat]
    BY <2>2, <2>3
  <2>5. ASSUME NEW k \in 0 .. m + 1
        PROVE  g[k] = IF k = 0 THEN cap ELSE 2 * g[k - 1]
    <3>1. CASE k = m + 1
      <4>1. k - 1 = m /\ m \in 0 .. m + 1 /\ m # m + 1 /\ k # 0
        BY <3>1
      <4>2. g[k] = x /\ g[k - 1] = f[m]
        BY <3>1, <4>1
      <4> QED BY <4>1, <4>2 DEF x
    <3>2. CASE k # m + 1
      <4>1. k \in 0 .. m /\ (k # 0 => k - 1 \in 0 .. m + 1 /\ k - 1 # m + 1)
        BY <3>2
      <4>2. g[k] = f[k] /\ (k # 0 => g[k - 1] = f[k - 1])
        BY <3>2, <4>1
      <4> QED BY <2>1, <4>1, <4>2 DEF IsGrown
    <3> QED BY <3>1, <3>2
  <2>6. IsGrown(g, m + 1, cap)
    BY <2>5 DEF IsGrown
  <2> HIDE DEF g
  <2>7. \E h \in [0 .. m + 1 -> Nat] : IsGrown(h, m + 1, cap)
    BY <2>4, <2>6
  <2>8. m + 1 \in Nat
    OBVIOUS
  <2> QED BY <2>7, <2>8
<1>3. T = Nat
  <2> HIDE DEF T
  <2>1. T \subseteq Nat
    BY DEF T
  <2> QED BY <1>1, <1>2, <2>1, AllNumbers
<1> QED BY <1>3

LEMMA GrownIsMore ==
  ASSUME NEW cap \in Nat \ {0}, NEW n \in Nat, NEW f \in [0 .. n -> Nat], IsGrown(f, n, cap)
  PROVE  f[n] >= n
<1> DEFINE T == {m \in Nat : m <= n => f[m] >= m + 1}
<1>1. 0 \in T
  BY DEF IsGrown
<1>2. ASSUME NEW m \in T PROVE m + 1 \in T
  <2>1. CASE m + 1 <= n
    <3>1. m + 1 \in 0 .. n /\ m \in 0 .. n /\ m + 1 # 0 /\ (m + 1) - 1 = m
      BY <2>1
    <3>2. f[m + 1] = 2 * f[m] /\ f[m] >= m + 1 /\ f[m] \in Nat
      BY <2>1, <3>1 DEF IsGrown
    <3>3. f[m + 1] >= (m + 1) + 1
      BY <3>2
    <3> QED BY <3>3
  <2>2. CASE ~(m + 1 <= n)
    BY <2>2
  <2> QED BY <2>1, <2>2
<1>3. T = Nat
  <2> HIDE DEF T
  <2>1. T \subseteq Nat
    BY DEF T
  <2> QED BY <1>1, <1>2, <2>1, AllNumbers
<1>4. f[n] >= n + 1 /\ f[n] \in Nat
  BY <1>3
<1> QED BY <1>4

(* The loop of as_append_cstr ends with room enough.                        *)
LEMMA DoubledSuffices ==
  ASSUME NEW cap \in Nat \ {0}, NEW need \in Nat
  PROVE  Doubled(cap, need) \in Nat /\ Doubled(cap, need) >= need
<1> DEFINE P(f) == f = [k \in 0 .. need |-> IF k = 0 THEN cap ELSE 2 * f[k - 1]]
           grown == CHOOSE f : P(f)
           first == CHOOSE k \in 0 .. need :
                      grown[k] >= need /\ \A j \in 0 .. k - 1 : grown[j] < need
<1>1. PICK f \in [0 .. need -> Nat] : IsGrown(f, need, cap)
  BY GrownExists
<1>2. f = [k \in 0 .. need |-> IF k = 0 THEN cap ELSE 2 * f[k - 1]]
  BY <1>1 DEF IsGrown
<1>3. P(grown)
  <2>1. P(f)
    BY <1>2
  <2> HIDE DEF P
  <2> QED BY <2>1
<1>4. Doubled(cap, need) = grown[first]
  BY DEF Doubled
<1> HIDE DEF grown
<1>5. IsGrown(grown, need, cap) /\ DOMAIN grown = 0 .. need
  BY <1>3 DEF IsGrown
<1>6. grown \in [0 .. need -> Nat]
  <2> DEFINE T == {m \in Nat : m <= need => grown[m] \in Nat}
  <2>1. 0 \in T
    BY <1>5 DEF IsGrown
  <2>2. ASSUME NEW m \in T PROVE m + 1 \in T
    <3>1. m + 1 <= need => m + 1 \in 0 .. need /\ (m + 1) - 1 = m /\ m + 1 # 0 /\ m <= need
      OBVIOUS
    <3>2. m + 1 <= need => grown[m + 1] = 2 * grown[m] /\ grown[m] \in Nat
      BY <1>5, <3>1 DEF IsGrown
    <3>3. m + 1 <= need => grown[m + 1] \in Nat
      BY <3>2
    <3> QED BY <3>3
  <2>3. T = Nat
    <3> HIDE DEF T
    <3>1. T \subseteq Nat
      BY DEF T
    <3> QED BY <2>1, <2>2, <3>1, AllNumbers
  <2>4. \A m \in 0 .. need : grown[m] \in Nat
    BY <2>3
  <2>5. grown = [k \in 0 .. need |-> grown[k]]
    BY <1>3
  <2> QED BY <2>4, <2>5
<1>7. \E k \in 0 .. need : grown[k] >= need /\ \A j \in 0 .. k - 1 : grown[j] < need
  <2> DEFINE S == {k \in 0 .. need : grown[k] >= need}
  <2>1. S \subseteq Nat /\ need \in S
    BY <1>5, <1>6, GrownIsMore
  <2>2. PICK k \in S : \A j \in S : k <= j
    BY <2>1, LeastElement
  <2>3. ASSUME NEW j \in 0 .. k - 1 PROVE grown[j] < need
    <3>1. j \in 0 .. need /\ ~(k <= j)
      OBVIOUS
    <3>2. ~(grown[j] >= need) /\ grown[j] \in Nat
      BY <1>6, <2>2, <3>1
    <3> QED BY <3>2
  <2> QED BY <2>2, <2>3
<1>8. first \in 0 .. need /\ grown[first] >= need
  BY <1>7
<1> HIDE DEF first
<1> QED BY <1>4, <1>6, <1>8
=============================================================================
