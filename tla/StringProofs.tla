---------------------------- MODULE StringProofs ----------------------------
(***************************************************************************)
(* Theorems about StringCalls.tla and StringRisks.tla, for every alphabet,  *)
(* every capacity, any number of variables and any texts and files.        *)
(***************************************************************************)
EXTENDS StringRisks, AStringLemmas

-----------------------------------------------------------------------------
(* The calls.                                                               *)

LEMMA InitOK == Init => StringInv
<1> SUFFICES ASSUME Init PROVE StringInv
  OBVIOUS
<1>1. Invalid \in AStrings /\ Cap(Invalid) = 0 /\ Invalid.len = 0 /\ ~as_valid(Invalid)
  BY EmptySeq DEF Invalid, AStrings, Cap, as_valid
<1>2. \A d \in Names : str[d] = Invalid
  BY DEF Init
<1>3. TypeOK /\ NoFault
  BY <1>1 DEF Init, TypeOK, NoFault
<1>4. TextIsWritten
  BY <1>1, <1>2 DEF TextIsWritten
<1>5. TerminatedUnlessAppended
  BY <1>1, <1>2 DEF TerminatedUnlessAppended, Live
<1> QED BY <1>3, <1>4, <1>5 DEF StringInv

LEMMA StringsAreGood ==
  ASSUME StringInv, NEW d \in Names
  PROVE  /\ Good(str[d])
         /\ Live(d) /\ d \notin appended => Fine(str[d])
BY DEF StringInv, TypeOK, TextIsWritten, TerminatedUnlessAppended, Good, Fine

(* A call that leaves one string in order leaves all of them so.            *)
LEMMA PutGood ==
  ASSUME StringInv, NEW d \in Names, NEW s, Good(s), UNCHANGED fault,
         str' = [str EXCEPT ![d] = s],
         appended' \subseteq Names, appended \ {d} \subseteq appended',
         d \notin appended' /\ as_valid(s) => Terminated(s)
  PROVE  StringInv'
<1>1. s \in AStrings /\ TypeOK /\ ~fault /\ fault' = FALSE
  BY DEF Good, StringInv, NoFault, TypeOK
<1>2. \A e \in Names : str'[e] = IF e = d THEN s ELSE str[e]
  BY <1>1 DEF TypeOK
<1>3. TypeOK' /\ NoFault'
  BY <1>1 DEF TypeOK, NoFault
<1>4. ASSUME NEW e \in Names PROVE Good(str'[e])
  BY <1>2, StringsAreGood
<1>5. TextIsWritten'
  BY <1>4 DEF Good, TextIsWritten
<1>6. ASSUME NEW e \in Names, as_valid(str'[e]), e \notin appended'
      PROVE  Terminated(str'[e])
  <2>1. CASE e = d
    BY <1>2, <1>6, <2>1
  <2>2. CASE e # d
    <3>1. e \notin appended /\ str'[e] = str[e]
      BY <1>2, <1>6, <2>2
    <3>2. Fine(str[e])
      BY <1>6, <3>1, StringsAreGood DEF Live
    <3> QED BY <3>1, <3>2 DEF Fine
  <2> QED BY <2>1, <2>2
<1>7. TerminatedUnlessAppended'
  BY <1>6 DEF TerminatedUnlessAppended, Live
<1> QED BY <1>3, <1>5, <1>7 DEF StringInv

LEMMA TerminateFine ==
  ASSUME StringInv, NEW d \in Names, NEW s, Fine(s), UNCHANGED fault, Terminate(d, s)
  PROVE  StringInv'
<1>1. appended \subseteq Names
  BY DEF StringInv, TypeOK
<1>2. appended' = appended \ {d} /\ str' = [str EXCEPT ![d] = s]
  BY DEF Terminate
<1>3. Good(s) /\ Terminated(s)
  BY DEF Fine
<1> QED BY <1>1, <1>2, <1>3, PutGood

LEMMA KeepGood ==
  ASSUME StringInv, NEW d \in Names, NEW s, Good(s), UNCHANGED fault, Keep(d, s),
         d \notin appended /\ as_valid(s) => Terminated(s)
  PROVE  StringInv'
<1>1. appended \subseteq Names
  BY DEF StringInv, TypeOK
<1>2. appended' = appended /\ str' = [str EXCEPT ![d] = s]
  BY DEF Keep
<1> QED BY <1>1, <1>2, PutGood

LEMMA CreateOK ==
  ASSUME StringInv, NEW d \in Names, Create(d)
  PROVE  StringInv'
<1>0. ~fault
  BY DEF StringInv, NoFault
<1>1. CASE UNCHANGED fault /\ Terminate(d, as_new)
  BY <1>1, newFine, TerminateFine
<1>2. ASSUME NEW t \in Texts,
             Stays(as_from_cstr_InBlock(t)), Terminate(d, as_from_cstr(t))
      PROVE  StringInv'
  <2>1. t \in Seq(Byte)
    BY CallsAssumption, SeqMonotonic DEF Byte
  <2>2. Fine(as_from_cstr(t)) /\ as_from_cstr_InBlock(t)
    BY <2>1, from_cstrFine
  <2>3. UNCHANGED fault
    BY <1>0, <1>2, <2>2 DEF Stays, StringInv, TypeOK
  <2> QED BY <1>2, <2>2, <2>3, TerminateFine
<1>3. ASSUME NEW t \in Files,
             Stays(as_read_file_InBlock(t)), Terminate(d, as_read_file(t))
      PROVE  StringInv'
  <2>1. Fine(as_read_file(t)) /\ as_read_file_InBlock(t)
    BY CallsAssumption, from_cstrFine
  <2>2. UNCHANGED fault
    BY <1>0, <1>3, <2>1 DEF Stays, StringInv, TypeOK
  <2> QED BY <1>3, <2>1, <2>2, TerminateFine
<1> QED BY <1>1, <1>2, <1>3 DEF Create

LEMMA FillOK ==
  ASSUME StringInv, NEW d \in Names, Fill(d)
  PROVE  StringInv'
<1>0. str[d] \in AStrings /\ ~fault
  BY StringsAreGood DEF Good, StringInv, NoFault
<1>1. ASSUME NEW t \in Texts PROVE t \in Seq(Char) /\ t \in Seq(Byte)
  BY CallsAssumption, SeqMonotonic DEF Byte
<1>2. ASSUME NEW t \in Texts, UNCHANGED fault, Terminate(d, as_sprintf(str[d], t))
      PROVE  StringInv'
  BY <1>0, <1>1, <1>2, sprintfFine, TerminateFine
<1>3. ASSUME NEW t \in Texts, NEW n \in 0 .. Len(t) + 1,
             Stays(as_ncopy_cstr_InBlock(str[d], Append(t, NUL), n)),
             Terminate(d, as_ncopy_cstr(str[d], Append(t, NUL), n))
      PROVE  StringInv'
  <2> DEFINE src == Append(t, NUL)
  <2>1. src \in Seq(Byte) /\ Len(src) = Len(t) + 1
    BY <1>1, AppendProperties DEF Byte
  <2>2. src \in Seq(Cell) /\ \A i \in 1 .. Len(src) : src[i] # Junk
    BY <2>1, CharIsCell, SeqMonotonic
  <2>3. n \in Nat /\ HasCells(src, n)
    BY <1>1, <2>1, LenProperties DEF HasCells
  <2> HIDE DEF src
  <2>4. \A i \in 1 .. n : i <= Len(src) => src[i] # Junk
    BY <2>1, <2>2, <2>3, LenProperties
  <2>5. Fine(as_ncopy_cstr(str[d], src, n)) /\ as_ncopy_cstr_InBlock(str[d], src, n)
    BY <1>0, <2>2, <2>3, <2>4, ncopyFine, ncopyInBlock
  <2>6. UNCHANGED fault
    BY <1>0, <1>3, <2>5 DEF Stays, StringInv, TypeOK, src
  <2> QED BY <1>3, <2>5, <2>6, TerminateFine DEF src
<1> QED BY <1>2, <1>3 DEF Fill

LEMMA ReadOK ==
  ASSUME StringInv, NEW d \in Names, ReadLine(d) \/ ReadNothing(d)
  PROVE  StringInv'
<1>0. str[d] \in AStrings /\ Good(str[d]) /\ ~fault
  BY StringsAreGood DEF Good, StringInv, NoFault
<1>1. CASE ReadLine(d)
  <2>1. PICK t \in Files :
          /\ as_fgets(str[d], LineCap, t).len > 0
          /\ Stays(as_read_line_InBlock(str[d], t))
          /\ Terminate(d, as_read_line(str[d], t))
    BY <1>1 DEF ReadLine
  <2>2. t \in Seq(Byte)
    BY CallsAssumption
  <2>3. Fine(as_read_line(str[d], t)) /\ as_read_line_InBlock(str[d], t)
    BY <1>0, <2>1, <2>2, read_lineFine, read_lineInBlock
  <2>4. UNCHANGED fault
    BY <1>0, <2>1, <2>3 DEF Stays, StringInv, TypeOK
  <2> QED BY <2>1, <2>3, <2>4, TerminateFine
<1>2. CASE ReadNothing(d)
  <2> DEFINE s == as_fgets_eof(str[d], LineCap)
  <2>1. /\ str[d].len < LineCap /\ UNCHANGED fault /\ Keep(d, s)
        /\ LineCap \in Nat \ {0} /\ LineCap \in Nat
    BY <1>2, AStringAssumption DEF ReadNothing
  <2>2. CASE as_valid(str[d])
    <3>1. s = as_reserve(str[d], LineCap)
      BY <2>2 DEF as_fgets_eof
    <3>2. d \notin appended => Terminated(str[d])
      BY <2>2, StringsAreGood DEF Live, Fine
    <3>3. Good(s) /\ (d \notin appended => Terminated(s))
      BY <1>0, <2>1, <3>1, <3>2, reserveKeeps
    <3> HIDE DEF s
    <3> QED BY <2>1, <3>3, KeepGood
  <2>3. CASE ~as_valid(str[d])
    <3>1. Fine(s)
      BY <2>1, <2>3, with_capacityFine DEF as_fgets_eof
    <3> HIDE DEF s
    <3> QED BY <2>1, <3>1, KeepGood DEF Fine
  <2> QED BY <2>2, <2>3
<1> QED BY <1>1, <1>2

LEMMA DupeOK ==
  ASSUME StringInv, NEW s \in Names, NEW d \in Names, Dupe(s, d)
  PROVE  StringInv'
<1>1. /\ Live(s) /\ Stays(as_dupe_InBlock(str[s])) /\ str' = [str EXCEPT ![d] = as_dupe(str[s])]
      /\ appended' = IF s \in appended THEN appended \cup {d} ELSE appended \ {d}
  BY DEF Dupe
<1>2. Good(str[s]) /\ (s \notin appended => Terminated(str[s]))
  BY <1>1, StringsAreGood DEF Fine
<1>3. /\ Good(as_dupe(str[s])) /\ as_dupe_InBlock(str[s])
      /\ s \notin appended => Terminated(as_dupe(str[s]))
  BY <1>2, dupeGood
<1>4. appended' \subseteq Names /\ appended \ {d} \subseteq appended'
  BY <1>1 DEF StringInv, TypeOK
<1>5. d \notin appended' => Terminated(as_dupe(str[s]))
  BY <1>1, <1>3
<1>6. UNCHANGED fault
  BY <1>1, <1>3 DEF Stays, StringInv, NoFault, TypeOK
<1> QED BY <1>1, <1>3, <1>4, <1>5, <1>6, PutGood

LEMMA DeriveOK ==
  ASSUME StringInv, NEW s \in Names, NEW d \in Names, Derive(s, d)
  PROVE  StringInv'
<1>0. Good(str[s]) /\ ~fault /\ fault \in BOOLEAN
  BY StringsAreGood DEF Derive, StringInv, NoFault, TypeOK
<1>1. ASSUME NEW i \in 0 .. str[s].len, NEW j \in 0 .. str[s].len, i <= j,
             Stays(as_slice_InBlock(str[s], i, j)),
             Terminate(d, as_slice(str[s], i, j))
      PROVE  StringInv'
  <2>1. Fine(as_slice(str[s], i, j)) /\ as_slice_InBlock(str[s], i, j)
    BY <1>0, <1>1, sliceFine
  <2>2. UNCHANGED fault
    BY <1>0, <1>1, <2>1 DEF Stays
  <2> QED BY <1>1, <2>1, <2>2, TerminateFine
<1>2. /\ Fine(as_tolower(str[s])) /\ as_fold_InBlock(ToLower, str[s])
      /\ Fine(as_toupper(str[s])) /\ as_fold_InBlock(ToUpper, str[s])
  BY <1>0, foldFine, AStringAssumption DEF as_tolower, as_toupper
<1>3. CASE Stays(as_fold_InBlock(ToLower, str[s])) /\ Terminate(d, as_tolower(str[s]))
  <2>1. UNCHANGED fault
    BY <1>0, <1>2, <1>3 DEF Stays
  <2> QED BY <1>2, <1>3, <2>1, TerminateFine
<1>4. CASE Stays(as_fold_InBlock(ToUpper, str[s])) /\ Terminate(d, as_toupper(str[s]))
  <2>1. UNCHANGED fault
    BY <1>0, <1>2, <1>4 DEF Stays
  <2> QED BY <1>2, <1>4, <2>1, TerminateFine
<1>5. CASE /\ HasInk(str[s], White) /\ Stays(as_trim_InBlock(str[s]))
           /\ Terminate(d, as_trim(str[s]))
  <2>1. Fine(as_trim(str[s])) /\ as_trim_InBlock(str[s])
    BY <1>0, <1>5, trimFine
  <2>2. UNCHANGED fault
    BY <1>0, <1>5, <2>1 DEF Stays
  <2> QED BY <1>5, <2>1, <2>2, TerminateFine
<1> QED BY <1>1, <1>3, <1>4, <1>5 DEF Derive

LEMMA TrimLeftOK ==
  ASSUME StringInv, NEW s \in Names, NEW d \in Names, TrimLeft(s, d)
  PROVE  StringInv'
<1>1. Fine(str[s])
  BY StringsAreGood DEF TrimLeft
<1>2. as_trim_left_InBlock(str[s]) /\ Fine(as_trim_left(str[s]))
  BY <1>1, trim_leftFine
<1>3. Stays(as_trim_left_InBlock(str[s])) /\ Terminate(d, as_trim_left(str[s]))
  BY <1>2 DEF TrimLeft
<1>4. UNCHANGED fault
  BY <1>2, <1>3 DEF Stays, StringInv, NoFault, TypeOK
<1> QED BY <1>2, <1>3, <1>4, TerminateFine

LEMMA AppendCharOK ==
  ASSUME StringInv, NEW d \in Names, NEW c \in Added, AppendChar(d, c)
  PROVE  StringInv'
<1>1. Good(str[d]) /\ as_valid(str[d]) /\ c \in Byte
  BY StringsAreGood, CallsAssumption DEF AppendChar, Live
<1>2. Good(as_append_char(str[d], c)) /\ as_append_char_InBlock(str[d], c)
  BY <1>1, append_charGood
<1>3. /\ Stays(as_append_char_InBlock(str[d], c))
      /\ str' = [str EXCEPT ![d] = as_append_char(str[d], c)]
      /\ appended' = appended \cup {d}
  BY DEF AppendChar
<1>4. appended' \subseteq Names
  BY <1>3 DEF StringInv, TypeOK
<1>5. UNCHANGED fault
  BY <1>2, <1>3 DEF Stays, StringInv, NoFault, TypeOK
<1> QED BY <1>2, <1>3, <1>4, <1>5, PutGood

LEMMA ChangeOK ==
  ASSUME StringInv, NEW d \in Names, Pop(d) \/ Change(d)
  PROVE  StringInv'
<1>0. /\ Good(str[d]) /\ Live(d) /\ (d \notin appended => Terminated(str[d]))
      /\ ~fault /\ fault \in BOOLEAN
  BY StringsAreGood DEF Pop, Change, Fine, StringInv, NoFault, TypeOK
<1>1. CASE Pop(d)
  <2>1. Fine(as_pop(str[d])) /\ as_pop_InBlock(str[d])
    BY <1>0, <1>1, popFine, popInBlock DEF Pop
  <2>2. UNCHANGED fault
    BY <1>0, <1>1, <2>1 DEF Pop, Stays
  <2> QED BY <1>0, <1>1, <2>1, <2>2, TerminateFine DEF Pop
<1>2. ASSUME NEW table \in [Char -> Char], Stays(as_inplace_fold_InBlock(str[d])),
             Keep(d, as_inplace_fold(table, str[d]))
      PROVE  StringInv'
  <2>1. as_inplace_fold_InBlock(str[d])
    BY <1>0 DEF Good, as_inplace_fold_InBlock
  <2>2. UNCHANGED fault
    BY <1>0, <1>2, <2>1 DEF Stays
  <2> QED BY <1>0, <1>2, <2>2, inplace_foldGood, KeepGood
<1>3. CASE UNCHANGED fault /\ Keep(d, as_clear(str[d]))
  BY <1>0, <1>3, clearKeeps, KeepGood
<1>4. CASE UNCHANGED fault /\ Terminate(d, Invalid)
  <2>1. ~as_valid(Invalid) /\ Good(Invalid)
    BY EmptySeq DEF Invalid, as_valid, Good, AStrings, Cap
  <2>2. appended \subseteq Names
    BY DEF StringInv, TypeOK
  <2>3. appended' = appended \ {d} /\ str' = [str EXCEPT ![d] = Invalid]
    BY <1>4 DEF Terminate
  <2> QED BY <1>0, <1>4, <2>1, <2>2, <2>3, PutGood
<1> QED
  BY <1>1, <1>2, <1>3, <1>4, AStringAssumption
  DEF Change, as_inplace_tolower, as_inplace_toupper

LEMMA CallOK == StringInv /\ [Call]_vars => StringInv'
<1> SUFFICES ASSUME StringInv, [Call]_vars PROVE StringInv'
  OBVIOUS
<1>1. CASE UNCHANGED vars
  BY <1>1 DEF vars, StringInv, TypeOK, NoFault, TextIsWritten,
              TerminatedUnlessAppended, Live
<1>2. ASSUME NEW d \in Names, Create(d) \/ Fill(d)  PROVE StringInv'
  BY <1>2, CreateOK, FillOK
<1>3. ASSUME NEW d \in Names, ReadLine(d) \/ ReadNothing(d)  PROVE StringInv'
  BY <1>3, ReadOK
<1>4. ASSUME NEW d \in Names, Pop(d) \/ Change(d)  PROVE StringInv'
  BY <1>4, ChangeOK
<1>5. ASSUME NEW s \in Names, NEW d \in Names,
             Dupe(s, d) \/ Derive(s, d) \/ TrimLeft(s, d)
      PROVE  StringInv'
  BY <1>5, DupeOK, DeriveOK, TrimLeftOK
<1>6. ASSUME NEW d \in Names, NEW c \in Added, AppendChar(d, c)  PROVE StringInv'
  BY <1>6, AppendCharOK
<1> QED BY <1>1, <1>2, <1>3, <1>4, <1>5, <1>6 DEF Call

LEMMA StringInvHolds == Spec => []StringInv
BY InitOK, CallOK, PTL DEF Spec

(* An a_string is what its type says, and only as_append_char counts as     *)
(* having written last: a_string.h's struct, for any calls in any order.    *)
THEOREM StringTypes == Spec => []TypeOK
BY StringInvHolds, PTL DEF StringInv

(* Whatever has been called before, with any capacities and texts, no cell  *)
(* outside a block is read or written by the calls of StringCalls: of       *)
(* as_from_cstr, as_read_file, as_ncopy_cstr, as_fgets, as_read_line,       *)
(* as_dupe, as_slice, as_tolower, as_toupper, in place too, as_trim,        *)
(* as_trim_left, as_append_char and as_pop.  The caller may not use         *)
(* as_trim_left on a string appended to, as_trim on a blank one, nor pop an *)
(* empty one.                                                               *)
THEOREM CallsStayInBlocks == Spec => []NoFault
BY StringInvHolds, PTL DEF StringInv

(* No caller sees a cell that realloc added and nobody wrote, nor a length  *)
(* beyond the block.                                                        *)
THEOREM TextsAreWritten == Spec => []TextIsWritten
BY StringInvHolds, PTL DEF StringInv

(* The calls of StringCalls leave every string with a NUL behind its text,  *)
(* unless as_append_char wrote to it last.  Of the other functions          *)
(* as_ncopy, as_append_cstr and those that trim on the right do not.        *)
THEOREM CallsTerminateUnlessAppended == Spec => []TerminatedUnlessAppended
BY StringInvHolds, PTL DEF StringInv
-----------------------------------------------------------------------------
(* A string is its text: each call does to the text what StringValues says.  *)

LEMMA ValIs ==
  /\ DOMAIN Val = {d \in Names : Live(d)}
  /\ \A d \in Names : /\ Store!Live(d) <=> Live(d)
                      /\ Live(d) => Val[d] = Value(str[d])
BY DEF Val, Store!Live

LEMMA PutIs ==
  ASSUME StringInv, NEW d \in Names, NEW s, as_valid(s), str' = [str EXCEPT ![d] = s]
  PROVE  Store!Is(d, Value(s))
<1> DEFINE D == {e \in Names : as_valid(str[e])}  E == {e \in Names : as_valid(str'[e])}
<1>1. Val = [e \in D |-> Value(str[e])] /\ Val' = [e \in E |-> Value(str'[e])]
  BY DEF Val, Live
<1>2. \A e \in Names : str'[e] = IF e = d THEN s ELSE str[e]
  BY DEF StringInv, TypeOK
<1>3. E = D \cup {d}
  BY <1>2
<1>4. \A e \in E : Value(str'[e]) = IF e = d THEN Value(s) ELSE Val[e]
  BY <1>1, <1>2, <1>3
<1>5. DOMAIN Val = D
  BY <1>1
<1> HIDE DEF D, E
<1>6. [e \in E |-> Value(str'[e])] = [e \in E |-> IF e = d THEN Value(s) ELSE Val[e]]
  BY <1>4
<1> QED BY <1>1, <1>3, <1>5, <1>6 DEF Store!Is

LEMMA FreeIs ==
  ASSUME StringInv, NEW d \in Names, str' = [str EXCEPT ![d] = Invalid]
  PROVE  Store!Drop(d)
<1> DEFINE D == {e \in Names : as_valid(str[e])}  E == {e \in Names : as_valid(str'[e])}
<1>1. Val = [e \in D |-> Value(str[e])] /\ Val' = [e \in E |-> Value(str'[e])]
  BY DEF Val, Live
<1>2. \A e \in Names : str'[e] = IF e = d THEN Invalid ELSE str[e]
  BY DEF StringInv, TypeOK
<1>3. ~as_valid(Invalid)
  BY DEF Invalid, as_valid
<1>4. E = D \ {d}
  BY <1>2, <1>3
<1>5. \A e \in E : Value(str'[e]) = Val[e]
  BY <1>1, <1>2, <1>4
<1>6. DOMAIN Val = D
  BY <1>1
<1> HIDE DEF D, E
<1>7. [e \in E |-> Value(str'[e])] = [e \in E |-> Val[e]]
  BY <1>5
<1> QED BY <1>1, <1>4, <1>6, <1>7 DEF Store!Drop

LEMMA FineIsValid == ASSUME NEW s, Fine(s) PROVE as_valid(s)
<1>1. s.data # <<>>
  BY EmptySeq DEF Fine, Good, Terminated, AStrings, Cap
<1> QED BY <1>1 DEF as_valid

LEMMA TerminateIs ==
  ASSUME StringInv, NEW d \in Names, NEW s, Fine(s), Terminate(d, s)
  PROVE  Store!Is(d, Value(s))
BY FineIsValid, PutIs DEF Terminate

(* stpncpy of as many cells as hold v.                                      *)
LEMMA PaddedIs ==
  ASSUME NEW cells \in Seq(Cell), NEW v \in Seq(Byte), NEW n \in Nat, Len(v) = n,
         n <= Len(cells), \A i \in 1 .. n : cells[i] = v[i]
  PROVE  Padded(cells, n) = Store!CutAtNul(v)
<1>1. \A i \in 1 .. n :
        (\E j \in 1 .. i : j > Len(cells) \/ cells[j] = NUL) <=> \E j \in 1 .. i : v[j] = NUL
  BY LenProperties
<1>2. Padded(cells, n) =
        [i \in 1 .. n |->
           IF \E j \in 1 .. i : j > Len(cells) \/ cells[j] = NUL THEN NUL ELSE cells[i]]
  BY DEF Padded
<1>3. Store!CutAtNul(v) =
        [i \in 1 .. n |-> IF \E j \in 1 .. i : v[j] = NUL THEN NUL ELSE v[i]]
  BY DEF Store!CutAtNul
<1> QED BY <1>1, <1>2, <1>3

LEMMA FoldIs ==
  ASSUME NEW table, NEW v \in Seq(Byte)
  PROVE  Fold(table, v) = Store!Mapped(table, v)
<1>1. \A i \in 1 .. Len(v) : (v[i] \in Char) <=> ~(v[i] = NUL)
  BY AStringAssumption DEF Byte
<1>2. \A i \in 1 .. Len(v) : v[i] \notin Char => v[i] = NUL
  BY DEF Byte
<1> QED BY <1>1, <1>2 DEF Fold, Store!Mapped

LEMMA UpToNulIs ==
  ASSUME NEW v \in Seq(Byte), NEW n \in 0 .. Len(v), \A i \in 1 .. n : v[i] # NUL,
         n = Len(v) \/ v[n + 1] = NUL
  PROVE  Store!UpToNul(v) = SubSeq(v, 1, n)
<1> DEFINE IsLast(m) == (\A i \in 1 .. m : v[i] # NUL) /\ (m = Len(v) \/ v[m + 1] = NUL)
           k == CHOOSE m \in 0 .. Len(v) : IsLast(m)
<1>1. Len(v) \in Nat
  BY LenProperties
<1>2. k \in 0 .. Len(v) /\ IsLast(k)
  <2>1. IsLast(n)
    OBVIOUS
  <2> HIDE DEF IsLast
  <2> QED BY <2>1
<1>3. Store!UpToNul(v) = Store!First(v, k)
  BY DEF Store!UpToNul
<1> HIDE DEF k
<1>4. ~(k < n) /\ ~(n < k)
  BY <1>1, <1>2
<1>5. k = n
  BY <1>1, <1>2, <1>4
<1> QED BY <1>1, <1>3, <1>5 DEF Store!First

(* What strlen measures, where v and a NUL are in the cells.                 *)
LEMMA CStringIs ==
  ASSUME NEW cells \in Seq(Cell), NEW v \in Seq(Byte), Len(v) < Len(cells),
         cells[Len(v) + 1] = NUL, \A i \in 1 .. Len(v) : cells[i] = v[i]
  PROVE  SubSeq(cells, 1, strlen(cells)) = Store!UpToNul(v)
<1> DEFINE n == strlen(cells)
<1>1. Len(v) \in Nat /\ Len(cells) \in Nat
  BY LenProperties
<1>2. HasNul(cells)
  BY <1>1 DEF HasNul
<1>3. /\ n \in 0 .. Len(cells) - 1 /\ cells[n + 1] = NUL
      /\ \A j \in 1 .. n : cells[j] # NUL
  BY <1>2, strlenFirst
<1> HIDE DEF n
<1>4. n \in 0 .. Len(v)
  BY <1>1, <1>3
<1>5. (\A i \in 1 .. n : v[i] # NUL) /\ (n = Len(v) \/ v[n + 1] = NUL)
  BY <1>1, <1>3, <1>4
<1>6. Store!UpToNul(v) = SubSeq(v, 1, n)
  BY <1>4, <1>5, UpToNulIs
<1> DEFINE a == SubSeq(cells, 1, n)  b == SubSeq(v, 1, n)
<1>7. a \in Seq(Cell) /\ Len(a) = n /\ \A i \in 1 .. n : a[i] = cells[i]
  BY <1>1, <1>3, SubSeqProperties
<1>8. b \in Seq(Byte) /\ Len(b) = n /\ \A i \in 1 .. n : b[i] = v[i]
  BY <1>1, <1>4, SubSeqProperties
<1>9. b \in Seq(Cell)
  BY <1>8, CharIsCell, SeqMonotonic
<1> HIDE DEF a, b
<1>10. ASSUME NEW i \in 1 .. n PROVE a[i] = b[i]
  <2>1. i \in 1 .. Len(v)
    BY <1>1, <1>4
  <2>2. cells[i] = v[i]
    BY <2>1
  <2> QED BY <1>7, <1>8, <2>2
<1>11. a = b
  BY <1>7, <1>8, <1>9, <1>10, SeqEqual
<1> QED BY <1>6, <1>11 DEF a, b, n

LEMMA CreateIs ==
  ASSUME StringInv, NEW d \in Names, Create(d)
  PROVE  Store!Create(d)
<1>1. ~Store!Live(d)
  BY ValIs DEF Create
<1>2. CASE Terminate(d, as_new)
  BY <1>1, <1>2, newFine, TerminateIs DEF Store!Create
<1>3. ASSUME NEW t \in Texts, Terminate(d, as_from_cstr(t)) PROVE Store!Is(d, t)
  <2>1. t \in Seq(Byte)
    BY CallsAssumption, SeqMonotonic DEF Byte
  <2> QED BY <1>3, <2>1, from_cstrFine, TerminateIs
<1>4. ASSUME NEW t \in Files, Terminate(d, as_read_file(t)) PROVE Store!Is(d, t)
  BY <1>4, CallsAssumption, from_cstrFine, TerminateIs
<1> QED BY <1>1, <1>2, <1>3, <1>4 DEF Create, Store!Create

LEMMA FillIs ==
  ASSUME StringInv, NEW d \in Names, Fill(d)
  PROVE  Store!Fill(d)
<1>0. str[d] \in AStrings
  BY StringsAreGood DEF Good
<1>1. ASSUME NEW t \in Texts PROVE t \in Seq(Byte)
  BY CallsAssumption, SeqMonotonic DEF Byte
<1>2. ASSUME NEW t \in Texts, Terminate(d, as_sprintf(str[d], t)) PROVE Store!Fill(d)
  BY <1>0, <1>1, <1>2, sprintfFine, TerminateIs DEF Store!Fill
<1>3. ASSUME NEW t \in Texts, NEW n \in 0 .. Len(t) + 1, Live(d),
             Terminate(d, as_ncopy_cstr(str[d], Append(t, NUL), n))
      PROVE  Store!Fill(d)
  <2> DEFINE src == Append(t, NUL)
             v == [i \in 1 .. n |-> IF i <= Len(t) THEN t[i] ELSE NUL]
  <2>1. t \in Seq(Byte) /\ Len(t) \in Nat /\ n \in Nat /\ NUL \in Byte
    BY <1>1, LenProperties DEF Byte
  <2>2. /\ src \in Seq(Byte) /\ Len(src) = Len(t) + 1 /\ src[Len(t) + 1] = NUL
        /\ \A i \in 1 .. Len(t) : src[i] = t[i]
    BY <2>1, AppendProperties
  <2>3. src \in Seq(Cell) /\ \A i \in 1 .. Len(src) : src[i] # Junk
    BY <2>2, CharIsCell, SeqMonotonic
  <2>4. v \in [1 .. n -> Byte]
    BY <2>1
  <2>5. v \in Seq(Byte)
    BY <2>1, <2>4, SeqDef
  <2>6. Len(v) = n
    BY <2>1, <2>4, <2>5, LenProperties
  <2>7. \A i \in 1 .. n : i <= Len(src) /\ src[i] = v[i]
    BY <2>1, <2>2
  <2>8. Store!Pad(t, n) = Store!CutAtNul(v)
    BY DEF Store!Pad
  <2> HIDE DEF src, v
  <2>9. n <= Len(src)
    BY <2>1, <2>2
  <2>10. Padded(src, n) = Store!CutAtNul(v)
    BY <2>1, <2>3, <2>5, <2>6, <2>7, <2>9, PaddedIs
  <2>11. \A i \in 1 .. n : i <= Len(src) => src[i] # Junk
    BY <2>1, <2>2, <2>3, LenProperties
  <2>12. /\ Fine(as_ncopy_cstr(str[d], src, n))
         /\ Value(as_ncopy_cstr(str[d], src, n)) = Store!Pad(t, n)
    BY <1>0, <2>1, <2>3, <2>8, <2>10, <2>11, ncopyFine
  <2>13. Store!Is(d, Store!Pad(t, n))
    BY <1>3, <2>12, TerminateIs DEF src
  <2> QED BY <1>3, <2>13, ValIs DEF Store!Fill
<1> QED BY <1>2, <1>3 DEF Fill

LEMMA ReadLineIs ==
  ASSUME StringInv, NEW d \in Names, ReadLine(d)
  PROVE  Store!ReadLine(d)
<1>1. PICK t \in Files :
        as_fgets(str[d], LineCap, t).len > 0 /\ Terminate(d, as_read_line(str[d], t))
  BY DEF ReadLine
<1>2. /\ t \in Seq(Byte) /\ Len(t) \in Nat /\ LineCap \in Nat \ {0}
      /\ str[d] \in AStrings
  BY CallsAssumption, AStringAssumption, StringsAreGood DEF Good
<1> DEFINE h == Store!First(t, LineCap - 1)  c == Stored(t, LineCap)
           v == Value(as_fgets(str[d], LineCap, t))
           u == IF v[Len(v)] = NL THEN SubSeq(v, 1, Len(v) - 1) ELSE v
           n == IF Len(t) < LineCap THEN Len(t) ELSE LineCap - 1
<1>3. n \in 0 .. Len(t) /\ n = IF LineCap - 1 < Len(t) THEN LineCap - 1 ELSE Len(t)
  BY <1>2
<1>4. h = SubSeq(t, 1, n) /\ c = Append(SubSeq(t, 1, n), NUL)
  BY <1>3 DEF Store!First, Stored
<1> HIDE DEF n
<1>5. h \in Seq(Byte) /\ Len(h) = n
  <2>1. n \in Nat /\ n <= Len(t) /\ n - 1 + 1 = n /\ 1 \in Int /\ n \in Int
        /\ 1 .. n \subseteq 1 .. Len(t)
    BY <1>2, <1>3
  <2>2. SubSeq(t, 1, n) \in Seq(Byte) /\ Len(SubSeq(t, 1, n)) = n
    BY <1>2, <2>1, SubSeqProperties
  <2> QED BY <1>4, <2>2
<1>6. c = Append(h, NUL) /\ NUL \in Byte
  BY <1>4 DEF Byte
<1> HIDE DEF h, c
<1>7. /\ c \in Seq(Byte) /\ Len(c) = n + 1 /\ c[n + 1] = NUL
      /\ \A i \in 1 .. n : c[i] = h[i]
  BY <1>5, <1>6, AppendProperties
<1>8. c \in Seq(Cell) /\ Len(h) < Len(c) /\ c[Len(h) + 1] = NUL
  BY <1>3, <1>5, <1>7, CharIsCell, SeqMonotonic
<1>9. \A i \in 1 .. Len(h) : c[i] = h[i]
  BY <1>5, <1>7
<1>10. SubSeq(c, 1, strlen(c)) = Store!UpToNul(h)
  BY <1>5, <1>8, <1>9, CStringIs
<1>11. v = Store!UpToNul(h) /\ Fine(as_fgets(str[d], LineCap, t))
  BY <1>2, <1>10, fgetsFine DEF c
<1>12. v \in Seq(Byte) /\ Len(v) > 0
  BY <1>1, <1>11, ValueOfGood DEF Fine
<1>13. Fine(as_read_line(str[d], t)) /\ Value(as_read_line(str[d], t)) = u
  BY <1>1, <1>2, read_lineFine
<1> HIDE DEF v
<1>14. u = IF v[Len(v)] = NL THEN Store!First(v, Len(v) - 1) ELSE v
  BY <1>12 DEF Store!First
<1>15. v # <<>>
  BY <1>12
<1> HIDE DEF u
<1>16. Store!Is(d, u)
  BY <1>1, <1>13, TerminateIs
<1> QED BY <1>11, <1>14, <1>15, <1>16 DEF Store!ReadLine, h

LEMMA ReadNothingIs ==
  ASSUME StringInv, NEW d \in Names, ReadNothing(d)
  PROVE  Store!ReadNothing(d)
<1> DEFINE s == as_fgets_eof(str[d], LineCap)
<1>1. /\ Good(str[d]) /\ str[d].len < LineCap /\ LineCap \in Nat /\ LineCap \in Nat \ {0}
      /\ str' = [str EXCEPT ![d] = s]
  BY StringsAreGood, AStringAssumption DEF ReadNothing, Keep
<1>2. CASE Live(d)
  <2>1. as_valid(s) /\ Value(s) = Value(str[d])
    BY <1>1, <1>2, reserveKeeps DEF as_fgets_eof, Live
  <2> HIDE DEF s
  <2>2. Store!Is(d, Value(str[d]))
    BY <1>1, <2>1, PutIs
  <2> QED BY <1>2, <2>2, ValIs DEF Store!ReadNothing
<1>3. CASE ~Live(d)
  <2>1. Fine(s) /\ Value(s) = <<>>
    BY <1>1, <1>3, with_capacityFine DEF as_fgets_eof, Live
  <2> HIDE DEF s
  <2>2. Store!Is(d, <<>>)
    BY <1>1, <2>1, PutIs, FineIsValid
  <2> QED BY <1>3, <2>2, ValIs DEF Store!ReadNothing
<1> QED BY <1>2, <1>3

LEMMA DupeIs ==
  ASSUME StringInv, NEW s \in Names, NEW d \in Names, Dupe(s, d)
  PROVE  Store!Derive(s, d)
<1>1. /\ Live(s) /\ ~Live(d) /\ str' = [str EXCEPT ![d] = as_dupe(str[s])]
      /\ Good(str[s]) /\ as_valid(str[s])
  BY StringsAreGood DEF Dupe, Live
<1> DEFINE v == Value(str[s])  n == str[s].len  r == as_dupe(str[s])
<1>2. v \in Seq(Byte) /\ Len(v) = n /\ \A i \in 1 .. n : str[s].data[i] = v[i]
  BY <1>1, ValueOfGood
<1>3. str[s].data \in Seq(Cell) /\ n \in Nat /\ n <= Len(str[s].data)
  BY <1>1 DEF Good, AStrings, Cap
<1> HIDE DEF v
<1>4. Padded(str[s].data, n) = Store!CutAtNul(v)
  BY <1>2, <1>3, PaddedIs
<1>5. Value(r) = Store!CutAtNul(v)
  BY <1>1, <1>4, dupeGood
<1>6. as_valid(r)
  <2>1. Len(str[s].data) \in Nat \ {0}
    BY <1>1, <1>3, EmptySeq DEF as_valid
  <2>2. calloc(Cap(str[s])) \in Seq(Cell) /\ Len(calloc(Cap(str[s]))) = Len(str[s].data)
    BY <2>1, callocCells DEF Cap
  <2>3. Padded(str[s].data, n) \in Seq(Cell)
    BY <1>3, PaddedCells
  <2>4. Len(r.data) = Len(str[s].data)
    BY <2>2, <2>3, OverwriteFront DEF as_dupe, Fresh
  <2> HIDE DEF r
  <2> QED BY <2>1, <2>4, EmptySeq DEF as_valid
<1> HIDE DEF r
<1>7. Store!Is(d, Store!CutAtNul(v))
  BY <1>1, <1>5, <1>6, PutIs DEF r
<1> QED BY <1>1, <1>7, ValIs DEF Store!Derive, v

(* What a good string holds between two offsets is what its text has there. *)
LEMMA PartOfText ==
  ASSUME NEW s, Good(s), NEW i \in 0 .. s.len, NEW j \in 0 .. s.len, i <= j
  PROVE  /\ SubSeq(Value(s), i + 1, j) \in Seq(Byte)
         /\ Len(SubSeq(Value(s), i + 1, j)) = j - i
         /\ \A k \in 1 .. j - i : SubSeq(Value(s), i + 1, j)[k] = s.data[i + k]
<1>1. s.len \in Nat
  BY DEF Good, AStrings
<1> DEFINE v == Value(s)  u == SubSeq(v, i + 1, j)
<1>2. v \in Seq(Byte) /\ Len(v) = s.len /\ \A k \in 1 .. s.len : v[k] = s.data[k]
  BY ValueOfGood
<1> HIDE DEF v
<1>3. u \in Seq(Byte) /\ Len(u) = j - i /\ \A k \in 1 .. j - i : u[k] = v[i + k]
  BY <1>1, <1>2, SubSeqProperties
<1>4. \A k \in 1 .. j - i : i + k \in 1 .. s.len
  BY <1>1
<1> QED BY <1>2, <1>3, <1>4 DEF u, v

LEMMA SliceIs ==
  ASSUME NEW s, Good(s), NEW i \in 0 .. s.len, NEW j \in 0 .. s.len, i <= j
  PROVE  Value(as_slice(s, i, j)) = Store!CutAtNul(SubSeq(Value(s), i + 1, j))
<1> DEFINE rest == SubSeq(s.data, i + 1, Cap(s))  u == SubSeq(Value(s), i + 1, j)
<1>1. s.data \in Seq(Cell) /\ Cap(s) = Len(s.data) /\ Len(s.data) \in Nat
      /\ s.len \in Nat /\ s.len <= Len(s.data)
  BY DEF Good, AStrings, Cap
<1>2. /\ rest \in Seq(Cell) /\ Len(rest) = Cap(s) - i
      /\ \A k \in 1 .. Cap(s) - i : rest[k] = s.data[i + k]
  BY <1>1, SubSeqProperties
<1>3. /\ u \in Seq(Byte) /\ Len(u) = j - i
      /\ \A k \in 1 .. j - i : u[k] = s.data[i + k]
  BY PartOfText
<1> HIDE DEF rest, u
<1>4. j - i \in Nat /\ j - i <= Len(rest) /\ \A k \in 1 .. j - i : rest[k] = u[k]
  BY <1>1, <1>2, <1>3
<1>5. Padded(rest, j - i) = Store!CutAtNul(u)
  BY <1>2, <1>3, <1>4, PaddedIs
<1> QED BY <1>5, sliceFine DEF rest, u

(* The text between the first character that is not white and the last.      *)
LEMMA TrimIs ==
  ASSUME NEW s, Good(s), HasInk(s, White)
  PROVE  \E i, j \in 0 .. s.len :
           /\ Value(as_trim(s)) = SubSeq(Value(s), i + 1, j)
           /\ Store!IsTrimmed(SubSeq(Value(s), i + 1, j), Value(s))
<1> DEFINE m == FirstInk(s, White)  n == EndOfInk(s, White)
<1>1. /\ m \in 0 .. s.len /\ \A i \in 1 .. m : s.data[i] \in White
      /\ m < s.len => s.data[m + 1] \notin White
  BY FirstInkInText
<1>2. /\ n \in 1 .. s.len /\ s.data[n] \notin White
      /\ \A i \in n + 1 .. s.len : s.data[i] \in White
  BY EndOfInkInText
<1>3. s.data \in Seq(Cell) /\ s.len \in Nat /\ s.len <= Len(s.data) /\ Len(s.data) \in Nat
  BY DEF Good, AStrings, Cap
<1> DEFINE a == SubSeq(s.data, m + 1, n)
<1>4. Value(as_trim(s)) = a
  BY trimFine
<1> HIDE DEF m, n
<1>5. m < n /\ n \in 0 .. s.len /\ m <= n /\ n \in Nat /\ m \in Nat
  BY <1>1, <1>2, <1>3
<1> DEFINE v == Value(s)  u == SubSeq(v, m + 1, n)  w == SubSeq(v, 1, n)
<1>6. /\ u \in Seq(Byte) /\ Len(u) = n - m
      /\ \A k \in 1 .. n - m : u[k] = s.data[m + k]
  BY <1>1, <1>5, PartOfText
<1>7. a \in Seq(Cell) /\ Len(a) = n - m /\ \A k \in 1 .. n - m : a[k] = s.data[m + k]
  BY <1>3, <1>5, SubSeqProperties
<1>8. u \in Seq(Cell)
  BY <1>6, CharIsCell, SeqMonotonic
<1>9. v \in Seq(Byte) /\ Len(v) = s.len /\ \A i \in 1 .. s.len : v[i] = s.data[i]
  BY ValueOfGood
<1> HIDE DEF v, a
<1>10. w \in Seq(Byte) /\ Len(w) = n /\ \A k \in 1 .. n : w[k] = v[k]
  BY <1>3, <1>5, <1>9, SubSeqProperties
<1> HIDE DEF u
<1>11. a = u
  <2>1. \A k \in 1 .. n - m : a[k] = u[k]
    BY <1>6, <1>7
  <2> QED BY <1>6, <1>7, <1>8, <2>1, SeqEqual
<1>12. Store!First(v, n) = w
  BY <1>3, <1>5, <1>9 DEF Store!First
<1> HIDE DEF w
<1>13. u = SubSeq(w, m + 1, Len(w))
  <2> DEFINE x == SubSeq(w, m + 1, n)
  <2>1. x \in Seq(Byte) /\ Len(x) = n - m /\ \A k \in 1 .. n - m : x[k] = w[m + k]
    BY <1>5, <1>10, SubSeqProperties
  <2> HIDE DEF x
  <2>2. ASSUME NEW k \in 1 .. n - m PROVE x[k] = u[k]
    <3>1. m + k \in 1 .. n /\ m + k \in 1 .. s.len
      BY <1>3, <1>5
    <3> QED BY <1>6, <1>9, <1>10, <2>1, <3>1
  <2>3. x = u
    BY <1>6, <2>1, <2>2, SeqEqual
  <2> QED BY <1>10, <2>3 DEF x
<1>14. \A i \in 1 .. m : w[i] \in White
  BY <1>1, <1>3, <1>5, <1>9, <1>10
<1>15. u[1] \notin White /\ u[Len(u)] \notin White /\ u # <<>>
  <2>1. 1 \in 1 .. n - m /\ n - m \in 1 .. n - m /\ m + (n - m) = n /\ m < s.len
    BY <1>3, <1>5
  <2>2. u[1] = s.data[m + 1] /\ u[n - m] = s.data[n]
    BY <1>6, <2>1
  <2>3. u # <<>>
    BY <1>6, <2>1, EmptySeq
  <2> QED BY <1>1, <1>2, <1>6, <2>1, <2>2, <2>3
<1>16. m \in 0 .. Len(w)
  BY <1>5, <1>10
<1>17. Store!IsTrimmedLeft(u, w)
  BY <1>13, <1>14, <1>15, <1>16 DEF Store!IsTrimmedLeft, White
<1>18. \A i \in n + 1 .. Len(v) : v[i] \in White
  BY <1>2, <1>3, <1>5, <1>9
<1>19. n \in 0 .. Len(v)
  BY <1>5, <1>9
<1>20. Store!IsTrimmed(u, v)
  BY <1>12, <1>15, <1>17, <1>18, <1>19 DEF Store!IsTrimmed, White
<1> QED BY <1>1, <1>4, <1>5, <1>11, <1>20 DEF u, v

LEMMA DeriveIs ==
  ASSUME StringInv, NEW s \in Names, NEW d \in Names, Derive(s, d)
  PROVE  Store!Derive(s, d)
<1>1. /\ Live(s) /\ Good(str[s]) /\ Store!Live(s) /\ ~Store!Live(d)
      /\ Val[s] = Value(str[s])
  BY StringsAreGood, ValIs DEF Derive
<1> DEFINE v == Value(str[s])
<1>2. v \in Seq(Byte) /\ Len(v) = str[s].len
  BY <1>1, ValueOfGood
<1>3. ASSUME NEW i \in 0 .. str[s].len, NEW j \in 0 .. str[s].len, i <= j,
             Terminate(d, as_slice(str[s], i, j))
      PROVE  Store!Derive(s, d)
  <2>1. Store!Is(d, Store!CutAtNul(SubSeq(v, i + 1, j)))
    BY <1>1, <1>3, sliceFine, SliceIs, TerminateIs
  <2>2. i \in 0 .. Len(v) /\ j \in 0 .. Len(v)
    BY <1>2
  <2> HIDE DEF v
  <2> QED BY <1>1, <1>3, <2>1, <2>2 DEF Store!Derive, v
<1>4. ASSUME NEW table \in [Char -> Char], Terminate(d, as_fold(table, str[s]))
      PROVE  Store!Is(d, Store!Mapped(table, v))
  BY <1>1, <1>2, <1>4, foldFine, FoldIs, TerminateIs
<1>5. CASE Terminate(d, as_tolower(str[s]))
  BY <1>1, <1>4, <1>5, AStringAssumption DEF as_tolower, Store!Derive
<1>6. CASE Terminate(d, as_toupper(str[s]))
  BY <1>1, <1>4, <1>6, AStringAssumption DEF as_toupper, Store!Derive
<1>7. CASE HasInk(str[s], White) /\ Terminate(d, as_trim(str[s]))
  <2>1. PICK i, j \in 0 .. str[s].len :
          /\ Value(as_trim(str[s])) = SubSeq(v, i + 1, j)
          /\ Store!IsTrimmed(SubSeq(v, i + 1, j), v)
    BY <1>1, <1>7, TrimIs
  <2>2. Store!Is(d, SubSeq(v, i + 1, j))
    BY <1>1, <1>7, <2>1, trimFine, TerminateIs
  <2>3. i \in 0 .. Len(v) /\ j \in 0 .. Len(v)
    BY <1>2
  <2> HIDE DEF v
  <2> QED BY <1>1, <2>1, <2>2, <2>3 DEF Store!Derive, v
<1> QED BY <1>3, <1>5, <1>6, <1>7 DEF Derive

LEMMA TrimLeftIs ==
  ASSUME StringInv, NEW s \in Names, NEW d \in Names, TrimLeft(s, d)
  PROVE  Store!Derive(s, d)
<1> DEFINE t == str[s]  v == Value(t)  m == FirstInk(t, White)
           rest == SubSeq(t.data, m + 1, Cap(t))  u == SubSeq(v, m + 1, t.len)
<1>1. Fine(t) /\ Good(t)
  BY StringsAreGood DEF TrimLeft, Fine
<1>2. /\ as_trim_left_InBlock(t) /\ Fine(as_trim_left(t))
      /\ Value(as_trim_left(t)) = SubSeq(rest, 1, strlen(rest))
  BY <1>1, trim_leftFine
<1>3. Terminate(d, as_trim_left(t)) /\ Live(s) /\ ~Live(d)
  BY <1>2 DEF TrimLeft
<1>4. /\ m \in 0 .. t.len /\ \A i \in 1 .. m : t.data[i] \in White
      /\ m < t.len => t.data[m + 1] \notin White
  BY <1>1, FirstInkInText
<1>5. Store!Is(d, SubSeq(rest, 1, strlen(rest)))
  BY <1>2, <1>3, TerminateIs
<1> HIDE DEF m, t
<1>6. /\ t.data \in Seq(Cell) /\ t.len \in Nat /\ Cap(t) = Len(t.data) /\ Cap(t) \in Nat
      /\ t.len < Cap(t) /\ t.data[t.len + 1] = NUL
  BY <1>1 DEF Fine, Good, Terminated, AStrings, Cap
<1>7. t.len \in 0 .. t.len /\ m \in Nat /\ m <= t.len
  BY <1>4, <1>6
<1>8. v \in Seq(Byte) /\ Len(v) = t.len /\ \A i \in 1 .. t.len : v[i] = t.data[i]
  BY <1>1, ValueOfGood
<1>9. /\ u \in Seq(Byte) /\ Len(u) = t.len - m
      /\ \A k \in 1 .. t.len - m : u[k] = t.data[m + k]
  BY <1>1, <1>4, <1>7, PartOfText
<1>10. /\ rest \in Seq(Cell) /\ Len(rest) = Cap(t) - m
       /\ \A k \in 1 .. Cap(t) - m : rest[k] = t.data[m + k]
  <2>1. /\ t.data \in Seq(Cell) /\ m \in Nat /\ Cap(t) \in Nat /\ m <= Cap(t)
        /\ Cap(t) <= Len(t.data)
    BY <1>6, <1>7
  <2> DEFINE c == Cap(t)
  <2> HIDE DEF c
  <2>2. /\ SubSeq(t.data, m + 1, c) \in Seq(Cell) /\ Len(SubSeq(t.data, m + 1, c)) = c - m
        /\ \A k \in 1 .. c - m : SubSeq(t.data, m + 1, c)[k] = t.data[m + k]
    BY <2>1, PartOfCells DEF c
  <2> QED BY <2>2 DEF c
<1> HIDE DEF u, v, rest
<1>11. /\ Len(u) < Len(rest) /\ rest[Len(u) + 1] = NUL
       /\ \A k \in 1 .. Len(u) : rest[k] = u[k]
  <2> DEFINE e == t.len - m  c == Cap(t) - m
  <2>1. e \in Nat /\ c \in Nat /\ e < c /\ m + (e + 1) = t.len + 1
    <3>1. t.len \in Nat /\ Cap(t) \in Nat /\ t.len < Cap(t) /\ m \in Nat /\ m <= t.len
      BY <1>6, <1>7
    <3> QED BY <3>1
  <2>2. Len(u) = e /\ Len(rest) = c
    BY <1>9, <1>10
  <2>3. /\ \A k \in 1 .. e : u[k] = t.data[m + k]
        /\ \A k \in 1 .. c : rest[k] = t.data[m + k]
    BY <1>9, <1>10
  <2> HIDE DEF e, c
  <2>4. e + 1 \in 1 .. c /\ \A k \in 1 .. e : k \in 1 .. c
    BY <2>1
  <2>5. rest[e + 1] = NUL
    BY <1>6, <2>1, <2>3, <2>4
  <2>6. \A k \in 1 .. e : rest[k] = u[k]
    BY <2>3, <2>4
  <2> QED BY <2>1, <2>2, <2>5, <2>6
<1>12. SubSeq(rest, 1, strlen(rest)) = Store!UpToNul(u)
  BY <1>9, <1>10, <1>11, CStringIs
<1>13. u = SubSeq(v, m + 1, Len(v)) /\ m \in 0 .. Len(v)
  BY <1>4, <1>8 DEF u
<1>14. \A i \in 1 .. m : v[i] \in White
  BY <1>4, <1>6, <1>7, <1>8
<1>15. u = <<>> \/ u[1] \notin White
  <2>1. CASE m = t.len
    BY <1>6, <1>9, <2>1, EmptySeq
  <2>2. CASE m # t.len
    <3>1. m < t.len /\ 1 \in 1 .. t.len - m
      BY <1>6, <1>7, <2>2
    <3> QED BY <1>4, <1>9, <3>1
  <2> QED BY <2>1, <2>2
<1>16. Store!IsTrimmedLeft(u, v)
  BY <1>13, <1>14, <1>15 DEF Store!IsTrimmedLeft, White
<1>17. Store!Live(s) /\ ~Store!Live(d) /\ Val[s] = v
  BY <1>3, ValIs DEF v, t
<1> QED BY <1>5, <1>12, <1>13, <1>16, <1>17 DEF Store!Derive

LEMMA ChangeIs ==
  ASSUME StringInv, NEW d \in Names, Pop(d) \/ Change(d)
  PROVE  Store!Change(d)
<1>1. /\ Good(str[d]) /\ Live(d) /\ as_valid(str[d])
      /\ Store!Live(d) /\ Val[d] = Value(str[d])
  BY StringsAreGood, ValIs DEF Pop, Change, Live
<1> DEFINE v == Value(str[d])
<1>2. v \in Seq(Byte) /\ Len(v) = str[d].len /\ str[d].len \in Nat
  BY <1>1, ValueOfGood DEF Good, AStrings
<1>3. CASE Pop(d)
  <2>1. str[d].len > 0 /\ Terminate(d, as_pop(str[d]))
    BY <1>3 DEF Pop
  <2>2. Store!Is(d, SubSeq(v, 1, str[d].len - 1))
    BY <1>1, <2>1, popFine, TerminateIs
  <2>3. v # <<>> /\ SubSeq(v, 1, str[d].len - 1) = Store!First(v, Len(v) - 1)
    BY <1>2, <2>1 DEF Store!First
  <2> HIDE DEF v
  <2> QED BY <1>1, <2>2, <2>3 DEF Store!Change, v
<1>4. ASSUME NEW table \in [Char -> Char], Keep(d, as_inplace_fold(table, str[d]))
      PROVE  Store!Is(d, Store!Mapped(table, v))
  <2>1. /\ as_valid(as_inplace_fold(table, str[d]))
        /\ Value(as_inplace_fold(table, str[d])) = Store!Mapped(table, v)
    BY <1>1, <1>2, inplace_foldGood, FoldIs
  <2> QED BY <1>4, <2>1, PutIs DEF Keep
<1>5. CASE Keep(d, as_inplace_tolower(str[d]))
  BY <1>1, <1>4, <1>5, AStringAssumption DEF as_inplace_tolower, Store!Change
<1>6. CASE Keep(d, as_inplace_toupper(str[d]))
  BY <1>1, <1>4, <1>6, AStringAssumption DEF as_inplace_toupper, Store!Change
<1>7. CASE Keep(d, as_clear(str[d]))
  <2>1. as_valid(as_clear(str[d])) /\ Value(as_clear(str[d])) = [i \in 1 .. Len(v) |-> NUL]
    BY <1>1, <1>2, clearKeeps
  <2>2. Store!Is(d, [i \in 1 .. Len(v) |-> NUL])
    BY <1>7, <2>1, PutIs DEF Keep
  <2> QED BY <1>1, <2>2 DEF Store!Change
<1>8. CASE Terminate(d, Invalid)
  BY <1>1, <1>8, FreeIs DEF Terminate, Store!Change
<1> QED BY <1>3, <1>5, <1>6, <1>7, <1>8 DEF Change

LEMMA AppendCharIs ==
  ASSUME StringInv, NEW d \in Names, NEW c \in Added, AppendChar(d, c)
  PROVE  Store!Change(d)
<1>1. /\ Good(str[d]) /\ as_valid(str[d]) /\ c \in Byte
      /\ Store!Live(d) /\ Val[d] = Value(str[d])
  BY StringsAreGood, CallsAssumption, ValIs DEF AppendChar, Live
<1>2. /\ as_valid(as_append_char(str[d], c))
      /\ Value(as_append_char(str[d], c)) = Append(Value(str[d]), c)
  BY <1>1, append_charGood, append_charValue
<1>3. Store!Is(d, Append(Value(str[d]), c))
  BY <1>2, PutIs DEF AppendChar
<1> QED BY <1>1, <1>3 DEF Store!Change

LEMMA CallIs == StringInv /\ [Call]_vars => [Store!Next]_Val
<1> SUFFICES ASSUME StringInv, [Call]_vars PROVE [Store!Next]_Val
  OBVIOUS
<1>1. CASE UNCHANGED vars
  BY <1>1 DEF vars, Val, Live
<1>2. ASSUME NEW d \in Names,
             Create(d) \/ Fill(d) \/ ReadLine(d) \/ ReadNothing(d) \/ Pop(d) \/ Change(d)
      PROVE  Store!Next
  BY <1>2, CreateIs, FillIs, ReadLineIs, ReadNothingIs, ChangeIs DEF Store!Next
<1>3. ASSUME NEW s \in Names, NEW d \in Names,
             Dupe(s, d) \/ Derive(s, d) \/ TrimLeft(s, d)
      PROVE  Store!Next
  BY <1>3, DupeIs, DeriveIs, TrimLeftIs DEF Store!Next
<1>4. ASSUME NEW d \in Names, NEW c \in Added, AppendChar(d, c) PROVE Store!Next
  BY <1>4, AppendCharIs DEF Store!Next
<1> QED BY <1>1, <1>2, <1>3, <1>4 DEF Call

(* The library is what StringValues promises, for every alphabet, capacity   *)
(* and any calls: no growth, no copy and no block handed back changes a text *)
(* but as the call says.                                                    *)
THEOREM StringsAreTexts == Spec => ImplementsStringValues
<1>1. Init => Store!Init
  <2> SUFFICES ASSUME Init PROVE Store!Init
    OBVIOUS
  <2>1. \A d \in Names : ~Live(d)
    BY DEF Init, Live, Invalid, as_valid
  <2>2. {e \in Names : Live(e)} = {}
    BY <2>1
  <2> QED BY <2>2 DEF Val, Store!Init
<1>2. StringInv /\ [Call]_vars => [Store!Next]_Val
  BY CallIs
<1> QED BY <1>1, <1>2, StringInvHolds, PTL DEF Spec, ImplementsStringValues, Store!Spec

-----------------------------------------------------------------------------
(* Where the functions that nobody calls go wrong.                          *)

LEMMA TextIsChars ==
  ASSUME NEW s, Fine(s), strlen(s.data) = s.len
  PROVE  /\ Good(s) /\ s \in AStrings /\ s.data \in Seq(Cell) /\ s.len \in Nat
         /\ Cap(s) = Len(s.data) /\ Cap(s) \in Nat /\ s.len < Cap(s)
         /\ s.data[s.len + 1] = NUL
         /\ \A i \in 1 .. s.len : s.data[i] \in Byte /\ s.data[i] # NUL
<1>1. /\ Good(s) /\ s \in AStrings /\ s.data \in Seq(Cell) /\ s.len \in Nat
      /\ Cap(s) = Len(s.data) /\ Cap(s) \in Nat /\ s.len < Cap(s)
      /\ s.data[s.len + 1] = NUL
      /\ \A i \in 1 .. s.len : s.data[i] # Junk
  <2>1. s \in AStrings /\ Good(s) /\ Terminated(s)
    BY DEF Fine, Good
  <2>2. s.data \in Seq(Cell) /\ s.len \in Nat /\ Cap(s) = Len(s.data) /\ Cap(s) \in Nat
    BY <2>1, Parts
  <2> QED BY <2>1, <2>2 DEF Good, Terminated
<1>2. HasNul(s.data)
  BY <1>1 DEF HasNul
<1>3. \A i \in 1 .. s.len : s.data[i] # NUL
  BY <1>1, <1>2, strlenFirst
<1>4. ASSUME NEW i \in 1 .. s.len PROVE s.data[i] \in Byte
  <2>1. i \in 1 .. Len(s.data) /\ s.data[i] # Junk
    BY <1>1
  <2>2. s.data[i] \in Cell
    BY <1>1, <2>1
  <2> QED BY <2>1, <2>2 DEF Cell
<1> QED BY <1>1, <1>3, <1>4

LEMMA CStringHeld ==
  ASSUME NEW d \in Seq(Cell), NEW v \in Seq(Cell), NEW n \in Nat, Len(v) = n, n < Len(d),
         d[n + 1] = NUL, \A i \in 1 .. n : d[i] = v[i] /\ v[i] # NUL
  PROVE  strlen(d) = n /\ SubSeq(d, 1, strlen(d)) = v
<1>1. strlen(d) = n
  <2>1. n \in 0 .. Len(d) - 1 /\ \A i \in 1 .. n : d[i] # NUL
    OBVIOUS
  <2> QED BY <2>1, strlenIs
<1>2. Value([data |-> d, len |-> n]) = v
  BY BlockHolds
<1> QED BY <1>1, <1>2 DEF Value

LEMMA CopyIs ==
  ASSUME NEW dest, Fine(dest), NEW src, Fine(src), strlen(src.data) = src.len
  PROVE  /\ as_copy_InBlock(dest, src) <=> src.len # Cap(dest)
         /\ src.len # Cap(dest) => CString(as_copy(dest, src)) = Value(src)
<1>1. /\ Good(src) /\ src.data \in Seq(Cell) /\ src.len \in Nat
      /\ Cap(src) = Len(src.data) /\ Cap(src) \in Nat /\ src.len < Cap(src)
      /\ src.data[src.len + 1] = NUL
      /\ \A i \in 1 .. src.len : src.data[i] # NUL
  BY TextIsChars
<1>2. dest \in AStrings /\ Cap(dest) \in Nat
  BY Parts DEF Fine, Good
<1> DEFINE n == src.len
           t == IF n > Cap(dest) THEN as_reserve(dest, Cap(src)) ELSE dest
           piece == SubSeq(src.data, 1, n + 1)
           d == Overwrite(t.data, 0, piece)
<1>3. HasNul(src.data)
  BY <1>1 DEF HasNul
<1>4. as_copy_InBlock(dest, src) <=> n # Cap(dest)
  BY <1>1, <1>2, <1>3 DEF as_copy_InBlock
<1>5. ASSUME n # Cap(dest) PROVE CString(as_copy(dest, src)) = Value(src)
  <2>1. t \in AStrings /\ Cap(t) \in Nat /\ n + 1 <= Cap(t)
    <3>1. CASE n > Cap(dest)
      BY <1>1, <1>2, <3>1, reserveGood
    <3>2. CASE ~(n > Cap(dest))
      BY <1>1, <1>2, <1>5, <3>2
    <3> QED BY <3>1, <3>2
  <2> HIDE DEF t
  <2>2. t.data \in Seq(Cell) /\ Len(t.data) = Cap(t)
    BY <2>1, Parts
  <2>3. /\ piece \in Seq(Cell) /\ Len(piece) = n + 1
        /\ \A i \in 1 .. n + 1 : piece[i] = src.data[i]
    BY <1>1, SubSeqProperties
  <2> HIDE DEF piece
  <2>4. /\ d \in Seq(Cell) /\ Len(d) = Cap(t)
        /\ \A i \in 1 .. Cap(t) : d[i] = IF i <= n + 1 THEN piece[i] ELSE t.data[i]
    BY <2>2, <2>3, OverwriteFront
  <2> HIDE DEF d
  <2>5. \A i \in 1 .. n + 1 : d[i] = src.data[i]
    BY <1>1, <2>1, <2>3, <2>4
  <2> DEFINE v == Value(src)
  <2>6. v \in Seq(Byte) /\ Len(v) = n /\ \A i \in 1 .. n : v[i] = src.data[i]
    BY <1>1, ValueOfGood
  <2>7. v \in Seq(Cell)
    BY <2>6, CharIsCell, SeqMonotonic
  <2> HIDE DEF v
  <2>8. n < Len(d) /\ d[n + 1] = NUL /\ \A i \in 1 .. n : d[i] = v[i] /\ v[i] # NUL
    <3>1. n < Len(d) /\ n + 1 \in 1 .. n + 1 /\ 1 .. n \subseteq 1 .. n + 1
      BY <1>1, <2>1, <2>4
    <3>2. d[n + 1] = NUL
      BY <1>1, <2>5, <3>1
    <3>3. \A i \in 1 .. n : d[i] = v[i] /\ v[i] # NUL
      BY <1>1, <2>5, <2>6, <3>1
    <3> QED BY <3>1, <3>2, <3>3
  <2>9. SubSeq(d, 1, strlen(d)) = v
    BY <1>1, <2>4, <2>6, <2>7, <2>8, CStringHeld
  <2>10. as_copy(dest, src).data = d
    BY DEF as_copy, d, t, piece
  <2> QED BY <2>9, <2>10 DEF CString, v
<1> QED BY <1>4, <1>5

LEMMA CopyCstrIs ==
  ASSUME NEW s, Good(s), NEW t \in Seq(Char), as_copy_cstr_InBlock(s, t)
  PROVE  CString(as_copy_cstr(s, t)) = t
<1> DEFINE n == Len(t)  c == Append(t, NUL)  d == Overwrite(s.data, 0, c)
<1>1. t \in Seq(Cell) /\ \A i \in 1 .. n : t[i] # NUL
  BY CharIsCell, SeqMonotonic, AStringAssumption
<1>2. /\ s.data \in Seq(Cell) /\ Cap(s) = Len(s.data) /\ Cap(s) \in Nat /\ n \in Nat
      /\ n + 1 <= Cap(s)
  BY LenProperties DEF Good, AStrings, Cap, as_copy_cstr_InBlock
<1>3. /\ c \in Seq(Cell) /\ Len(c) = n + 1 /\ c[n + 1] = NUL
      /\ \A i \in 1 .. n : c[i] = t[i]
  BY <1>1, CharIsCell, AppendProperties
<1>4. as_copy_cstr(s, t).data = d
  BY <1>2 DEF as_copy_cstr
<1>5. Len(t) = n
  OBVIOUS
<1> HIDE DEF c, n
<1>6. /\ d \in Seq(Cell) /\ Len(d) = Cap(s)
      /\ \A i \in 1 .. Cap(s) : d[i] = IF i <= n + 1 THEN c[i] ELSE s.data[i]
  <2>1. /\ d \in Seq(Cell) /\ Len(d) = Len(s.data)
        /\ \A i \in 1 .. Len(s.data) : d[i] = IF i <= Len(c) THEN c[i] ELSE s.data[i]
    BY <1>2, <1>3, OverwriteFront
  <2> HIDE DEF d
  <2> QED BY <1>2, <1>3, <2>1
<1> HIDE DEF d
<1>7. n < Len(d) /\ d[n + 1] = NUL /\ \A i \in 1 .. n : d[i] = t[i] /\ t[i] # NUL
  <2>1. n < Len(d) /\ n + 1 \in 1 .. Cap(s) /\ n + 1 <= n + 1
    BY <1>2, <1>6
  <2>2. d[n + 1] = NUL
    BY <1>3, <1>6, <2>1
  <2>3. ASSUME NEW i \in 1 .. n
        PROVE  d[i] = t[i] /\ t[i] # NUL
    <3>1. i \in 1 .. Cap(s) /\ i <= n + 1
      BY <1>2
    <3>2. d[i] = c[i]
      BY <1>6, <3>1
    <3> QED BY <1>1, <1>3, <3>2
  <2> QED BY <2>1, <2>2, <2>3
<1>8. SubSeq(d, 1, strlen(d)) = t
  BY <1>1, <1>2, <1>5, <1>6, <1>7, CStringHeld
<1> QED BY <1>4, <1>8 DEF CString

LEMMA AppendCstrIs ==
  ASSUME NEW s, Fine(s), strlen(s.data) = s.len, NEW t \in Seq(Char)
  PROVE  CString(as_append_cstr(s, t)) = Value(s) \o t
<1> DEFINE n == s.len  m == Len(t)  need == n + m + 1  c == Append(t, NUL)
           u == IF need > Cap(s) THEN as_reserve(s, Doubled(Cap(s), need)) ELSE s
           d == Overwrite(u.data, n, c)  v == Value(s)  w == v \o t
<1>1. /\ Good(s) /\ s \in AStrings /\ s.data \in Seq(Cell) /\ n \in Nat
      /\ Cap(s) = Len(s.data) /\ Cap(s) \in Nat /\ n < Cap(s)
      /\ \A i \in 1 .. n : s.data[i] # NUL
  BY TextIsChars
<1>2. t \in Seq(Cell) /\ m \in Nat /\ \A i \in 1 .. m : t[i] # NUL
  BY CharIsCell, SeqMonotonic, LenProperties, AStringAssumption
<1>3. /\ u \in AStrings /\ Cap(u) \in Nat /\ need <= Cap(u)
      /\ \A i \in 1 .. n : u.data[i] = s.data[i]
  <2>1. need \in Nat
    BY <1>1, <1>2
  <2>2. CASE need > Cap(s)
    <3> DEFINE k == Doubled(Cap(s), need)
    <3>0. Cap(s) \in Nat \ {0}
      BY <1>1
    <3>1. k \in Nat /\ k >= need
      <4> HIDE DEF need
      <4> QED BY <2>1, <3>0, DoubledSuffices
    <3> HIDE DEF k
    <3>2. u = as_reserve(s, k)
      BY <2>2 DEF k
    <3>3. /\ as_reserve(s, k) \in AStrings /\ Cap(as_reserve(s, k)) = k
          /\ \A i \in 1 .. k : i <= Cap(s) => as_reserve(s, k).data[i] = s.data[i]
      BY <1>1, <3>1, reserveGood
    <3> HIDE DEF u
    <3>4. \A i \in 1 .. n : i \in 1 .. k /\ i <= Cap(s)
      BY <1>1, <1>2, <3>1
    <3> QED BY <3>1, <3>2, <3>3, <3>4
  <2>3. CASE ~(need > Cap(s))
    BY <1>1, <2>1, <2>3
  <2> QED BY <2>2, <2>3
<1>4. as_append_cstr(s, t).data = d
  BY DEF as_append_cstr
<1> HIDE DEF u
<1>5. u.data \in Seq(Cell) /\ Len(u.data) = Cap(u)
  BY <1>3, Parts
<1>6. /\ c \in Seq(Cell) /\ Len(c) = m + 1 /\ c[m + 1] = NUL
      /\ \A i \in 1 .. m : c[i] = t[i]
  BY <1>2, CharIsCell, AppendProperties
<1> HIDE DEF c
<1>7. /\ d \in Seq(Cell) /\ Len(d) = Cap(u)
      /\ \A i \in 1 .. Cap(u) :
           d[i] = IF i \in n + 1 .. n + (m + 1) THEN c[i - n] ELSE u.data[i]
  <2>1. /\ d \in Seq(Cell) /\ Len(d) = Len(u.data)
        /\ \A i \in 1 .. Len(u.data) :
             d[i] = IF i \in n + 1 .. n + Len(c) THEN c[i - n] ELSE u.data[i]
    <3>1. n \in Nat /\ u.data \in Seq(Cell) /\ c \in Seq(Cell)
      BY <1>1, <1>5, <1>6
    <3> QED BY <3>1, OverwriteCells
  <2> HIDE DEF d
  <2> QED BY <1>5, <1>6, <2>1
<1>8. v \in Seq(Byte) /\ Len(v) = n /\ \A i \in 1 .. n : v[i] = s.data[i]
  BY <1>1, ValueOfGood
<1>9. v \in Seq(Cell)
  BY <1>8, CharIsCell, SeqMonotonic
<1>10. Len(t) = m
  OBVIOUS
<1> HIDE DEF v, d, m, n
<1>11. /\ w \in Seq(Cell) /\ Len(w) = n + m
       /\ \A i \in 1 .. n + m : w[i] = IF i <= n THEN v[i] ELSE t[i - n]
  BY <1>2, <1>8, <1>9, <1>10, ConcatProperties
<1> HIDE DEF w
<1>12. ASSUME NEW i \in 1 .. n + m PROVE d[i] = w[i] /\ w[i] # NUL
  <2>1. i \in 1 .. Cap(u)
    BY <1>1, <1>2, <1>3
  <2>2. CASE i <= n
    <3>1. i \in 1 .. n /\ i \notin n + 1 .. n + (m + 1)
      BY <1>1, <2>2
    <3> QED BY <1>1, <1>3, <1>7, <1>8, <1>11, <2>1, <2>2, <3>1
  <2>3. CASE ~(i <= n)
    <3>1. i \in n + 1 .. n + (m + 1) /\ i - n \in 1 .. m
      BY <1>1, <1>2, <2>3
    <3>2. d[i] = c[i - n] /\ w[i] = t[i - n]
      BY <1>7, <1>11, <2>1, <2>3, <3>1
    <3> QED BY <1>2, <1>6, <3>1, <3>2
  <2> QED BY <2>2, <2>3
<1>13. d[(n + m) + 1] = NUL
  <2>1. (n + m) + 1 \in n + 1 .. n + (m + 1) /\ ((n + m) + 1) - n = m + 1
        /\ (n + m) + 1 \in 1 .. Cap(u)
    BY <1>1, <1>2, <1>3
  <2> QED BY <1>6, <1>7, <2>1
<1>14. n + m \in Nat /\ n + m < Len(d)
  BY <1>1, <1>2, <1>3, <1>7
<1>15. SubSeq(d, 1, strlen(d)) = w
  BY <1>7, <1>11, <1>12, <1>13, <1>14, CStringHeld
<1> QED BY <1>4, <1>15 DEF CString, w, v

LEMMA AppendCstrStays ==
  ASSUME NEW s, Good(s), as_valid(s), NEW t \in Seq(Cell)
  PROVE  as_append_cstr_InBlock(s, t)
<1> DEFINE n == s.len  m == Len(t)  need == n + m + 1  c == Append(t, NUL)
           u == IF need > Cap(s) THEN as_reserve(s, Doubled(Cap(s), need)) ELSE s
           d == Overwrite(u.data, n, c)
<1>1. s \in AStrings /\ n \in Nat /\ m \in Nat /\ need \in Nat /\ Cap(s) \in Nat \ {0}
  BY Parts, LenProperties, EmptySeq DEF Good, as_valid
<1>2. u \in AStrings /\ Cap(u) \in Nat /\ need <= Cap(u)
  <2>1. CASE need > Cap(s)
    <3> DEFINE k == Doubled(Cap(s), need)
    <3>1. k \in Nat /\ k >= need
      <4> HIDE DEF need
      <4> QED BY <1>1, DoubledSuffices
    <3>2. u = as_reserve(s, k)
      BY <2>1
    <3> HIDE DEF k, u
    <3> QED BY <1>1, <3>1, <3>2, reserveGood
  <2>2. CASE ~(need > Cap(s))
    BY <1>1, <2>2
  <2> QED BY <2>1, <2>2
<1>3. as_append_cstr(s, t).data = d
  BY DEF as_append_cstr
<1> HIDE DEF u
<1>4. c \in Seq(Cell)
  BY CharIsCell, AppendProperties
<1>5. u.data \in Seq(Cell) /\ Len(u.data) = Cap(u)
  BY <1>2, Parts
<1> HIDE DEF c
<1>6. Len(d) = Cap(u)
  BY <1>1, <1>4, <1>5, OverwriteCells
<1> HIDE DEF d
<1> QED BY <1>2, <1>3, <1>6 DEF as_append_cstr_InBlock, Cap

(* What as_append_astr appends is the text of the other string.              *)
LEMMA AppendAstrIs ==
  ASSUME NEW d, Fine(d), strlen(d.data) = d.len, NEW s, Fine(s), strlen(s.data) = s.len
  PROVE  /\ CString(as_append_astr(d, s)) = Value(d) \o Value(s)
         /\ as_append_astr(d, s).len = d.len + s.len <=> s.len = 0
<1> DEFINE v == Value(s)
<1>1. /\ Good(s) /\ s.len \in Nat /\ d.len \in Nat
      /\ \A i \in 1 .. s.len : s.data[i] # NUL
  BY TextIsChars
<1>2. v \in Seq(Byte) /\ Len(v) = s.len /\ \A i \in 1 .. s.len : v[i] = s.data[i]
  BY <1>1, ValueOfGood
<1>3. as_append_astr(d, s) = as_append_cstr(d, v)
  BY DEF as_append_astr, Value
<1> HIDE DEF v
<1>4. \A i \in 1 .. s.len : v[i] \in Char
  BY <1>1, <1>2 DEF Byte
<1>5. v \in [1 .. s.len -> Char]
  BY <1>2, <1>4, LenProperties
<1>6. v \in Seq(Char)
  BY <1>1, <1>5, SeqDef
<1>7. CString(as_append_cstr(d, v)) = Value(d) \o v
  BY <1>6, AppendCstrIs
<1>8. as_append_cstr(d, v).len = d.len + 2 * Len(v)
  BY DEF as_append_cstr
<1> QED BY <1>1, <1>2, <1>3, <1>7, <1>8 DEF v

(* The cells reserved are as many as are copied.                            *)
LEMMA NcopyIs ==
  ASSUME NEW dest, Good(dest), NEW src, Good(src), NEW n \in 0 .. src.len
  PROVE  /\ as_ncopy_InBlock(dest, src, n)
         /\ Terminated(as_ncopy(dest, src, n)) <=> n < Cap(dest)
         /\ Value(as_ncopy(dest, src, n)) = Value(as_ncopy_cstr(dest, src.data, n))
<1> DEFINE r == IF n > Cap(dest) THEN as_reserve(dest, n) ELSE dest
           t == as_clear(r)
           p == Padded(src.data, n)
           d == Overwrite(t.data, 0, p)
<1>1. /\ dest \in AStrings /\ Cap(dest) \in Nat /\ n \in Nat
      /\ src.data \in Seq(Cell) /\ n <= Len(src.data)
      /\ \A i \in 1 .. n : src.data[i] # Junk
  <2>1. /\ dest \in AStrings /\ Cap(dest) \in Nat /\ src.data \in Seq(Cell)
        /\ src.len \in Nat /\ Len(src.data) = Cap(src) /\ Cap(src) \in Nat
    BY Parts DEF Good
  <2> QED BY <2>1 DEF Good
<1>2. r \in AStrings /\ Cap(r) = (IF n > Cap(dest) THEN n ELSE Cap(dest))
  BY <1>1, reserveGood
<1> HIDE DEF r
<1>3. t \in AStrings /\ Cap(t) = Cap(r) /\ \A i \in 1 .. Cap(t) : t.data[i] = NUL
  BY <1>2, clearGood
<1>4. t.data \in Seq(Cell) /\ Len(t.data) = Cap(t)
  BY <1>3, Parts
<1>5. p \in Seq(Cell) /\ Len(p) = n /\ \A i \in 1 .. n : p[i] # Junk
  BY <1>1, PaddedCells, CharIsCell
<1> HIDE DEF t, p
<1>6. /\ d \in Seq(Cell) /\ Len(d) = Cap(t)
      /\ \A i \in 1 .. Cap(t) : d[i] = IF i <= n THEN p[i] ELSE NUL
  BY <1>3, <1>4, <1>5, OverwriteFront
<1>7. as_ncopy(dest, src, n) = [data |-> d, len |-> n]
  BY DEF as_ncopy, p, t, r
<1> HIDE DEF d
<1>8. /\ n <= Len(d) /\ (n < Len(d) <=> n < Cap(dest))
      /\ \A i \in 1 .. n : d[i] = p[i] /\ d[i] # Junk
      /\ n < Len(d) => d[n + 1] = NUL
  BY <1>1, <1>2, <1>3, <1>5, <1>6
<1>9. as_ncopy_InBlock(dest, src, n)
  BY <1>1, <1>7, <1>8 DEF as_ncopy_InBlock, HasCells, Cap
<1>10. Terminated([data |-> d, len |-> n]) <=> n < Cap(dest)
  BY <1>1, <1>6, <1>8, MakeGood
<1>11. Value([data |-> d, len |-> n]) = p
  BY <1>1, <1>5, <1>6, <1>8, BlockHolds
<1>12. Value(as_ncopy_cstr(dest, src.data, n)) = p
  BY <1>1, ncopyFine DEF p
<1> QED BY <1>7, <1>9, <1>10, <1>11, <1>12

LEMMA TrimRightIs ==
  ASSUME NEW s, Fine(s), strlen(s.data) = s.len, HasInk(s, White)
  PROVE  CString(as_trim_right(s)) = SubSeq(Value(s), 1, EndOfInk(s, White))
<1> DEFINE n == EndOfInk(s, White)  p == SubSeq(s.data, 1, n)  d == Append(p, NUL)
           v == SubSeq(Value(s), 1, n)
<1>1. /\ Good(s) /\ s.data \in Seq(Cell) /\ s.len \in Nat /\ Cap(s) = Len(s.data)
      /\ Cap(s) \in Nat /\ s.len < Cap(s) /\ \A i \in 1 .. s.len : s.data[i] # NUL
  BY TextIsChars
<1>2. n \in 1 .. s.len
  BY <1>1, EndOfInkInText
<1>3. as_trim_right(s).data = d
  <2>1. p \in Seq(Cell) /\ Len(p) = n
    BY <1>1, <1>2, SubSeqProperties
  <2> HIDE DEF p, n
  <2>2. Fresh(n + 1, p) = Append(p, NUL)
    BY <2>1, FreshIs
  <2> QED BY <2>2 DEF as_trim_right, p, n
<1> HIDE DEF n
<1>4. n \in Nat /\ n <= s.len /\ 0 \in 0 .. s.len /\ n \in 0 .. s.len /\ 0 <= n
      /\ 0 + 1 = 1 /\ n - 0 = n /\ \A k \in Nat : 0 + k = k
  BY <1>1, <1>2
<1>5. p \in Seq(Cell) /\ Len(p) = n /\ \A i \in 1 .. n : p[i] = s.data[i]
  BY <1>1, <1>4, SubSeqProperties
<1>6. v \in Seq(Byte) /\ Len(v) = n /\ \A i \in 1 .. n : v[i] = s.data[i]
  <2>1. /\ SubSeq(Value(s), 0 + 1, n) \in Seq(Byte)
        /\ Len(SubSeq(Value(s), 0 + 1, n)) = n - 0
        /\ \A i \in 1 .. n - 0 : SubSeq(Value(s), 0 + 1, n)[i] = s.data[0 + i]
    BY <1>1, <1>4, PartOfText
  <2> QED BY <1>4, <2>1
<1>7. v \in Seq(Cell)
  BY <1>6, CharIsCell, SeqMonotonic
<1> HIDE DEF p, v
<1>8. /\ d \in Seq(Cell) /\ Len(d) = n + 1 /\ d[n + 1] = NUL
      /\ \A i \in 1 .. n : d[i] = p[i]
  BY <1>5, CharIsCell, AppendProperties
<1> HIDE DEF d
<1>9. n < Len(d) /\ \A i \in 1 .. n : d[i] = v[i] /\ v[i] # NUL
  <2>1. n < Len(d) /\ \A i \in 1 .. n : i \in 1 .. s.len
    BY <1>1, <1>4, <1>8
  <2> QED BY <1>1, <1>5, <1>6, <1>8, <2>1
<1>10. SubSeq(d, 1, strlen(d)) = v
  BY <1>4, <1>6, <1>7, <1>8, <1>9, CStringHeld
<1> QED BY <1>3, <1>10 DEF CString, v, n

LEMMA TrimLeftMakes ==
  ASSUME NEW s, Fine(s), NEW rest, rest = SubSeq(s.data, FirstInk(s, White) + 1, Cap(s))
  PROVE  /\ as_trim_left(s).data = Append(SubSeq(rest, 1, strlen(rest)), NUL)
         /\ as_trim_left(s).len = Len(SubSeq(rest, 1, strlen(rest)))
<1> DEFINE u == SubSeq(rest, 1, strlen(rest))
<1>1. Fine(as_trim_left(s)) /\ Value(as_trim_left(s)) = u
  BY trim_leftFine
<1>2. u \in Seq(Byte)
  BY <1>1, ValueOfGood DEF Fine
<1>3. u \in Seq(Cell)
  BY <1>2, CharIsCell, SeqMonotonic
<1>4. as_trim_left(s) = as_from_cstr(u)
  BY DEF as_trim_left
<1> HIDE DEF u
<1>5. as_trim_left(s) = [data |-> Append(u, NUL), len |-> Len(u)]
  BY <1>3, <1>4, from_cstrIs
<1>6. as_trim_left(s).data = Append(u, NUL) /\ as_trim_left(s).len = Len(u)
  BY <1>5
<1> QED BY <1>6 DEF u

LEMMA TrimLeftText ==
  ASSUME NEW s, Fine(s), strlen(s.data) = s.len
  PROVE  CString(as_trim_left(s)) = SubSeq(Value(s), FirstInk(s, White) + 1, s.len)
<1> DEFINE m == FirstInk(s, White)  rest == SubSeq(s.data, m + 1, Cap(s))
           v == SubSeq(Value(s), m + 1, s.len)  d == Append(v, NUL)
           n == s.len - m
<1>1. /\ Good(s) /\ s.data \in Seq(Cell) /\ s.len \in Nat /\ Cap(s) = Len(s.data)
      /\ Cap(s) \in Nat /\ s.len < Cap(s) /\ s.data[s.len + 1] = NUL
      /\ \A i \in 1 .. s.len : s.data[i] # NUL
  BY TextIsChars
<1>2. m \in 0 .. s.len
  BY <1>1, FirstInkInText
<1>3. as_trim_left(s).data = Append(SubSeq(rest, 1, strlen(rest)), NUL)
  <2>1. rest = SubSeq(s.data, FirstInk(s, White) + 1, Cap(s))
    OBVIOUS
  <2> HIDE DEF rest
  <2> QED BY <2>1, TrimLeftMakes
<1> HIDE DEF m
<1>4. /\ n \in Nat /\ m \in Nat /\ s.len \in 0 .. s.len /\ m <= s.len
      /\ m + (n + 1) = s.len + 1 /\ n + 1 <= Cap(s) - m
  BY <1>1, <1>2
<1>5. v \in Seq(Byte) /\ Len(v) = n /\ \A k \in 1 .. n : v[k] = s.data[m + k]
  <2>1. Good(s) /\ m \in 0 .. s.len /\ s.len \in 0 .. s.len /\ m <= s.len
    BY <1>1, <1>2, <1>4
  <2>2. /\ v \in Seq(Byte) /\ Len(v) = s.len - m
        /\ \A k \in 1 .. s.len - m : v[k] = s.data[m + k]
    BY <2>1, PartOfText
  <2> QED BY <2>2
<1>6. v \in Seq(Cell)
  BY <1>5, CharIsCell, SeqMonotonic
<1>7. /\ rest \in Seq(Cell) /\ Len(rest) = Cap(s) - m
      /\ \A k \in 1 .. Cap(s) - m : rest[k] = s.data[m + k]
  BY <1>1, <1>2, SubSeqProperties
<1>8. \A k \in 1 .. n : m + k \in 1 .. s.len
  BY <1>1, <1>4
<1>9. Cap(s) - m \in Nat
  BY <1>1, <1>2
<1> HIDE DEF v, rest, n
<1>10. n < Len(rest) /\ rest[n + 1] = NUL /\ \A k \in 1 .. n : rest[k] = v[k] /\ v[k] # NUL
  <2>1. n + 1 \in 1 .. Cap(s) - m /\ \A k \in 1 .. n : k \in 1 .. Cap(s) - m
    BY <1>4, <1>9
  <2>2. rest[n + 1] = NUL
    BY <1>1, <1>4, <1>7, <2>1
  <2>3. ASSUME NEW k \in 1 .. n PROVE rest[k] = v[k] /\ v[k] # NUL
    <3>1. k \in 1 .. Cap(s) - m /\ m + k \in 1 .. s.len
      BY <1>8, <2>1
    <3>2. rest[k] = s.data[m + k] /\ v[k] = s.data[m + k] /\ s.data[m + k] # NUL
      BY <1>1, <1>5, <1>7, <3>1
    <3> QED BY <3>2
  <2> QED BY <1>4, <1>7, <1>9, <2>2, <2>3
<1>11. SubSeq(rest, 1, strlen(rest)) = v
  BY <1>4, <1>5, <1>6, <1>7, <1>10, CStringHeld
<1>12. /\ d \in Seq(Cell) /\ Len(d) = n + 1 /\ d[n + 1] = NUL
       /\ \A k \in 1 .. n : d[k] = v[k]
  BY <1>5, <1>6, CharIsCell, AppendProperties
<1>13. as_trim_left(s).data = d
  BY <1>3, <1>11
<1> HIDE DEF d
<1>14. n < Len(d) /\ \A k \in 1 .. n : d[k] = v[k] /\ v[k] # NUL
  BY <1>4, <1>10, <1>12
<1>15. SubSeq(d, 1, strlen(d)) = v
  BY <1>4, <1>5, <1>6, <1>12, <1>14, CStringHeld
<1> QED BY <1>13, <1>15 DEF CString, v, m

LEMMA InplaceTrimLeftIs ==
  ASSUME NEW s, Fine(s), strlen(s.data) = s.len
  PROVE  Value(as_inplace_trim_left(s)) = CString(as_trim_left(s)) <=> FirstInk(s, White) = 0
<1> DEFINE m == FirstInk(s, White)  p == SubSeq(s.data, m + 1, s.len)
           d == Overwrite(s.data, 0, p)  v == Value(s)  u == SubSeq(v, m + 1, s.len)
           x == Value([data |-> d, len |-> s.len])
<1>1. /\ Good(s) /\ s \in AStrings /\ s.data \in Seq(Cell) /\ s.len \in Nat
      /\ Cap(s) = Len(s.data) /\ Cap(s) \in Nat /\ s.len < Cap(s)
  BY TextIsChars
<1>2. m \in 0 .. s.len
  BY <1>1, FirstInkInText
<1>3. as_inplace_trim_left(s) = [data |-> d, len |-> s.len]
  BY <1>1 DEF as_inplace_trim_left, AStrings
<1>4. CString(as_trim_left(s)) = u
  BY TrimLeftText
<1> HIDE DEF m
<1>5. s.len \in 0 .. s.len /\ m <= s.len /\ m \in Nat
  BY <1>1, <1>2
<1>6. v \in Seq(Byte) /\ Len(v) = s.len /\ \A i \in 1 .. s.len : v[i] = s.data[i]
  BY <1>1, ValueOfGood
<1>7. v \in Seq(Cell)
  BY <1>6, CharIsCell, SeqMonotonic
<1>8. Len(u) = s.len - m
  BY <1>1, <1>2, <1>5, PartOfText
<1>9. /\ p \in Seq(Cell) /\ Len(p) = s.len - m
      /\ \A i \in 1 .. s.len - m : p[i] = s.data[m + i]
  <2>1. s.data \in Seq(Cell) /\ m \in Nat /\ s.len \in Nat /\ m <= s.len /\ s.len <= Len(s.data)
    BY <1>1, <1>5
  <2> QED BY <2>1, PartOfCells
<1> HIDE DEF v, p
<1>10. /\ d \in Seq(Cell) /\ Len(d) = Len(s.data)
       /\ \A i \in 1 .. Len(s.data) : d[i] = IF i <= Len(p) THEN p[i] ELSE s.data[i]
  BY <1>1, <1>9, OverwriteFront
<1> HIDE DEF d
<1>11. Len(x) = s.len
  <2>1. x = SubSeq(d, 1, s.len)
    BY DEF Value
  <2> QED BY <1>1, <1>10, <2>1, SubSeqProperties
<1>12. ASSUME x = u PROVE m = 0
  <2>1. s.len = s.len - m
    BY <1>8, <1>11, <1>12
  <2> QED BY <1>1, <1>5, <2>1
<1>13. ASSUME m = 0 PROVE x = u
  <2>1. u = v
    <3> DEFINE w == SubSeq(v, 1, s.len)
    <3>1. u = w
      BY <1>13
    <3>2. w \in Seq(Byte) /\ Len(w) = s.len /\ \A i \in 1 .. s.len : w[i] = v[i]
      BY <1>1, <1>6, SubSeqProperties
    <3> HIDE DEF w
    <3>3. w = v
      BY <1>6, <3>2, SeqEqual
    <3> QED BY <3>1, <3>3
  <2>2. \A i \in 1 .. s.len : d[i] = v[i]
    BY <1>1, <1>6, <1>9, <1>10, <1>13
  <2>3. x = v
    BY <1>1, <1>6, <1>7, <1>10, <2>2, BlockHolds
  <2> QED BY <2>1, <2>3
<1> HIDE DEF x, u
<1>14. x = u <=> m = 0
  BY <1>12, <1>13
<1> QED BY <1>3, <1>4, <1>14 DEF x, m

LEMMA InplaceTrimRightIs ==
  ASSUME NEW s, Fine(s), strlen(s.data) = s.len, HasInk(s, White)
  PROVE  CString(as_inplace_trim_right(s)) = SubSeq(Value(s), 1, EndOfInk(s, White))
           <=> EndOfInk(s, White) = s.len
<1> DEFINE n == EndOfInk(s, White)  v == Value(s)  u == SubSeq(v, 1, n)
<1>1. Good(s) /\ s \in AStrings /\ s.len \in Nat
  BY TextIsChars
<1>2. n \in 1 .. s.len
  BY <1>1, EndOfInkInText
<1>3. CString(as_inplace_trim_right(s)) = v
  BY <1>1 DEF CString, as_inplace_trim_right, Value, AStrings
<1> HIDE DEF n
<1>4. v \in Seq(Byte) /\ Len(v) = s.len
  BY <1>1, ValueOfGood
<1> HIDE DEF v
<1>5. u \in Seq(Byte) /\ Len(u) = n /\ \A i \in 1 .. n : u[i] = v[i]
  BY <1>1, <1>2, <1>4, SubSeqProperties
<1> HIDE DEF u
<1>6. v = u => n = s.len
  BY <1>4, <1>5
<1>7. n = s.len => v = u
  BY <1>4, <1>5, SeqEqual
<1> QED BY <1>3, <1>6, <1>7 DEF u, v, n

(* The text has no NUL in it, so the set that strchr is given and isspace    *)
(* find the same characters in it.                                          *)
LEMMA SameInk ==
  ASSUME NEW s, Fine(s), strlen(s.data) = s.len, HasInk(s, White)
  PROVE  /\ FirstInk(s, Blank) = FirstInk(s, White)
         /\ EndOfInk(s, Blank) = EndOfInk(s, White)
         /\ FirstInk(s, White) \in 0 .. s.len /\ EndOfInk(s, White) \in 1 .. s.len
         /\ FirstInk(s, White) < EndOfInk(s, White)
<1> DEFINE m == FirstInk(s, White)  n == EndOfInk(s, White)
           j == FirstInk(s, Blank)  k == EndOfInk(s, Blank)
<1>1. Good(s) /\ s.len \in Nat /\ \A i \in 1 .. s.len : s.data[i] # NUL
  BY TextIsChars
<1>2. \A i \in 1 .. s.len : s.data[i] \in White <=> s.data[i] \in Blank
  BY <1>1 DEF White
<1>3. HasInk(s, Blank)
  BY <1>2 DEF HasInk
<1>4. /\ m \in 0 .. s.len /\ \A i \in 1 .. m : s.data[i] \in White
      /\ m < s.len => s.data[m + 1] \notin White
  BY <1>1, FirstInkInText
<1>5. /\ j \in 0 .. s.len /\ \A i \in 1 .. j : s.data[i] \in Blank
      /\ j < s.len => s.data[j + 1] \notin Blank
  BY <1>1, FirstInkInText
<1>6. /\ n \in 1 .. s.len /\ s.data[n] \notin White
      /\ \A i \in n + 1 .. s.len : s.data[i] \in White
  BY <1>1, EndOfInkInText
<1>7. /\ k \in 1 .. s.len /\ s.data[k] \notin Blank
      /\ \A i \in k + 1 .. s.len : s.data[i] \in Blank
  BY <1>1, <1>3, EndOfInkInText
<1> HIDE DEF m, n, j, k
<1>8. ~(m < j)
  <2>1. SUFFICES ASSUME m < j PROVE FALSE
    OBVIOUS
  <2>2. m < s.len /\ m + 1 \in 1 .. j /\ m + 1 \in 1 .. s.len
    BY <1>1, <1>4, <1>5, <2>1
  <2> QED BY <1>2, <1>4, <1>5, <2>2
<1>9. ~(j < m)
  <2>1. SUFFICES ASSUME j < m PROVE FALSE
    OBVIOUS
  <2>2. j < s.len /\ j + 1 \in 1 .. m /\ j + 1 \in 1 .. s.len
    BY <1>1, <1>4, <1>5, <2>1
  <2> QED BY <1>2, <1>4, <1>5, <2>2
<1>10. ~(n < k)
  <2>1. n < k => k \in n + 1 .. s.len
    BY <1>1, <1>6, <1>7
  <2> QED BY <1>2, <1>6, <1>7, <2>1
<1>11. ~(k < n)
  <2>1. k < n => n \in k + 1 .. s.len
    BY <1>1, <1>6, <1>7
  <2> QED BY <1>2, <1>6, <1>7, <2>1
<1>12. m < n
  <2>1. ~(m < n) => n \in 1 .. m
    BY <1>1, <1>4, <1>6
  <2> QED BY <1>4, <1>6, <2>1
<1>13. j = m /\ k = n
  BY <1>4, <1>5, <1>6, <1>7, <1>8, <1>9, <1>10, <1>11
<1> QED BY <1>4, <1>6, <1>12, <1>13 DEF m, n, j, k

LEMMA InplaceTrimIs ==
  ASSUME NEW s, Fine(s), strlen(s.data) = s.len, HasInk(s, White)
  PROVE  /\ as_inplace_trim_InBlock(s) <=>
              FirstInk(s, White) = 0 \/ s.len + FirstInk(s, White) < Cap(s)
         /\ Value(as_inplace_trim(s)) = Value(as_trim(s))
<1> DEFINE m == FirstInk(s, White)  n == EndOfInk(s, White)  len == n - m
           p == SubSeq(s.data, m + 1, n)  moved == Overwrite(s.data, 0, p)
           zeros == calloc(s.len - len + 1)
           d == IF n > len THEN Overwrite(moved, n, zeros) ELSE moved
<1>1. /\ Good(s) /\ s.data \in Seq(Cell) /\ s.len \in Nat /\ Cap(s) = Len(s.data)
      /\ Cap(s) \in Nat /\ s.len < Cap(s)
      /\ \A i \in 1 .. s.len : s.data[i] \in Byte
  BY TextIsChars
<1>2. FirstInk(s, Blank) = m /\ EndOfInk(s, Blank) = n
      /\ m \in 0 .. s.len /\ n \in 1 .. s.len /\ m < n
  BY SameInk
<1>3. as_inplace_trim_InBlock(s) <=> (n > len => n + s.len - len + 1 <= Cap(s))
  BY <1>2 DEF as_inplace_trim_InBlock
<1>4. as_inplace_trim(s) = [data |-> d, len |-> len]
  BY <1>2 DEF as_inplace_trim
<1>5. as_trim(s) = [data |-> Append(p, NUL), len |-> Len(p)]
  <2>1. as_trim(s) = as_from_cstr(p)
    BY <1>1, trimFine
  <2>2. p \in Seq(Cell)
    BY <1>1, <1>2, SubSeqProperties
  <2> HIDE DEF p
  <2> QED BY <2>1, <2>2, from_cstrIs
<1> HIDE DEF m, n
<1>6. as_inplace_trim_InBlock(s) <=> m = 0 \/ s.len + m < Cap(s)
  <2>1. (n > n - m => n + s.len - (n - m) + 1 <= Cap(s)) <=> m = 0 \/ s.len + m < Cap(s)
    BY <1>1, <1>2
  <2> QED BY <1>3, <2>1
<1>7. /\ p \in Seq(Cell) /\ Len(p) = len /\ \A i \in 1 .. len : p[i] = s.data[m + i]
  <2>1. /\ m + 1 \in Int /\ n \in Int /\ m + 1 <= n /\ n - (m + 1) + 1 = n - m
        /\ \A i \in m + 1 .. n : s.data[i] \in Cell
        /\ \A i \in 1 .. n - m : (m + 1) + i - 1 = m + i
    BY <1>1, <1>2
  <2> HIDE DEF p
  <2>2. /\ p \in Seq(Cell) /\ Len(p) = n - m
        /\ \A i \in 1 .. n - m : p[i] = s.data[(m + 1) + i - 1]
    BY <2>1, SubSeqProperties DEF p
  <2> QED  BY <2>1, <2>2
<1>8. len \in Nat /\ len <= n /\ len <= Len(s.data) /\ s.len - len + 1 \in Nat /\ n \in Nat
      /\ n <= Len(s.data)
  BY <1>1, <1>2
<1>9. Append(p, NUL) \in Seq(Cell) /\ Len(Append(p, NUL)) = len + 1
      /\ \A i \in 1 .. len : Append(p, NUL)[i] = p[i]
  BY <1>7, CharIsCell, AppendProperties
<1> HIDE DEF p, len
<1>10. Value(as_trim(s)) = p
  <2> DEFINE q == Append(p, NUL)
  <2>1. q \in Seq(Cell) /\ Len(q) = len + 1 /\ \A i \in 1 .. len : q[i] = p[i]
    BY <1>9
  <2> HIDE DEF q
  <2>2. len <= Len(q)
    BY <1>8, <2>1
  <2>3. Value([data |-> q, len |-> len]) = p
    BY <1>7, <1>8, <2>1, <2>2, BlockHolds
  <2> QED BY <1>5, <1>7, <2>3 DEF q
<1>11. /\ moved \in Seq(Cell) /\ Len(moved) = Len(s.data)
       /\ \A i \in 1 .. len : moved[i] = p[i]
  <2>1. /\ moved \in Seq(Cell) /\ Len(moved) = Len(s.data)
        /\ \A i \in 1 .. Len(s.data) : moved[i] = IF i <= Len(p) THEN p[i] ELSE s.data[i]
    <3>1. s.data \in Seq(Cell) /\ p \in Seq(Cell)
      BY <1>1, <1>7
    <3> QED BY <3>1, OverwriteFront
  <2> HIDE DEF moved
  <2>2. \A i \in 1 .. len : i \in 1 .. Len(s.data) /\ i <= Len(p)
    BY <1>7, <1>8
  <2> QED BY <2>1, <2>2
<1>12. zeros \in Seq(Cell)
  BY <1>8, callocCells
<1> HIDE DEF moved, zeros
<1>13. /\ d \in Seq(Cell) /\ Len(d) = Len(s.data) /\ \A i \in 1 .. len : d[i] = p[i]
  <2> DEFINE e == Overwrite(moved, n, zeros)
  <2>1. /\ e \in Seq(Cell) /\ Len(e) = Len(moved)
        /\ \A i \in 1 .. Len(moved) :
             e[i] = IF i \in n + 1 .. n + Len(zeros) THEN zeros[i - n] ELSE moved[i]
    BY <1>8, <1>11, <1>12, OverwriteCells
  <2> HIDE DEF e
  <2>2. \A i \in 1 .. len : i \in 1 .. Len(s.data) /\ i \notin n + 1 .. n + Len(zeros)
    BY <1>1, <1>8
  <2>3. \A i \in 1 .. len : e[i] = p[i]
    BY <1>11, <2>1, <2>2
  <2>4. CASE n > len
    BY <1>11, <2>1, <2>3, <2>4 DEF e
  <2>5. CASE ~(n > len)
    BY <1>11, <2>5
  <2> QED BY <2>4, <2>5
<1> HIDE DEF d
<1>14. Value([data |-> d, len |-> len]) = p
  BY <1>7, <1>8, <1>13, BlockHolds
<1> QED BY <1>4, <1>6, <1>10, <1>14 DEF m

(* What as_trim_left leaves begins at the first character that is not white, *)
(* or, where there is none, at the NUL behind the text.                      *)
LEMMA BlankIs ==
  ASSUME NEW s, Fine(s)
  PROVE  HasInk(s, White) <=> as_trim_left(s).len > 0
<1> DEFINE m == FirstInk(s, White)  rest == SubSeq(s.data, m + 1, Cap(s))
<1>1. /\ Good(s) /\ s.data \in Seq(Cell) /\ s.len \in Nat /\ Cap(s) = Len(s.data)
      /\ Cap(s) \in Nat /\ s.len < Cap(s) /\ s.data[s.len + 1] = NUL
  BY Parts DEF Fine, Good, Terminated
<1>2. /\ m \in 0 .. s.len /\ \A i \in 1 .. m : s.data[i] \in White
      /\ m < s.len => s.data[m + 1] \notin White
  BY <1>1, FirstInkInText
<1>3. as_trim_left(s).len = Len(SubSeq(rest, 1, strlen(rest)))
  <2>1. rest = SubSeq(s.data, FirstInk(s, White) + 1, Cap(s))
    OBVIOUS
  <2> HIDE DEF rest
  <2> QED BY <2>1, TrimLeftMakes
<1>4. HasNul(rest)
  BY trim_leftFine DEF as_trim_left_InBlock
<1> HIDE DEF m
<1>5. /\ rest \in Seq(Cell) /\ Len(rest) = Cap(s) - m
      /\ \A k \in 1 .. Cap(s) - m : rest[k] = s.data[m + k]
  BY <1>1, <1>2, SubSeqProperties
<1> HIDE DEF rest
<1>6. /\ strlen(rest) \in 0 .. Len(rest) - 1 /\ rest[strlen(rest) + 1] = NUL
      /\ \A j \in 1 .. strlen(rest) : rest[j] # NUL
  BY <1>4, <1>5, strlenFirst
<1>7. as_trim_left(s).len = strlen(rest)
  BY <1>3, <1>5, <1>6, SubSeqProperties
<1>8. rest[1] = s.data[m + 1] /\ m \in Nat
  BY <1>1, <1>2, <1>5
<1>9. HasInk(s, White) <=> m < s.len
  <2>1. ASSUME m < s.len PROVE HasInk(s, White)
    <3>1. m + 1 \in 1 .. s.len
      BY <1>1, <1>2, <2>1
    <3> QED BY <1>2, <2>1, <3>1 DEF HasInk
  <2>2. ASSUME ~(m < s.len) PROVE ~HasInk(s, White)
    <3>1. m = s.len
      BY <1>1, <1>2, <2>2
    <3> QED BY <1>2, <3>1 DEF HasInk
  <2> QED BY <2>1, <2>2
<1>10. m < s.len <=> strlen(rest) > 0
  <2>1. ASSUME m < s.len PROVE strlen(rest) > 0
    <3>1. rest[1] # NUL
      BY <1>2, <1>8, <2>1 DEF White
    <3> QED BY <1>5, <1>6, <3>1
  <2>2. ASSUME ~(m < s.len) PROVE ~(strlen(rest) > 0)
    <3>1. m = s.len
      BY <1>1, <1>2, <2>2
    <3>2. rest[1] = NUL
      BY <1>1, <1>8, <3>1
    <3>3. strlen(rest) > 0 => 1 \in 1 .. strlen(rest)
      BY <1>5, <1>6
    <3> QED BY <1>6, <3>2, <3>3
  <2> QED BY <2>1, <2>2
<1> QED BY <1>7, <1>9, <1>10

LEMMA EqualIs ==
  ASSUME NEW a, Good(a), NEW b, Good(b)
  PROVE  as_equal(a, b) <=> Value(a) = Value(b)
<1> DEFINE v == Value(a)  w == Value(b)
<1>1. v \in Seq(Byte) /\ Len(v) = a.len /\ \A i \in 1 .. a.len : v[i] = a.data[i]
  BY ValueOfGood
<1>2. w \in Seq(Byte) /\ Len(w) = b.len /\ \A i \in 1 .. b.len : w[i] = b.data[i]
  BY ValueOfGood
<1> HIDE DEF v, w
<1>3. ASSUME as_equal(a, b) PROVE v = w
  <2>1. a.len = b.len /\ \A i \in 1 .. a.len : a.data[i] = b.data[i]
    BY <1>3 DEF as_equal
  <2>2. Len(v) = Len(w) /\ \A i \in 1 .. Len(v) : v[i] = w[i]
    BY <1>1, <1>2, <2>1
  <2> QED BY <1>1, <1>2, <2>2, SeqEqual
<1>4. ASSUME v = w PROVE as_equal(a, b)
  BY <1>1, <1>2, <1>4 DEF as_equal
<1> QED BY <1>3, <1>4 DEF v, w

LEMMA EqualCstrIs ==
  ASSUME NEW s, Fine(s)
  PROVE  as_equal_cstr(s, CString(s)) <=> \A i \in 1 .. s.len : s.data[i] # NUL
<1> DEFINE k == strlen(s.data)  c == SubSeq(s.data, 1, k)  q == Append(c, NUL)
<1>1. /\ Good(s) /\ s.data \in Seq(Cell) /\ s.len \in Nat /\ Cap(s) = Len(s.data)
      /\ Cap(s) \in Nat /\ s.len < Cap(s) /\ s.data[s.len + 1] = NUL
  BY Parts DEF Fine, Good, Terminated
<1>2. HasNul(s.data)
  BY <1>1 DEF HasNul
<1>3. /\ k \in 0 .. Len(s.data) - 1 /\ s.data[k + 1] = NUL
      /\ \A j \in 1 .. k : s.data[j] # NUL
  BY <1>1, <1>2, strlenFirst
<1>4. as_equal_cstr(s, CString(s)) <=>
        s.len = Len(c) /\ \A i \in 1 .. s.len : s.data[i] = q[i]
  BY DEF as_equal_cstr, as_equal, CString
<1>5. (\A i \in 1 .. s.len : s.data[i] # NUL) => k = s.len
  BY <1>1, strlenIs
<1> HIDE DEF k
<1>6. c \in Seq(Cell) /\ Len(c) = k /\ \A i \in 1 .. k : c[i] = s.data[i]
  BY <1>1, <1>3, SubSeqProperties
<1> HIDE DEF c
<1>7. \A i \in 1 .. k : q[i] = c[i]
  BY <1>6, CharIsCell, AppendProperties
<1> HIDE DEF q
<1>8. s.len = k => \A i \in 1 .. s.len : s.data[i] # NUL /\ s.data[i] = q[i]
  BY <1>3, <1>6, <1>7
<1> QED BY <1>4, <1>5, <1>6, <1>8

LEMMA EqualDupes ==
  ASSUME NEW a, Good(a), NEW b, Good(b), as_equal(a, b)
  PROVE  as_equal(as_dupe(a), as_dupe(b))
<1>1. a.len = b.len /\ a.len \in Nat /\ a.len <= Len(a.data) /\ a.len <= Len(b.data)
      /\ Len(a.data) \in Nat /\ Len(b.data) \in Nat
      /\ \A i \in 1 .. a.len : a.data[i] = b.data[i]
  BY Parts DEF as_equal, Good, Cap
<1>2. ASSUME NEW i \in 1 .. a.len
      PROVE  (\E j \in 1 .. i : j > Len(a.data) \/ a.data[j] = NUL)
               <=> (\E j \in 1 .. i : j > Len(b.data) \/ b.data[j] = NUL)
  <2>1. \A j \in 1 .. i : j \in 1 .. a.len /\ ~(j > Len(a.data)) /\ ~(j > Len(b.data))
    BY <1>1
  <2> QED BY <1>1, <2>1
<1>3. Padded(a.data, a.len) = Padded(b.data, b.len)
  BY <1>1, <1>2 DEF Padded
<1>4. Good(as_dupe(a)) /\ Good(as_dupe(b)) /\ Value(as_dupe(a)) = Value(as_dupe(b))
  BY <1>3, dupeGood
<1> QED BY <1>4, EqualIs

LEMMA FoldAt ==
  ASSUME NEW s, Good(s), NEW i \in 1 .. s.len
  PROVE  Fold(ToLower, Value(s))[i] = Fold(ToLower, s.data)[i]
<1>1. Value(s)[i] = s.data[i] /\ Len(Value(s)) = s.len
  BY ValueOfGood
<1>2. i \in 1 .. Len(Value(s)) /\ i \in 1 .. Len(s.data)
  BY <1>1, Parts DEF Good, Cap
<1> HIDE DEF Value
<1> QED BY <1>1, <1>2 DEF Fold

LEMMA EqualFolded ==
  ASSUME NEW a, Good(a), NEW b, Good(b)
  PROVE  as_equal_case_insensitive(a, b) <=> as_equal(as_tolower(a), as_tolower(b))
<1> DEFINE v == Fold(ToLower, Value(a))  w == Fold(ToLower, Value(b))
<1>1. /\ Good(as_tolower(a)) /\ Value(as_tolower(a)) = v
      /\ Good(as_tolower(b)) /\ Value(as_tolower(b)) = w
  BY foldFine, AStringAssumption DEF as_tolower, Fine
<1>2. as_equal(as_tolower(a), as_tolower(b)) <=> v = w
  BY <1>1, EqualIs
<1>3. v \in Seq(Byte) /\ Len(v) = a.len /\ \A i \in 1 .. a.len : v[i] = Fold(ToLower, a.data)[i]
  BY ValueOfGood, FoldCells, FoldAt, AStringAssumption
<1>4. w \in Seq(Byte) /\ Len(w) = b.len /\ \A i \in 1 .. b.len : w[i] = Fold(ToLower, b.data)[i]
  BY ValueOfGood, FoldCells, FoldAt, AStringAssumption
<1> HIDE DEF v, w
<1>5. ASSUME as_equal_case_insensitive(a, b) PROVE v = w
  <2>1. a.len = b.len
        /\ \A i \in 1 .. a.len : Fold(ToLower, a.data)[i] = Fold(ToLower, b.data)[i]
    BY <1>5 DEF as_equal_case_insensitive
  <2>2. Len(v) = Len(w) /\ \A i \in 1 .. Len(v) : v[i] = w[i]
    BY <1>3, <1>4, <2>1
  <2> QED BY <1>3, <1>4, <2>2, SeqEqual
<1>6. ASSUME v = w PROVE as_equal_case_insensitive(a, b)
  BY <1>3, <1>4, <1>6 DEF as_equal_case_insensitive
<1> QED BY <1>2, <1>5, <1>6

LEMMA RisksHold == StringInv => RisksAreKnown
<1> SUFFICES ASSUME StringInv PROVE RisksAreKnown
  OBVIOUS
<1>1. \A d \in Names : HasText(d) => Fine(str[d]) /\ Good(str[d])
  BY StringsAreGood DEF HasText
<1>2. \A t \in Texts : t \in Seq(Char)
  BY CallsAssumption
<1>3. CopiesAreCStrings
  <2>1. SUFFICES ASSUME NEW d \in Names, HasText(d)
        PROVE  /\ \A s \in Names : HasText(s) =>
                    /\ as_copy_InBlock(str[d], str[s]) <=> str[s].len # Cap(str[d])
                    /\ str[s].len # Cap(str[d]) =>
                         CString(as_copy(str[d], str[s])) = Value(str[s])
               /\ \A t \in Texts :
                    as_copy_cstr_InBlock(str[d], t) => CString(as_copy_cstr(str[d], t)) = t
    BY DEF CopiesAreCStrings
  <2>2. ASSUME NEW s \in Names, HasText(s)
        PROVE  /\ as_copy_InBlock(str[d], str[s]) <=> str[s].len # Cap(str[d])
               /\ str[s].len # Cap(str[d]) =>
                    CString(as_copy(str[d], str[s])) = Value(str[s])
    BY <1>1, <2>1, <2>2, CopyIs DEF HasText
  <2>3. ASSUME NEW t \in Texts
        PROVE  as_copy_cstr_InBlock(str[d], t) => CString(as_copy_cstr(str[d], t)) = t
    BY <1>1, <1>2, <2>1, CopyCstrIs DEF HasText
  <2> QED BY <2>2, <2>3
<1>7. CountedCopiesFillBlocks
  <2>1. ASSUME NEW s \in Names, NEW d \in Names, NEW n \in 0 .. str[s].len
        PROVE  /\ as_ncopy_InBlock(str[d], str[s], n)
               /\ Terminated(as_ncopy(str[d], str[s], n)) <=> n < Cap(str[d])
               /\ Value(as_ncopy(str[d], str[s], n)) =
                    Value(as_ncopy_cstr(str[d], str[s].data, n))
    <3>1. Good(str[d]) /\ Good(str[s])
      BY StringsAreGood
    <3> QED BY <3>1, NcopyIs
  <2> QED BY <2>1 DEF CountedCopiesFillBlocks
<1>8. AppendsMiscount
  <2>1. ASSUME NEW d \in Names, HasText(d), NEW t \in Texts
        PROVE  /\ as_append_cstr_InBlock(str[d], t)
               /\ CString(as_append_cstr(str[d], t)) = Value(str[d]) \o t
               /\ as_append_cstr(str[d], t).len = str[d].len + Len(t) <=> t = <<>>
    <3>1. /\ Fine(str[d]) /\ Good(str[d]) /\ as_valid(str[d])
          /\ strlen(str[d].data) = str[d].len /\ str[d].len \in Nat
      BY <1>1, <2>1, Parts DEF HasText, Live, Good
    <3>2. t \in Seq(Char) /\ t \in Seq(Cell)
      BY <1>2, CharIsCell, SeqMonotonic
    <3>3. as_append_cstr(str[d], t).len = str[d].len + 2 * Len(t)
      BY DEF as_append_cstr
    <3>4. Len(t) \in Nat /\ (t = <<>> <=> Len(t) = 0)
      BY <3>2, LenProperties, EmptySeq
    <3> QED BY <3>1, <3>2, <3>3, <3>4, AppendCstrIs, AppendCstrStays
  <2>2. ASSUME NEW d \in Names, NEW s \in Names, Live(d), Live(s)
        PROVE  /\ as_append_astr_InBlock(str[d], str[s]) <=> HasNul(str[s].data)
               /\ s \notin appended => HasNul(str[s].data)
    <3>1. Good(str[d]) /\ as_valid(str[d]) /\ Good(str[s]) /\ str[s].data \in Seq(Cell)
      BY <2>2, StringsAreGood, Parts DEF Live, Good
    <3>2. ASSUME HasNul(str[s].data) PROVE as_append_astr_InBlock(str[d], str[s])
      <4> DEFINE n == strlen(str[s].data)  t == SubSeq(str[s].data, 1, n)
      <4>1. n \in 0 .. Len(str[s].data) - 1
        BY <3>1, <3>2, strlenFirst
      <4>2. t \in Seq(Cell)
        BY <3>1, <4>1, SubSeqProperties
      <4> HIDE DEF t, n
      <4>3. as_append_cstr_InBlock(str[d], t)
        BY <3>1, <4>2, AppendCstrStays
      <4> QED BY <3>2, <4>3 DEF as_append_astr_InBlock, t, n
    <3>3. ASSUME s \notin appended PROVE HasNul(str[s].data)
      <4>1. Fine(str[s])
        BY <2>2, <3>3, StringsAreGood
      <4> QED BY <3>1, <4>1, Parts DEF Fine, Good, Terminated, HasNul
    <3> QED BY <3>2, <3>3 DEF as_append_astr_InBlock
  <2>3. ASSUME NEW d \in Names, NEW s \in Names, HasText(d), HasText(s)
        PROVE  /\ CString(as_append_astr(str[d], str[s])) = Value(str[d]) \o Value(str[s])
               /\ as_append_astr(str[d], str[s]).len = str[d].len + str[s].len
                    <=> str[s].len = 0
    BY <1>1, <2>3, AppendAstrIs DEF HasText
  <2> QED BY <2>1, <2>2, <2>3 DEF AppendsMiscount
<1>4. TrimsAreRightWhere
  <2>1. SUFFICES ASSUME NEW d \in Names, HasText(d), HasInk(str[d], White)
        PROVE  LET s == str[d]  left == FirstInk(s, White)  end == EndOfInk(s, White)
               IN  /\ CString(as_trim_right(s)) = SubSeq(Value(s), 1, end)
                   /\ as_trim_right(s).len = 0
                   /\ Value(as_inplace_trim_left(s)) = CString(as_trim_left(s)) <=> left = 0
                   /\ CString(as_inplace_trim_right(s)) = SubSeq(Value(s), 1, end)
                        <=> end = s.len
                   /\ as_inplace_trim_InBlock(s) <=> left = 0 \/ s.len + left < Cap(s)
                   /\ as_inplace_trim_InBlock(s) =>
                        Value(as_inplace_trim(s)) = Value(as_trim(s))
    BY DEF TrimsAreRightWhere
  <2> DEFINE s == str[d]
  <2>2. Fine(s) /\ strlen(s.data) = s.len /\ HasInk(s, White)
    BY <1>1, <2>1 DEF HasText
  <2> HIDE DEF s
  <2>3. as_trim_right(s).len = 0
    BY DEF as_trim_right
  <2>4. CString(as_trim_right(s)) = SubSeq(Value(s), 1, EndOfInk(s, White))
    BY <2>2, TrimRightIs
  <2>5. Value(as_inplace_trim_left(s)) = CString(as_trim_left(s)) <=> FirstInk(s, White) = 0
    BY <2>2, InplaceTrimLeftIs
  <2>6. CString(as_inplace_trim_right(s)) = SubSeq(Value(s), 1, EndOfInk(s, White))
          <=> EndOfInk(s, White) = s.len
    BY <2>2, InplaceTrimRightIs
  <2>7. /\ as_inplace_trim_InBlock(s) <=>
             FirstInk(s, White) = 0 \/ s.len + FirstInk(s, White) < Cap(s)
        /\ Value(as_inplace_trim(s)) = Value(as_trim(s))
    BY <2>2, InplaceTrimIs
  <2> QED BY <2>3, <2>4, <2>5, <2>6, <2>7 DEF s
<1>5. BlankIsTrimmedAway
  BY StringsAreGood, BlankIs DEF BlankIsTrimmedAway
<1>6. ComparisonsAreOfTexts
  <2>1. ASSUME NEW d \in Names, Live(d), d \notin appended
        PROVE  as_equal_cstr(str[d], CString(str[d])) <=>
                 \A i \in 1 .. str[d].len : str[d].data[i] # NUL
    BY <2>1, StringsAreGood, EqualCstrIs
  <2>2. ASSUME NEW d \in Names, NEW s \in Names
        PROVE  /\ as_equal(str[d], str[s]) => as_equal(as_dupe(str[d]), as_dupe(str[s]))
               /\ as_equal_case_insensitive(str[d], str[s]) <=>
                    as_equal(as_tolower(str[d]), as_tolower(str[s]))
    <3>1. Good(str[d]) /\ Good(str[s])
      BY StringsAreGood
    <3> QED BY <3>1, EqualDupes, EqualFolded
  <2> QED BY <2>1, <2>2 DEF ComparisonsAreOfTexts
<1> QED BY <1>3, <1>4, <1>5, <1>6, <1>7, <1>8 DEF RisksAreKnown

(* On every string that calls can make, as_copy, as_copy_cstr, as_ncopy,     *)
(* as_append_cstr, as_append_astr and the trims that StringCalls leaves out  *)
(* go wrong exactly where RisksAreKnown says: a copy leaves its block when   *)
(* it has as many characters as the block has cells, a counted copy that     *)
(* fills its block has no NUL, whatever is appended is counted twice, and an *)
(* in-place trim keeps a wrong length when there was something to take away. *)
THEOREM RisksAreNoOthers == Spec => []RisksAreKnown
BY StringInvHolds, RisksHold, PTL
=============================================================================
