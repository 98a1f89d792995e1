------------------------------ MODULE AString ------------------------------
(***************************************************************************)
(* The functions of a_string.c, as operators on one a_string in memory: its *)
(* heap block, cell by cell, and its length.  The capacity is the size of  *)
(* the block; `data == NULL` is the block of no cells, for nobody asks for *)
(* a capacity of 0.  A cell that realloc has added holds Junk.             *)
(*                                                                         *)
(* An operator is what the function makes of its arguments.  The operator  *)
(* of that name with InBlock appended says whether all that the function   *)
(* reads and writes on the way lies in its blocks: the block it writes to  *)
(* is that of the string it makes, for no function resizes it afterwards   *)
(* unless its InBlock says so.  A function without one touches no cells    *)
(* but those that it has just asked for by number: as_new, as_clear,       *)
(* as_reserve, and as_sprintf and as_asprintf, for vsnprintf is given the  *)
(* size of the block.                                                      *)
(*                                                                         *)
(* An operator whose name begins with Bad is no part of the specification: *)
(* it is a plausible slip in the operator that follows it.                 *)
(***************************************************************************)
EXTENDS Integers, Sequences

CONSTANTS
  Char,     (* the characters, NUL apart                                    *)
  Blank,    (* those that strchr(" \n\t\r", ch) and isspace(ch) find        *)
  ToLower,  (* tolower                                                      *)
  ToUpper,  (* toupper                                                      *)
  NewCap,   (* the capacity of as_new: 8                                    *)
  LineCap   (* the capacity that as_fgets takes for 0: 8192                 *)

NUL == "nul"
NL == "nl"
Junk == "junk"
Byte == Char \cup {NUL}
Cell == Byte \cup {Junk}

ASSUME AStringAssumption ==
  /\ NUL \notin Char /\ Junk \notin Char
  /\ NL \in Blank /\ Blank \subseteq Char
  /\ ToLower \in [Char -> Char] /\ ToUpper \in [Char -> Char]
  /\ NewCap \in Nat \ {0}
  /\ LineCap \in Nat \ {0}

AStrings == [data : Seq(Cell), len : Nat]
Invalid == [data |-> <<>>, len |-> 0]

Cap(s) == Len(s.data)
as_valid(s) == s.data # <<>>
Value(s) == SubSeq(s.data, 1, s.len)
Terminated(s) == s.len < Cap(s) /\ s.data[s.len + 1] = NUL

-----------------------------------------------------------------------------
(* The C library.                                                           *)

calloc(n) == [i \in 1 .. n |-> NUL]

realloc(data, n) ==
  [i \in 1 .. n |-> IF i <= Len(data) THEN data[i] ELSE Junk]

(* stpncpy: n cells, from the first NUL on all of them NUL.                  *)
Padded(cells, n) ==
  [i \in 1 .. n |->
     IF \E j \in 1 .. i : j > Len(cells) \/ cells[j] = NUL THEN NUL
     ELSE cells[i]]

(* The cells from offset `at` on overwritten by `cells`, as far as they lie   *)
(* in the block; the InBlock of the function says whether all of them do.     *)
Overwrite(data, at, cells) ==
  [i \in 1 .. Len(data) |->
     IF i \in at + 1 .. at + Len(cells) THEN cells[i - at] ELSE data[i]]

(* A block of n cells, the first of them written.                            *)
Fresh(n, cells) == Overwrite(calloc(n), 0, cells)

(* Does a C string begin here, that ends within the block?                   *)
HasNul(data) == \E i \in 1 .. Len(data) : data[i] = NUL
strlen(data) ==
  (CHOOSE i \in 1 .. Len(data) :
     data[i] = NUL /\ \A j \in 1 .. i - 1 : data[j] # NUL) - 1

(* strncpy and stpncpy read n cells, or up to a NUL.                         *)
HasCells(data, n) == n <= Len(data) \/ HasNul(data)

Fold(table, cells) ==
  [i \in 1 .. Len(cells) |->
     IF cells[i] \in Char THEN table[cells[i]] ELSE cells[i]]

-----------------------------------------------------------------------------
(* Creation, capacity, copies.                                              *)

as_with_capacity(cap) == [data |-> calloc(cap), len |-> 0]
as_new == as_with_capacity(NewCap)

as_clear(s) == [s EXCEPT !.data = calloc(Cap(s))]
as_reserve(s, cap) == [s EXCEPT !.data = realloc(s.data, cap)]

Bad_as_from_cstr(text) ==       \* no room for the NUL
  [data |-> Fresh(Len(text), Append(text, NUL)), len |-> Len(text)]
as_from_cstr(text) ==
  [data |-> Fresh(Len(text) + 1, Append(text, NUL)), len |-> Len(text)]
as_from_cstr_InBlock(text) == Len(text) + 1 <= Cap(as_from_cstr(text))

Bad_as_ncopy_cstr(s, src, chars) ==    \* no room for the NUL
  LET t == as_clear(IF chars > Cap(s) THEN as_reserve(s, chars) ELSE s)
  IN  [data |-> Overwrite(t.data, 0, Padded(src, chars)), len |-> chars]
as_ncopy_cstr(s, src, chars) ==
  LET t == as_clear(IF chars + 1 > Cap(s) THEN as_reserve(s, chars + 1) ELSE s)
  IN  [data |-> Overwrite(t.data, 0, Padded(src, chars)), len |-> chars]
as_ncopy_cstr_InBlock(s, src, chars) ==
  HasCells(src, chars) /\ chars <= Cap(as_ncopy_cstr(s, src, chars))

(* strncpy of `len` characters: what follows a NUL is lost.                  *)
as_dupe(s) ==
  [data |-> Fresh(Cap(s), Padded(s.data, s.len)), len |-> s.len]
as_dupe_InBlock(s) == HasCells(s.data, s.len) /\ s.len <= Cap(as_dupe(s))

Bad_as_slice(s, begin, end) ==    \* an end instead of a count
  as_ncopy_cstr(as_new, SubSeq(s.data, begin + 1, Cap(s)), end)
as_slice(s, begin, end) ==
  as_ncopy_cstr(as_new, SubSeq(s.data, begin + 1, Cap(s)), end - begin)
as_slice_InBlock(s, begin, end) ==
  /\ begin <= Cap(s)
  /\ as_ncopy_cstr_InBlock(as_new, SubSeq(s.data, begin + 1, Cap(s)), end - begin)

(* as_sprintf, for the text that the format produces; as_asprintf is this    *)
(* on an invalid string.                                                     *)
as_sprintf(s, text) ==
  LET size == Len(text) + 1
      t == IF as_valid(s) THEN as_reserve(s, size) ELSE as_with_capacity(size)
  IN  [data |-> Overwrite(as_clear(t).data, 0, text), len |-> Len(text)]

as_fold(table, s) ==
  [data |-> Fresh(s.len + 1, Fold(table, Value(s))), len |-> s.len]
as_fold_InBlock(table, s) == s.len <= Cap(s) /\ s.len <= Cap(as_fold(table, s))
as_inplace_fold(table, s) ==
  [s EXCEPT !.data = Overwrite(@, 0, Fold(table, Value(s)))]
as_inplace_fold_InBlock(s) == s.len <= Cap(s)
as_tolower(s) == as_fold(ToLower, s)
as_toupper(s) == as_fold(ToUpper, s)
as_inplace_tolower(s) == as_inplace_fold(ToLower, s)
as_inplace_toupper(s) == as_inplace_fold(ToUpper, s)

(* A capacity that is full doubles, and a cell is written: no NUL follows.   *)
Bad_as_append_char(s, c) ==     \* the block grows after it has overflowed
  LET t == IF s.len > Cap(s) THEN as_reserve(s, 2 * Cap(s)) ELSE s
  IN  [data |-> Overwrite(t.data, s.len, <<c>>), len |-> s.len + 1]
as_append_char(s, c) ==
  LET t == IF s.len + 1 > Cap(s) THEN as_reserve(s, 2 * Cap(s)) ELSE s
  IN  [data |-> Overwrite(t.data, s.len, <<c>>), len |-> s.len + 1]
as_append_char_InBlock(s, c) == s.len < Cap(as_append_char(s, c))

(* The last cell of the text; of an empty one, data[-1].                     *)
as_pop(s) == [data |-> Overwrite(s.data, s.len - 1, <<NUL>>), len |-> s.len - 1]
as_pop_InBlock(s) == s.len \in 1 .. Cap(s)

-----------------------------------------------------------------------------
(* Comparison, of all that the lengths cover.                               *)

Bad_as_equal(lhs, rhs) ==       \* the lengths are not compared
  \A i \in 1 .. lhs.len : i <= rhs.len => lhs.data[i] = rhs.data[i]
as_equal(lhs, rhs) ==
  /\ lhs.len = rhs.len
  /\ \A i \in 1 .. lhs.len : lhs.data[i] = rhs.data[i]
as_equal_cstr(lhs, text) ==
  as_equal(lhs, [data |-> Append(text, NUL), len |-> Len(text)])

as_equal_case_insensitive(lhs, rhs) ==
  /\ lhs.len = rhs.len
  /\ \A i \in 1 .. lhs.len :
       Fold(ToLower, lhs.data)[i] = Fold(ToLower, rhs.data)[i]

-----------------------------------------------------------------------------
(* Input.                                                                   *)

(* fgets stores at most cap - 1 characters of the line, and a NUL.           *)
Stored(line, cap) ==
  Append(SubSeq(line, 1, IF Len(line) < cap THEN Len(line) ELSE cap - 1), NUL)

as_fgets(s, cap, line) ==
  LET t == IF as_valid(s) THEN as_reserve(s, cap) ELSE as_with_capacity(cap)
      data == Overwrite(t.data, 0, Stored(line, cap))
  IN  [data |-> data, len |-> strlen(data)]
as_fgets_InBlock(s, cap, line) ==
  /\ Len(Stored(line, cap)) <= Cap(as_fgets(s, cap, line))
  /\ HasNul(as_fgets(s, cap, line).data)

(* At the end of the input the buffer has been resized all the same.         *)
as_fgets_eof(s, cap) ==
  IF as_valid(s) THEN as_reserve(s, cap) ELSE as_with_capacity(cap)

Bad_as_read_line(s, line) ==    \* shrunk to its length
  LET t == as_fgets(s, LineCap, line)
      u == IF t.data[t.len] = NL THEN as_pop(t) ELSE t
  IN  as_reserve(u, IF u.len = 0 THEN 1 ELSE u.len)
as_read_line(s, line) ==
  LET t == as_fgets(s, LineCap, line)
      u == IF t.data[t.len] = NL THEN as_pop(t) ELSE t
  IN  as_reserve(u, u.len + 1)
(* as_last reads the cell that as_pop writes.                                *)
as_read_line_InBlock(s, line) ==
  /\ as_fgets_InBlock(s, LineCap, line)
  /\ as_pop_InBlock(as_fgets(s, LineCap, line))

as_read_file(text) ==
  [data |-> Fresh(Len(text) + 1, Append(text, NUL)), len |-> Len(text)]
as_read_file_InBlock(text) == Len(text) < Cap(as_read_file(text))

-----------------------------------------------------------------------------
(* Trimming.  strchr finds NUL in the set as well; isspace, which only      *)
(* as_inplace_trim uses, does not.                                          *)

White == Blank \cup {NUL}

(* Offset of the first cell, below `len`, that is not white; or `len`.       *)
FirstInk(s, white) ==
  IF \A i \in 1 .. s.len : s.data[i] \in white THEN s.len
  ELSE (CHOOSE i \in 1 .. s.len :
          s.data[i] \notin white /\ \A j \in 1 .. i - 1 : s.data[j] \in white) - 1

(* The offset after the last cell that is not white.  The loop has no bound:  *)
(* without such a cell it goes on to data[-1].                                *)
HasInk(s, white) == \E i \in 1 .. s.len : s.data[i] \notin white
EndOfInk(s, white) ==
  CHOOSE i \in 1 .. s.len :
    s.data[i] \notin white /\ \A j \in i + 1 .. s.len : s.data[j] \in white

as_trim_left(s) ==
  LET rest == SubSeq(s.data, FirstInk(s, White) + 1, Cap(s))
  IN  as_from_cstr(SubSeq(rest, 1, strlen(rest)))
as_trim_left_InBlock(s) ==
  /\ s.len <= Cap(s)
  /\ HasNul(SubSeq(s.data, FirstInk(s, White) + 1, Cap(s)))

(* `res.len` keeps the 0 of as_with_capacity.                                *)
Bad_as_trim_right(s) ==         \* `end` is not moved behind the last cell
  [data |-> Fresh(EndOfInk(s, White), SubSeq(s.data, 1, EndOfInk(s, White) - 1)),
   len |-> 0]
as_trim_right(s) ==
  [data |-> Fresh(EndOfInk(s, White) + 1, SubSeq(s.data, 1, EndOfInk(s, White))),
   len |-> 0]

as_trim(s) ==
  LET n == EndOfInk(s, White) - FirstInk(s, White)
  IN  [data |-> Fresh(n + 1, SubSeq(s.data, FirstInk(s, White) + 1, EndOfInk(s, White))),
       len |-> n]
as_trim_InBlock(s) ==
  /\ HasInk(s, White) /\ s.len <= Cap(s)
  /\ as_trim(s).len <= Cap(as_trim(s))

(* The text moves to the front; `len` stays.                                 *)
as_inplace_trim_left(s) ==
  [s EXCEPT !.data = Overwrite(@, 0, SubSeq(@, FirstInk(s, White) + 1, s.len))]

(* `end + 1`, where `end` already is one beyond; the memset never runs.      *)
as_inplace_trim_right(s) == [s EXCEPT !.len = EndOfInk(s, White) + 1]

(* The memset begins at `end`, not at the new `len`, and may leave the block. *)
as_inplace_trim(s) ==
  LET end == EndOfInk(s, Blank)
      len == end - FirstInk(s, Blank)
      moved == Overwrite(s.data, 0, SubSeq(s.data, FirstInk(s, Blank) + 1, end))
  IN  [data |-> IF end > len
                THEN Overwrite(moved, end, calloc(s.len - len + 1)) ELSE moved,
       len |-> len]
as_inplace_trim_InBlock(s) ==
  LET end == EndOfInk(s, Blank)  len == end - FirstInk(s, Blank)
  IN  end > len => end + s.len - len + 1 <= Cap(s)

-----------------------------------------------------------------------------
(* Operations that go wrong at a limit.                                     *)

(* strcpy writes the NUL too, which the test of the capacity forgets.        *)
as_copy(dest, src) ==
  LET t == IF src.len > Cap(dest) THEN as_reserve(dest, Cap(src)) ELSE dest
      n == strlen(src.data)
  IN  [data |-> Overwrite(t.data, 0, SubSeq(src.data, 1, n + 1)),
       len |-> src.len]
as_copy_InBlock(dest, src) ==
  /\ HasNul(src.data)
  /\ strlen(src.data) + 1 <=
       IF src.len > Cap(dest) THEN Cap(src) ELSE Cap(dest)

(* The capacity reserved is `len`: the NUL at data[len] is outside.          *)
as_copy_cstr(s, text) ==
  LET n == Len(text)
      t == IF n + 1 > Cap(s) THEN as_reserve(s, n) ELSE s
  IN  [data |-> Overwrite(t.data, 0, Append(text, NUL)), len |-> n]
as_copy_cstr_InBlock(s, text) == Len(text) + 1 <= Cap(s)

Bad_as_ncopy(dest, src, chars) ==      \* the block is not cleared
  LET t == IF chars > Cap(dest) THEN as_reserve(dest, chars) ELSE dest
  IN  [data |-> Overwrite(t.data, 0, Padded(src.data, chars)), len |-> chars]
(* No room for a NUL is reserved.                                            *)
as_ncopy(dest, src, chars) ==
  LET t == as_clear(IF chars > Cap(dest) THEN as_reserve(dest, chars) ELSE dest)
  IN  [data |-> Overwrite(t.data, 0, Padded(src.data, chars)), len |-> chars]
as_ncopy_InBlock(dest, src, chars) ==
  HasCells(src.data, chars) /\ chars <= Cap(as_ncopy(dest, src, chars))

(* The loop already counts in `len` what is added at the end again.          *)
Doubled(cap, need) ==
  LET grown[k \in 0 .. need] == IF k = 0 THEN cap ELSE 2 * grown[k - 1]
  IN  grown[CHOOSE k \in 0 .. need :
              grown[k] >= need /\ \A j \in 0 .. k - 1 : grown[j] < need]
Bad_as_append_cstr(s, text) ==  \* from behind the NUL on
  LET need == s.len + Len(text) + 1
      t == IF need > Cap(s) THEN as_reserve(s, Doubled(Cap(s), need)) ELSE s
  IN  [data |-> Overwrite(t.data, s.len + 1, Append(text, NUL)),
       len |-> s.len + 2 * Len(text)]
as_append_cstr(s, text) ==
  LET need == s.len + Len(text) + 1
      t == IF need > Cap(s) THEN as_reserve(s, Doubled(Cap(s), need)) ELSE s
  IN  [data |-> Overwrite(t.data, s.len, Append(text, NUL)),
       len |-> s.len + 2 * Len(text)]
as_append_cstr_InBlock(s, text) ==
  s.len + Len(text) + 1 <= Cap(as_append_cstr(s, text))
as_append_astr(s, n) == as_append_cstr(s, SubSeq(n.data, 1, strlen(n.data)))
as_append_astr_InBlock(s, n) ==
  /\ HasNul(n.data)
  /\ as_append_cstr_InBlock(s, SubSeq(n.data, 1, strlen(n.data)))
=============================================================================
