---------------------------- MODULE StringRisks ----------------------------
(***************************************************************************)
(* The functions of a_string.c that StringCalls leaves out, as each would  *)
(* go wrong on strings that calls of the others have made: where each of   *)
(* them does keep within its block, and what it then leaves.  No file of   *)
(* the program calls one, but for as_append_cstr, which the string writer  *)
(* of the printer uses.                                                    *)
(***************************************************************************)
EXTENDS StringCalls

CString(s) == SubSeq(s.data, 1, strlen(s.data))
HasText(d) == Live(d) /\ d \notin appended /\ strlen(str[d].data) = str[d].len

(* as_copy and as_copy_cstr compare the text, but not the NUL, with the     *)
(* block: they leave it for a text that is as long as the block, and for a  *)
(* longer C string.  Elsewhere `data` then is the text copied, with a NUL   *)
(* behind it.  (For d = s these are two strings that hold the same.)        *)
CopiesAreCStrings ==
  \A d \in Names : HasText(d) =>
    /\ \A s \in Names : HasText(s) =>
         /\ as_copy_InBlock(str[d], str[s]) <=> str[s].len # Cap(str[d])
         /\ str[s].len # Cap(str[d]) =>
              CString(as_copy(str[d], str[s])) = Value(str[s])
    /\ \A t \in Texts :
         as_copy_cstr_InBlock(str[d], t) => CString(as_copy_cstr(str[d], t)) = t

(* as_ncopy stays in its block and copies what as_ncopy_cstr would, but it   *)
(* reserves no cell for a NUL: the copy has one only where the block was    *)
(* larger than the text to begin with.                                      *)
CountedCopiesFillBlocks ==
  \A s, d \in Names : Live(s) /\ Live(d) =>
    \A n \in 0 .. str[s].len :
      LET copy == as_ncopy(str[d], str[s], n)
      IN  /\ as_ncopy_InBlock(str[d], str[s], n)
          /\ Terminated(copy) <=> n < Cap(str[d])
          /\ Value(copy) = Value(as_ncopy_cstr(str[d], str[s].data, n))

(* Text is appended within the block, and `data` then is the two texts with  *)
(* a NUL behind them; but the length is theirs together only when nothing   *)
(* was appended.  as_append_astr also needs a NUL in the string it appends, *)
(* which as_append_char may have taken.                                     *)
AppendsMiscount ==
  \A d \in Names :
    /\ HasText(d) => \A t \in Texts :
         /\ as_append_cstr_InBlock(str[d], t)
         /\ CString(as_append_cstr(str[d], t)) = Value(str[d]) \o t
         /\ as_append_cstr(str[d], t).len = str[d].len + Len(t) <=> t = <<>>
    /\ \A s \in Names : Live(d) /\ Live(s) =>
         /\ as_append_astr_InBlock(str[d], str[s]) <=> HasNul(str[s].data)
         /\ s \notin appended => HasNul(str[s].data)
    /\ \A s \in Names : HasText(d) /\ HasText(s) =>
         LET both == as_append_astr(str[d], str[s])
         IN  /\ CString(both) = Value(str[d]) \o Value(str[s])
             /\ both.len = str[d].len + str[s].len <=> str[s].len = 0

(* A string with blanks around it is trimmed right only by as_trim and      *)
(* as_trim_left.  as_trim_right gives the text but no length, the functions *)
(* that trim in place do so only where there is nothing to trim on that     *)
(* side, and as_inplace_trim needs a cell of the block for each blank it    *)
(* takes from the left.                                                     *)
TrimsAreRightWhere ==
  \A d \in Names : HasText(d) /\ HasInk(str[d], White) =>
    LET s == str[d]  left == FirstInk(s, White)  end == EndOfInk(s, White)
    IN  /\ CString(as_trim_right(s)) = SubSeq(Value(s), 1, end)
        /\ as_trim_right(s).len = 0
        /\ Value(as_inplace_trim_left(s)) = CString(as_trim_left(s)) <=> left = 0
        /\ CString(as_inplace_trim_right(s)) = SubSeq(Value(s), 1, end)
             <=> end = s.len
        /\ as_inplace_trim_InBlock(s) <=> left = 0 \/ s.len + left < Cap(s)
        /\ as_inplace_trim_InBlock(s) =>
             Value(as_inplace_trim(s)) = Value(as_trim(s))

(* A string can be trimmed on the right, where no loop stops at the first    *)
(* cell, if and only if trimming it on the left leaves anything: a text of  *)
(* blanks and NULs cannot, whatever its length.                             *)
BlankIsTrimmedAway ==
  \A d \in Names : Live(d) /\ d \notin appended =>
    (HasInk(str[d], White) <=> as_trim_left(str[d]).len > 0)

(* A string with a NUL in it is equal to no C string, not even to that in    *)
(* its own block, though a copy of it may be equal to one of another string. *)
(* Strings that are equal have equal copies, and the comparison that ignores *)
(* case is that of the strings in lower case.                               *)
ComparisonsAreOfTexts ==
  \A d \in Names : Live(d) =>
    /\ d \notin appended =>
         (as_equal_cstr(str[d], CString(str[d])) <=>
            \A i \in 1 .. str[d].len : str[d].data[i] # NUL)
    /\ \A s \in Names : Live(s) =>
         /\ as_equal(str[d], str[s]) => as_equal(as_dupe(str[d]), as_dupe(str[s]))
         /\ as_equal_case_insensitive(str[d], str[s]) <=>
              as_equal(as_tolower(str[d]), as_tolower(str[s]))

(* On strings that calls have made, the functions that StringCalls leaves    *)
(* out (as_copy, as_copy_cstr, as_ncopy, as_append_cstr, as_append_astr,    *)
(* as_trim_right and those that trim in place) do what their callers expect *)
(* but where these say.                                                     *)
RisksAreKnown ==
  /\ CopiesAreCStrings /\ CountedCopiesFillBlocks /\ AppendsMiscount
  /\ TrimsAreRightWhere /\ BlankIsTrimmedAway /\ ComparisonsAreOfTexts

-----------------------------------------------------------------------------
(* A claim that the code does not keep.                                     *)

(* a_string.h, as_append_cstr: "concatenates a C string to an a_string".    *)
AppendCstrConcatenates ==
  \A d \in Names, t \in Texts : Live(d) =>
    as_append_cstr(str[d], t).len = str[d].len + Len(t)
=============================================================================
