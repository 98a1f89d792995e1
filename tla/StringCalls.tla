---------------------------- MODULE StringCalls ----------------------------
(***************************************************************************)
(* A caller of the string library: it holds some a_string variables and    *)
(* calls the functions of a_string.c on them in any order.  A function     *)
(* that makes a new string is called for a variable that holds none, as    *)
(* the old one would be lost.                                              *)
(*                                                                         *)
(* Its part of the bargain is the guards below: a string is not popped when *)
(* it is empty, not trimmed when all of it is blank (both would go to      *)
(* data[-1]), and not shrunk by a read that fails.  Whether the functions   *)
(* keep theirs is recorded: `fault` is raised by the first access, read or  *)
(* write, that leaves its block.  The string that such a call leaves is    *)
(* that of the cells it wrote inside the block; what else the stray store  *)
(* hits is no string of ours.                                              *)
(*                                                                         *)
(* Not every function can be called so: StringRisks.tla says what the      *)
(* others, and that read, would do to these strings.                       *)
(***************************************************************************)
EXTENDS AString

CONSTANTS
  Names,    (* the variables of the caller                                  *)
  Texts,    (* C strings: sequences of Char                                 *)
  Added,    (* characters that it appends one by one                        *)
  Files,    (* lines and contents of files: sequences of Byte, not empty    *)
  MaxLen    (* bound: no string is made longer than this one by one         *)

ASSUME CallsAssumption ==
  /\ Texts \subseteq Seq(Char)
  /\ Added \subseteq Byte
  /\ Files \subseteq Seq(Byte) \ {<<>>}
  /\ MaxLen \in Nat

VARIABLES
  str,       (* the a_string of each variable                               *)
  appended,  (* history: the variables that as_append_char has written last *)
  fault      (* history: has an access left its block?                      *)

vars == <<str, appended, fault>>

Live(d) == as_valid(str[d])

Init ==
  /\ str = [d \in Names |-> Invalid]
  /\ appended = {}
  /\ fault = FALSE

(* The variable d gets a string that ends in a NUL.                          *)
Terminate(d, s) ==
  str' = [str EXCEPT ![d] = s] /\ appended' = appended \ {d}
Keep(d, s) == str' = [str EXCEPT ![d] = s] /\ UNCHANGED appended

(* The accesses of the call lie in their blocks, or they are a fault.        *)
Stays(inBlock) == fault' = (fault \/ ~inBlock)

Create(d) ==
  /\ ~Live(d)
  /\ \/ UNCHANGED fault /\ Terminate(d, as_new)
     \/ \E t \in Texts :
          Stays(as_from_cstr_InBlock(t)) /\ Terminate(d, as_from_cstr(t))
     \/ \E t \in Files :
          Stays(as_read_file_InBlock(t)) /\ Terminate(d, as_read_file(t))

Fill(d) ==
  \E t \in Texts :
    \/ UNCHANGED fault /\ Terminate(d, as_sprintf(str[d], t))
    \/ /\ Live(d)
       /\ \E n \in 0 .. Len(t) + 1 :
            /\ Stays(as_ncopy_cstr_InBlock(str[d], Append(t, NUL), n))
            /\ Terminate(d, as_ncopy_cstr(str[d], Append(t, NUL), n))

(* as_last panics on a line that begins with a NUL.                          *)
ReadLine(d) ==
  \E t \in Files :
    /\ as_fgets(str[d], LineCap, t).len > 0
    /\ Stays(as_read_line_InBlock(str[d], t))
    /\ Terminate(d, as_read_line(str[d], t))

(* as_read_line at the end of its input, for a string that its buffer holds. *)
ReadNothing(d) ==
  /\ str[d].len < LineCap /\ UNCHANGED fault
  /\ Keep(d, as_fgets_eof(str[d], LineCap))

Dupe(s, d) ==
  /\ Live(s) /\ ~Live(d) /\ Stays(as_dupe_InBlock(str[s]))
  /\ str' = [str EXCEPT ![d] = as_dupe(str[s])]
  /\ appended' = IF s \in appended THEN appended \cup {d} ELSE appended \ {d}

Derive(s, d) ==
  /\ Live(s) /\ ~Live(d)
  /\ \/ \E i, j \in 0 .. str[s].len :
          /\ i <= j /\ Stays(as_slice_InBlock(str[s], i, j))
          /\ Terminate(d, as_slice(str[s], i, j))
     \/ Stays(as_fold_InBlock(ToLower, str[s])) /\ Terminate(d, as_tolower(str[s]))
     \/ Stays(as_fold_InBlock(ToUpper, str[s])) /\ Terminate(d, as_toupper(str[s]))
     \/ /\ HasInk(str[s], White) /\ Stays(as_trim_InBlock(str[s]))
        /\ Terminate(d, as_trim(str[s]))

(* as_trim_left hands the rest of the block to strlen, and makes nothing of   *)
(* it when no NUL is there to be found.                                      *)
TrimLeft(s, d) ==
  /\ Live(s) /\ ~Live(d) /\ s \notin appended
  /\ Stays(as_trim_left_InBlock(str[s]))
  /\ IF as_trim_left_InBlock(str[s])
     THEN Terminate(d, as_trim_left(str[s])) ELSE UNCHANGED <<str, appended>>

AppendChar(d, c) ==
  /\ Live(d) /\ str[d].len < MaxLen
  /\ Stays(as_append_char_InBlock(str[d], c))
  /\ str' = [str EXCEPT ![d] = as_append_char(str[d], c)]
  /\ appended' = appended \cup {d}

BadPop(d) ==                            \* not part of the specification
  Live(d) /\ Stays(as_pop_InBlock(str[d])) /\ Terminate(d, as_pop(str[d]))
Pop(d) ==
  /\ Live(d) /\ str[d].len > 0
  /\ Stays(as_pop_InBlock(str[d])) /\ Terminate(d, as_pop(str[d]))

Change(d) ==
  /\ Live(d)
  /\ \/ /\ Stays(as_inplace_fold_InBlock(str[d]))
        /\ \/ Keep(d, as_inplace_tolower(str[d]))
           \/ Keep(d, as_inplace_toupper(str[d]))
     \/ UNCHANGED fault /\ Keep(d, as_clear(str[d]))
     \/ UNCHANGED fault /\ Terminate(d, Invalid)           \* as_free

Call ==
  \/ \E d \in Names :
       Create(d) \/ Fill(d) \/ ReadLine(d) \/ ReadNothing(d) \/ Pop(d) \/ Change(d)
  \/ \E s, d \in Names : Dupe(s, d) \/ Derive(s, d) \/ TrimLeft(s, d)
  \/ \E d \in Names, c \in Added : AppendChar(d, c)

Spec == Init /\ [][Call]_vars

-----------------------------------------------------------------------------

TypeOK ==
  /\ str \in [Names -> AStrings]
  /\ appended \subseteq Names
  /\ fault \in BOOLEAN

(* None of these calls reads or writes a cell outside a block, in whatever  *)
(* order they are made: each reserves what it and its callees write, and    *)
(* the NULs and lengths that it relies on, others have left there.          *)
NoFault == ~fault

(* The length never exceeds the capacity, and all that it covers has been   *)
(* written: growing a block adds cells that hold nothing, and no caller may *)
(* come to see them as characters.                                          *)
TextIsWritten ==
  \A d \in Names :
    /\ str[d].len <= Cap(str[d])
    /\ \A i \in 1 .. str[d].len : str[d].data[i] # Junk

(* "null terminated", says a_string.h:23 of every string; after the calls   *)
(* of this caller it is so unless as_append_char was the last to touch it.  *)
(* strtod, strtoll and strchr are called on `data` and rely on it.  (Of the *)
(* functions that are not called here, as_ncopy, as_append_cstr and those   *)
(* that trim on the right need not leave it so: see StringRisks.tla.)       *)
TerminatedUnlessAppended ==
  \A d \in Names : Live(d) /\ d \notin appended => Terminated(str[d])

StringInv ==
  /\ TypeOK
  /\ NoFault
  /\ TextIsWritten
  /\ TerminatedUnlessAppended

-----------------------------------------------------------------------------
(* A string is the text that its length covers.                             *)

Val == [d \in {e \in Names : Live(e)} |-> Value(str[d])]
Store == INSTANCE StringValues WITH val <- Val, LineSize <- LineCap - 1

(* Growing, shrinking, clearing and copying blocks never change a text that *)
(* the call did not mean to change.                                         *)
ImplementsStringValues == Store!Spec
=============================================================================
