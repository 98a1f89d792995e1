---------------------------- MODULE StringValues ----------------------------
(***************************************************************************)
(* What the string library promises: a string is a text, and a function    *)
(* makes a text of its arguments, whatever memory it takes to hold it.     *)
(* A text may contain NULs, but copies keep nothing that follows a NUL     *)
(* except the length.  StringCalls.tla implements this specification.      *)
(***************************************************************************)
EXTENDS Integers, Sequences

CONSTANTS
  Names,       (* the a_string variables of the caller                      *)
  NUL, NL, Blank, ToLower, ToUpper,
  Added,       (* the characters it appends                                 *)
  Texts,       (* the C strings the caller has                              *)
  Files,       (* what there is to read                                     *)
  LineSize     (* characters of a line that one call can read               *)

VARIABLE val   (* the text of each variable that holds a string             *)

CutAtNul(t) ==
  [i \in 1 .. Len(t) |-> IF \E j \in 1 .. i : t[j] = NUL THEN NUL ELSE t[i]]
First(t, n) == SubSeq(t, 1, IF n < Len(t) THEN n ELSE Len(t))
Pad(t, n) == CutAtNul([i \in 1 .. n |-> IF i <= Len(t) THEN t[i] ELSE NUL])
Mapped(f, t) == [i \in 1 .. Len(t) |-> IF t[i] = NUL THEN NUL ELSE f[t[i]]]
UpToNul(t) ==
  First(t, CHOOSE n \in 0 .. Len(t) :
             /\ \A i \in 1 .. n : t[i] # NUL
             /\ n = Len(t) \/ t[n + 1] = NUL)

(* u is t without its blanks on the left, or on both sides.                 *)
IsTrimmedLeft(u, t) ==
  \E n \in 0 .. Len(t) :
    /\ u = SubSeq(t, n + 1, Len(t))
    /\ \A i \in 1 .. n : t[i] \in Blank \cup {NUL}
    /\ u = <<>> \/ u[1] \notin Blank \cup {NUL}
IsTrimmed(u, t) ==
  \E n \in 0 .. Len(t) :
    /\ IsTrimmedLeft(u, First(t, n)) /\ u # <<>>
    /\ u[Len(u)] \notin Blank \cup {NUL}
    /\ \A i \in n + 1 .. Len(t) : t[i] \in Blank \cup {NUL}

Live(d) == d \in DOMAIN val
Is(d, t) == val' = [e \in DOMAIN val \cup {d} |-> IF e = d THEN t ELSE val[e]]
Drop(d) == val' = [e \in DOMAIN val \ {d} |-> val[e]]

Create(d) ==
  /\ ~Live(d)
  /\ \/ Is(d, <<>>)
     \/ \E t \in Texts \cup Files : Is(d, t)

Fill(d) ==
  \E t \in Texts :
    \/ Is(d, t)
    \/ Live(d) /\ \E n \in 0 .. Len(t) + 1 : Is(d, Pad(t, n))

ReadLine(d) ==
  \E t \in Files :
    LET line == UpToNul(First(t, LineSize))
    IN  /\ line # <<>>
        /\ Is(d, IF line[Len(line)] = NL THEN First(line, Len(line) - 1)
                 ELSE line)
ReadNothing(d) == Is(d, IF Live(d) THEN val[d] ELSE <<>>)

Derive(s, d) ==
  /\ Live(s) /\ ~Live(d)
  /\ \/ Is(d, CutAtNul(val[s]))
     \/ \E i, j \in 0 .. Len(val[s]) :
          i <= j /\ Is(d, CutAtNul(SubSeq(val[s], i + 1, j)))
     \/ Is(d, Mapped(ToLower, val[s])) \/ Is(d, Mapped(ToUpper, val[s]))
     \/ \E i, j \in 0 .. Len(val[s]) :
          LET u == SubSeq(val[s], i + 1, j)
          IN  IsTrimmed(u, val[s]) /\ Is(d, u)
     \/ \E i \in 0 .. Len(val[s]) :
          LET u == SubSeq(val[s], i + 1, Len(val[s]))
          IN  IsTrimmedLeft(u, val[s]) /\ Is(d, UpToNul(u))

Change(d) ==
  /\ Live(d)
  /\ \/ \E c \in Added : Is(d, Append(val[d], c))
     \/ val[d] # <<>> /\ Is(d, First(val[d], Len(val[d]) - 1))
     \/ Is(d, Mapped(ToLower, val[d])) \/ Is(d, Mapped(ToUpper, val[d]))
     \/ Is(d, [i \in 1 .. Len(val[d]) |-> NUL])
     \/ Drop(d)

Init == val = [d \in {} |-> <<>>]
Next ==
  \/ \E d \in Names : Create(d) \/ Fill(d) \/ ReadLine(d) \/ ReadNothing(d) \/ Change(d)
  \/ \E s, d \in Names : Derive(s, d)
Spec == Init /\ [][Next]_val
=============================================================================
