--------------------------- MODULE AstProperties ---------------------------
(***************************************************************************)
(* What printing and freeing a tree must do, said of the whole tree.       *)
(***************************************************************************)
EXTENDS AstWalk

Opening == {"(", "array_type(", "array_index(", "args(", "fn_call(", "lvalue("}
Punctuation == Opening \cup {")", ", ", ": ", "\""}

(* What is to be read of a node that has a name, an operator or a value.     *)
Shown(n) ==
  CASE n.kind = "C_CHAR" /\ n.val \in Printable -> "anything"
    [] n.kind = "C_STRING" /\ TextLen[n.val] > ShownMax -> "<a very long string>"
    [] OTHER -> n.val

(* Trees as the constructors make them, whose texts are of known lengths.     *)
ASSUME WalkAssumption ==
  /\ WriterCap \in Nat \ {0}
  /\ ShownMax \in Nat /\ ShownMax + 2 < AP_WRITEF_MAXSIZE
  /\ Pieces \subseteq Char /\ Punctuation \subseteq Pieces
  /\ {"anything", "<a very long string>"} \subseteq Pieces \ Punctuation
  /\ \A t \in Roots :
       /\ IsTree(t) /\ t[<<>>].type \in Freed
       /\ \A p \in DOMAIN t :
            /\ t[p].kind = "C_STRING" => TextLen[t[p].val] \in Nat
            /\ t[p].val # "" => Shown(t[p]) \in Pieces \ Punctuation

TypeOK ==
  /\ root \in Roots /\ stage \in {"print", "free"} \cup Ended
  /\ heap \subseteq Blocks(root)
  /\ \A k \in 1 .. Len(out) : out[k].what \in Pieces

(* Below a type nothing is printed or freed: its kind says that it is no      *)
(* array, whatever it has.                                                  *)
InType(p) == \E q \in Above(p) \ {p} : root[q].type = "C_Type"
Has(type) == \E p \in DOMAIN root : root[p].type = type /\ ~InType(p)
HasIndexedLvalue ==
  \E p \in DOMAIN root :
    /\ root[p].type = "C_Lvalue" /\ ~InType(p)
    /\ root[Append(p, "data")].type = "C_ArrayIndex"

-----------------------------------------------------------------------------
(* Freeing.                                                                 *)

(* The blocks that no call frees: the array of an argument list, and all    *)
(* that a type has.                                                         *)
LostBlocks ==
  {p \in Blocks(root) :
     p # <<>> /\ (InType(p) \/ root[Owner(p)].type = "C_ArgumentList")}

(* When a tree has been freed only these are left, however deep it was.      *)
AllIsFreed == stage = "freed" => heap = LostBlocks

(* An owner is freed after what it owns, never before: nothing that is      *)
(* still to be freed loses its last pointer.                                *)
OwnersAreFreedLast ==
  [][\A p \in heap \ heap', q \in heap' :
       p \in Above(q) => q \in LostBlocks]_walkVars

(* Freed twice or used afterwards is only an array type that is freed by     *)
(* itself.  A node is taken for another only where an indexed element is     *)
(* assigned to, and then always: such a tree is never freed, or printed to  *)
(* its end.  Of the visitors only that of `if` ends the process.            *)
MisusesAreKnown ==
  /\ stage = "misused" => root[<<>>].type = "C_ArrayType" /\ heap # {}
  /\ stage = "confused" => HasIndexedLvalue
  /\ stage = "freed" => ~HasIndexedLvalue /\ root[<<>>].type # "C_ArrayType"
  /\ stage = "panic" => Has("C_If")

(* The constructors, freeing and printing agree on what a node is, but for    *)
(* the nodes that MisusesAreKnown names.                                     *)
NodesAreKnown == TypeOK /\ MisusesAreKnown

-----------------------------------------------------------------------------
(* Printing.                                                                *)

Printed == out # <<>> /\ stage \in {"free", "freed"}

(* A parenthesis is closed by the node that has opened it, and between the   *)
(* two nothing is written but by that node and what is below it; all that    *)
(* were opened are closed in the end.                                       *)
Matches(j, k) ==
  /\ out[j].what \in Opening /\ out[k].what = ")"
  /\ \A i \in j .. k : out[j].of \in Above(out[i].of)
  /\ \A i \in j + 1 .. k - 1 :
       out[i].of = out[j].of => out[i].what \notin Opening \cup {")"}
ParenthesesMatch ==
  /\ \A k \in 1 .. Len(out) :
       out[k].what = ")" => \E j \in 1 .. k - 1 : Matches(j, k)
  /\ Printed =>
       \A j \in 1 .. Len(out) :
         out[j].what \in Opening => \E k \in j + 1 .. Len(out) : Matches(j, k)

(* Of two members the left one is written first, and a node before both.     *)
LeftOf(f, g) ==
  \/ <<f, g>> \in {<<"size", "inner">>, <<"lhs", "rhs">>, <<"ident", "index">>,
                   <<"ident", "type">>, <<"ident", "args">>}
  \/ \E j, k \in 1 .. Len(Nth) : j < k /\ f = Nth[j] /\ g = Nth[k]
Precedes(p, q) ==
  \/ p \in Above(q) \ {q}
  \/ \E k \in 1 .. Len(p) :
       /\ k <= Len(q) /\ SubSeq(p, 1, k - 1) = SubSeq(q, 1, k - 1)
       /\ LeftOf(p[k], q[k])
Named == {p \in DOMAIN root : root[p].val # "" /\ ~InType(p)}
Names(k) == out[k].what \notin Punctuation

(* What is printed names each node of the tree once, in its order.           *)
NodesArePrintedInOrder ==
  /\ \A k \in 1 .. Len(out) :
       Names(k) => out[k].of \in Named /\ out[k].what = Shown(root[out[k].of])
  /\ \A j, k \in 1 .. Len(out) :
       j < k /\ Names(j) /\ Names(k) => Precedes(out[j].of, out[k].of)
  /\ Printed =>
       \A p \in Named : \E k \in 1 .. Len(out) : Names(k) /\ out[k].of = p

(* What is printed is the tree: its nodes in order, its parentheses closed.   *)
TreesArePrinted == NodesArePrintedInOrder /\ ParenthesesMatch

(* No formatted piece, with its NUL, is longer than the printer's buffer.    *)
FormatsFit ==
  todo # <<>> /\ First.do = "writef" => First.len < AP_WRITEF_MAXSIZE

(* The string writer's C string ends after the first piece, whatever else   *)
(* was written, and its length is twice that of the text.                   *)
StringWriterStopsEarly ==
  out # <<>> =>
    /\ SubSeq(buf.data, 1, strlen(buf.data)) = <<out[1].what>>
    /\ buf.len = 2 * Len(out)

(* Both limits of what is written through: a buffer that suffices, and a     *)
(* string that does not.                                                    *)
WritersAreKnown == FormatsFit /\ StringWriterStopsEarly

(* Every tree is printed and freed, or its process ends.                     *)
Termination == <>(stage \in Ended)
=============================================================================
