------------------------------ MODULE AstWalk ------------------------------
(***************************************************************************)
(* One tree: it is printed, or not, and freed, as main does with its        *)
(* expression.  The calls that are still to return are the statements to do *)
(* next, `todo`; a step does the first of them.  The heap is the set of the *)
(* tree's blocks that are not freed yet, each named by its path.  What the  *)
(* string writer holds of what is written is a string of AString, in which  *)
(* each piece is one character.                                            *)
(***************************************************************************)
EXTENDS AstPrinter, AString

CONSTANTS
  Roots,      (* the trees that are printed and freed                       *)
  Pieces,     (* all that the printer may write                             *)
  WriterCap   (* the capacity of the string writer at first: 128            *)

VARIABLES
  root,    (* the tree                                                      *)
  stage,   (* "print", "free", or how it ended                              *)
  todo,    (* the statements left                                           *)
  heap,    (* the blocks that are there                                     *)
  out,     (* the statements that have written a piece                      *)
  buf      (* the string writer                                             *)

walkVars == <<root, stage, todo, heap, out, buf>>

Ended == {"freed", "panic", "crash", "misused", "confused"}

(* Is the struct at the path in a block that is there, or in none?           *)
Boxes(path) == Above(path) \cap Blocks(root)
Alive(path) ==
  \A p \in Boxes(path) : (\A q \in Boxes(path) : Len(q) <= Len(p)) => p \in heap

Init ==
  /\ root \in Roots
  /\ stage \in {"print", "free"} /\ (stage = "print" => root[<<>>].type \in Visited)
  /\ todo = <<Call(root[<<>>].type, <<>>)>>
  /\ heap = Blocks(root)
  /\ out = <<>> /\ buf = as_with_capacity(WriterCap)

First == Head(todo)
Doing(what) ==
  stage \notin Ended /\ todo # <<>> /\ First.do \in what /\ Alive(First.of)
Goto(s) == stage' = s /\ UNCHANGED <<root, todo, heap, out, buf>>

(* The statements of a function called for the node at the path.             *)
Placed(body, path) ==
  [k \in 1 .. Len(body) |->
     [body[k] EXCEPT !.of = path, !.at = path \o @]]
Body(function, path) ==
  Placed(IF stage = "print" THEN VisitBody(function, root[path])
         ELSE FreeBody(function, root[path]), path)

Enter ==
  /\ Doing({"call"}) /\ Alive(First.at) /\ root[First.at].type = First.what
  /\ todo' = Body(First.what, First.at) \o Tail(todo)
  /\ UNCHANGED <<root, stage, heap, out, buf>>

(* A pointer to one type of node is followed as if to another.               *)
Confuse ==
  /\ Doing({"call"}) /\ Alive(First.at) /\ root[First.at].type # First.what
  /\ Goto("confused")

ap_write_string(piece) == buf' = as_append_cstr(buf, <<piece>>)
Writing(piece) ==
  /\ out' = Append(out, [First EXCEPT !.what = piece]) /\ ap_write_string(piece)
  /\ todo' = Tail(todo) /\ UNCHANGED <<root, stage, heap>>
Write == Doing({"write", "writef"}) /\ Writing(First.what)

(* A character is taken for an address.                                     *)
WriteAddress == Doing({"address"}) /\ (Goto("crash") \/ Writing("anything"))

Panic == Doing({"panic"}) /\ Goto("panic")

Free ==
  /\ Doing({"free"}) /\ First.at \in heap
  /\ heap' = heap \ {First.at} /\ todo' = Tail(todo)
  /\ UNCHANGED <<root, stage, out, buf>>

(* A statement is about a node that was freed, or frees it again.            *)
Touched ==
  {First.of} \cup IF First.do \in {"call", "free"} THEN {First.at} ELSE {}
UseAfterFree ==
  /\ stage \notin Ended /\ todo # <<>>
  /\ \E path \in Touched : ~Alive(path)
  /\ Goto("misused")

EndPrint ==
  /\ stage = "print" /\ todo = <<>>
  /\ stage' = "free" /\ todo' = <<Call(root[<<>>].type, <<>>)>>
  /\ UNCHANGED <<root, heap, out, buf>>
EndFree == stage = "free" /\ todo = <<>> /\ Goto("freed")

Next ==
  \/ Enter \/ Confuse \/ Write \/ WriteAddress \/ Panic
  \/ Free \/ UseAfterFree \/ EndPrint \/ EndFree

Spec == Init /\ [][Next]_walkVars
FairSpec == Spec /\ WF_walkVars(Next)
=============================================================================
