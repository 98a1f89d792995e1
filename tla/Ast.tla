-------------------------------- MODULE Ast --------------------------------
(***************************************************************************)
(* The nodes of expr.h and stmt.h, the functions that make them, and what  *)
(* the _free functions of expr.c and stmt.c do, statement by statement.    *)
(*                                                                         *)
(* A tree is a function from the paths of its nodes, the members that lead  *)
(* to each, to their structs.  Of a struct, `has` are the members that are  *)
(* nodes and `len` the number of its elements; `boxed` says that it lies in *)
(* a block of its own and its owner has a pointer to it.  An array and the  *)
(* characters of a string are boxed nodes, too.                             *)
(*                                                                         *)
(* An operator whose name begins with Bad is no part of the specification: *)
(* it is a plausible slip in the operator that follows it.                 *)
(***************************************************************************)
EXTENDS Integers, Sequences

CONSTANT Nth    (* what the elements of an array are called, by number       *)

ASSUME NthAssumption ==
  Nth \in Seq(STRING) /\ \A j, k \in 1 .. Len(Nth) : Nth[j] = Nth[k] => j = k

Above(p) == {SubSeq(p, 1, k) : k \in 0 .. Len(p)}    \* p itself is one of them
Owner(p) == SubSeq(p, 1, Len(p) - 1)
Blocks(t) == {p \in DOMAIN t : t[p].boxed}
Elements(len) == {Nth[k] : k \in 1 .. len}
(* What the members of the structs are called, elements included.            *)
Fields ==
  {"args", "block", "branches", "cond", "data", "expr", "ident", "index", "inner",
   "items", "lhs", "rhs", "size", "stmt", "type"} \cup Elements(Len(Nth))
NoSub == <<>>

(* The members that are nodes, and what each may be.                        *)
Holds ==
  [C_EXPR_IDENTIFIER |-> "C_Identifier", C_EXPR_UNARYOP |-> "C_UnaryExpr",
   C_EXPR_BINOP |-> "C_BinaryExpr", C_EXPR_ARRAY_INDEX |-> "C_ArrayIndex",
   C_EXPR_FNCALL |-> "C_FnCall", C_EXPR_ASSIGN |-> "C_Assign",
   C_EXPR_IF |-> "C_If", C_EXPR_LITERAL |-> "C_Literal"]
Members(n) ==
  CASE n.type = "C_ArrayType" -> [size |-> {"C_Expr"}, inner |-> {"C_Type"}]
    [] n.type = "C_Type" -> IF n.has = {} THEN NoSub ELSE [data |-> {"C_ArrayType"}]
    [] n.type = "C_Literal" ->
         IF n.kind = "C_STRING" THEN [data |-> {"text"}] ELSE NoSub
    [] n.type = "C_Identifier" -> [ident |-> {"text"}]
    [] n.type = "C_Lvalue" -> [data |-> {"C_Identifier", "C_ArrayIndex"}]
    [] n.type = "C_FunctionArgument" ->
         [ident |-> {"C_Identifier"}, type |-> {"C_Type"}]
    [] n.type = "C_ArgumentList" -> [args |-> {"C_FunctionArgument[]"}]
    [] n.type = "C_UnaryExpr" -> [inner |-> {"C_Expr"}]
    [] n.type = "C_BinaryExpr" -> [lhs |-> {"C_Expr"}, rhs |-> {"C_Expr"}]
    [] n.type = "C_ArrayIndex" -> [ident |-> {"C_Expr"}, index |-> {"C_Expr"}]
    [] n.type = "C_FnCall" ->
         [ident |-> {"C_Identifier"}, args |-> {"C_ArgumentList"}]
    [] n.type = "C_Assign" -> [lhs |-> {"C_Lvalue"}, rhs |-> {"C_Expr"}]
    [] n.type = "C_If_Branch" -> [cond |-> {"C_Expr"}, block |-> {"C_Block"}]
    [] n.type = "C_If" -> [branches |-> {"C_If_Branch[]"}]
    [] n.type = "C_Expr" -> [data |-> {Holds[n.kind]}]
    [] n.type = "C_BlockItem" ->
         IF "stmt" \in n.has THEN [stmt |-> {"C_Stmt"}] ELSE [expr |-> {"C_Expr"}]
    [] n.type = "C_Block" -> [items |-> {"C_BlockItem[]"}]
    [] n.type = "C_FunctionArgument[]" ->
         [f \in Elements(n.len) |-> {"C_FunctionArgument"}]
    [] n.type = "C_If_Branch[]" -> [f \in Elements(n.len) |-> {"C_If_Branch"}]
    [] n.type = "C_BlockItem[]" -> [f \in Elements(n.len) |-> {"C_BlockItem"}]
    [] OTHER -> NoSub

(* What expr.h and stmt.h say of a struct and of one in another, and which   *)
(* kind the constructors leave a type and an lvalue.                        *)
IsStruct(n) ==
  /\ n.has = DOMAIN Members(n) /\ n.len \in 0 .. Len(Nth)
  /\ n.type = "C_Type" => n.kind = "C_TYPE_PRIMITIVE"
  /\ n.type = "C_Lvalue" => n.kind = "C_LV_IDENTIFIER"
  /\ n.type = "C_Expr" => n.kind \in DOMAIN Holds
  /\ n.type = "C_Literal" <=>
       n.kind \in {"C_INT", "C_FLOAT", "C_STRING", "C_CHAR", "C_BOOL", "C_NULL"}
  /\ n.val # "" <=>
       \/ n.type \in {"C_Identifier", "C_UnaryExpr", "C_BinaryExpr", "C_Literal"}
       \/ n.type = "C_Type" /\ n.has = {}
Arrays == {"C_FunctionArgument[]", "C_If_Branch[]", "C_BlockItem[]"}
IsMember(m, n, f) ==
  /\ m.type \in Members(n)[f]
  /\ m.boxed = (/\ n.type \notin Arrays
                /\ n.type = "C_Expr" => m.type = "C_Identifier")
  /\ m.type \in Arrays => m.len = n.len
IsTree(t) ==
  /\ <<>> \in DOMAIN t /\ ~t[<<>>].boxed
  /\ \A p \in DOMAIN t :
       /\ p \in Seq(Fields) /\ IsStruct(t[p])
       /\ p # <<>> =>
            /\ Above(p) \subseteq DOMAIN t /\ p[Len(p)] \in t[Owner(p)].has
            /\ IsMember(t[p], t[Owner(p)], p[Len(p)])
       /\ \A f \in t[p].has : Append(p, f) \in DOMAIN t

-----------------------------------------------------------------------------
(* Making nodes.  AST_INIT_NODE sets all but the position to zero, so that   *)
(* a kind that the constructor does not set is the first of its enum.        *)

Node(type, kind, val, sub) ==
  [p \in {<<>>} \cup UNION {{<<f>> \o q : q \in DOMAIN sub[f]} : f \in DOMAIN sub} |->
     IF p # <<>> THEN sub[Head(p)][Tail(p)]
     ELSE [type |-> type, kind |-> kind, val |-> val, has |-> DOMAIN sub,
           len |-> 0, boxed |-> FALSE]]
make(t) == [t EXCEPT ![<<>>].boxed = TRUE]
Text == make(Node("text", "", "", NoSub))
Counting(t, len) == [t EXCEPT ![<<>>].len = len]
Array(type, elements) ==
  make(Counting(Node(type, "", "",
                     [f \in Elements(Len(elements)) |->
                        elements[CHOOSE k \in 1 .. Len(elements) : Nth[k] = f]]),
                Len(elements)))

C_Identifier_new(ident) == Node("C_Identifier", "", ident, [ident |-> Text])

C_ArrayType_new(index, inner) ==
  Node("C_ArrayType", "", "", [size |-> make(index), inner |-> make(inner)])
C_Type_new_primitive(t) == Node("C_Type", "C_TYPE_PRIMITIVE", t, NoSub)
C_Type_new_array(t) ==
  Node("C_Type", "C_TYPE_PRIMITIVE", "", [data |-> make(t)])

C_Literal_new_string(string) ==
  Node("C_Literal", "C_STRING", string, [data |-> Text])
C_Literal_new(kind, val) == Node("C_Literal", kind, val, NoSub)

C_Lvalue_new_ident(ident) ==
  Node("C_Lvalue", "C_LV_IDENTIFIER", "", [data |-> make(ident)])
C_Lvalue_new_array_index(array_index) ==
  Node("C_Lvalue", "C_LV_IDENTIFIER", "", [data |-> make(array_index)])

C_FunctionArgument_new(ident, type) ==
  Node("C_FunctionArgument", "", "", [ident |-> make(ident), type |-> make(type)])
C_ArgumentList_new(args, args_len) ==
  Counting(Node("C_ArgumentList", "", "", [args |-> args]), args_len)
(* C_FnCall_new is declared in expr.h only; whoever calls it makes both.     *)
C_FnCall_new(ident, args) ==
  Node("C_FnCall", "", "", [ident |-> make(ident), args |-> make(args)])

C_UnaryExpr_new(op, inner) == Node("C_UnaryExpr", "", op, [inner |-> make(inner)])
C_BinaryExpr_new(op, lhs, rhs) ==
  Node("C_BinaryExpr", "", op, [lhs |-> make(lhs), rhs |-> make(rhs)])
C_ArrayIndex_new(ident, index) ==
  Node("C_ArrayIndex", "", "", [ident |-> make(ident), index |-> make(index)])
C_Assign_new(lhs, rhs) ==
  Node("C_Assign", "", "", [lhs |-> make(lhs), rhs |-> make(rhs)])

C_If_Branch_new(kind, cond, block) ==
  Node("C_If_Branch", kind, "", [cond |-> make(cond), block |-> make(block)])
C_If_new(branches, branches_len) ==
  Counting(Node("C_If", "", "", [branches |-> branches]), branches_len)

C_Expr_new_identifier(ident) ==
  Node("C_Expr", "C_EXPR_IDENTIFIER", "", [data |-> make(ident)])
C_Expr_new(kind, e) == Node("C_Expr", kind, "", [data |-> e])

C_BlockItem_new_expr(expr) == Node("C_BlockItem", "", "", [expr |-> make(expr)])
C_BlockItem_new_stmt(stmt) == Node("C_BlockItem", "", "", [stmt |-> make(stmt)])
C_Block_new(items, len) ==
  Counting(Node("C_Block", "", "", [items |-> items]), len)
C_Stmt_new == Node("C_Stmt", "", "", NoSub)

-----------------------------------------------------------------------------
(* Freeing nodes: the statements of each function.  `at` is the way from    *)
(* the node the function is called for to the node the statement is about.  *)

Do(do, what, at) ==
  [do |-> do, what |-> what, of |-> <<>>, at |-> at, len |-> 0]
Call(function, at) == Do("call", function, at)
free(at) == Do("free", "", at)
as_free(at) == free(at)
ForEach(n, field, function) ==
  [k \in 1 .. n.len |-> Call(function, <<field, Nth[k]>>)]

C_Identifier_free == <<as_free(<<"ident">>)>>
C_ArrayType_free ==             \* `size` twice, `inner` never
  <<Call("C_Expr", <<"size">>), Call("C_Type", <<"inner">>),
    free(<<"size">>), free(<<"size">>)>>
BadC_Type_free(n) ==            \* whatever the kind
  IF n.has # {}
  THEN <<Call("C_ArrayType", <<"data">>), free(<<"data">>)>> ELSE <<>>
C_Type_free(n) ==
  IF n.kind = "C_TYPE_ARRAY"
  THEN <<Call("C_ArrayType", <<"data">>), free(<<"data">>)>> ELSE <<>>
C_Lvalue_free(n) ==
  IF n.kind = "C_LV_IDENTIFIER"
  THEN <<Call("C_Identifier", <<"data">>), free(<<"data">>)>>
  ELSE <<Call("C_ArrayIndex", <<"data">>), free(<<"data">>)>>
C_FunctionArgument_free ==
  <<Call("C_Identifier", <<"ident">>), Call("C_Type", <<"type">>),
    free(<<"ident">>), free(<<"type">>)>>
C_ArgumentList_free(n) == ForEach(n, "args", "C_FunctionArgument")
C_UnaryExpr_free == <<Call("C_Expr", <<"inner">>), free(<<"inner">>)>>
C_BinaryExpr_free ==
  <<Call("C_Expr", <<"lhs">>), Call("C_Expr", <<"rhs">>),
    free(<<"lhs">>), free(<<"rhs">>)>>
C_ArrayIndex_free ==
  <<Call("C_Expr", <<"ident">>), Call("C_Expr", <<"index">>),
    free(<<"index">>), free(<<"ident">>)>>
C_FnCall_free ==
  <<Call("C_Identifier", <<"ident">>), Call("C_ArgumentList", <<"args">>),
    free(<<"ident">>), free(<<"args">>)>>
BadC_Assign_free ==             \* a side is freed before what it holds
  <<Call("C_Lvalue", <<"lhs">>), free(<<"lhs">>),
    free(<<"rhs">>), Call("C_Expr", <<"rhs">>)>>
C_Assign_free ==
  <<Call("C_Lvalue", <<"lhs">>), Call("C_Expr", <<"rhs">>),
    free(<<"lhs">>), free(<<"rhs">>)>>
BadC_If_Branch_free ==          \* an else has no condition
  <<Call("C_Block", <<"block">>), free(<<"block">>)>>
C_If_Branch_free ==
  <<Call("C_Expr", <<"cond">>), Call("C_Block", <<"block">>),
    free(<<"cond">>), free(<<"block">>)>>
C_If_free(n) == ForEach(n, "branches", "C_If_Branch") \o <<free(<<"branches">>)>>
BadC_Literal_free(n) ==         \* only strings of some length have a block
  IF n.kind = "C_STRING" /\ n.val # "s" THEN <<as_free(<<"data">>)>> ELSE <<>>
C_Literal_free(n) ==
  IF n.kind = "C_STRING" THEN <<as_free(<<"data">>)>> ELSE <<>>
C_Expr_free(n) ==
  CASE n.kind = "C_EXPR_IDENTIFIER" ->
         <<Call("C_Identifier", <<"data">>), free(<<"data">>)>>
    [] n.kind = "C_EXPR_UNARYOP"     -> <<Call("C_UnaryExpr", <<"data">>)>>
    [] n.kind = "C_EXPR_BINOP"       -> <<Call("C_BinaryExpr", <<"data">>)>>
    [] n.kind = "C_EXPR_ARRAY_INDEX" -> <<Call("C_ArrayIndex", <<"data">>)>>
    [] n.kind = "C_EXPR_FNCALL"      -> <<Call("C_FnCall", <<"data">>)>>
    [] n.kind = "C_EXPR_ASSIGN"      -> <<Call("C_Assign", <<"data">>)>>
    [] n.kind = "C_EXPR_IF"          -> <<Call("C_If", <<"data">>)>>
    [] n.kind = "C_EXPR_LITERAL"     -> <<Call("C_Literal", <<"data">>)>>

C_BlockItem_free(n) ==
  IF "stmt" \in n.has THEN <<Call("C_Stmt", <<"stmt">>), free(<<"stmt">>)>>
  ELSE <<Call("C_Expr", <<"expr">>), free(<<"expr">>)>>
C_Block_free(n) == ForEach(n, "items", "C_BlockItem") \o <<free(<<"items">>)>>
C_Stmt_free == <<>>

Freed ==
  {"C_Identifier", "C_ArrayType", "C_Type", "C_Lvalue", "C_FunctionArgument",
   "C_ArgumentList", "C_UnaryExpr", "C_BinaryExpr", "C_ArrayIndex", "C_FnCall",
   "C_Assign", "C_If_Branch", "C_If", "C_Literal", "C_Expr", "C_BlockItem",
   "C_Block", "C_Stmt"}
FreeBody(function, n) ==
  CASE function = "C_Identifier"       -> C_Identifier_free
    [] function = "C_ArrayType"        -> C_ArrayType_free
    [] function = "C_Type"             -> C_Type_free(n)
    [] function = "C_Lvalue"           -> C_Lvalue_free(n)
    [] function = "C_FunctionArgument" -> C_FunctionArgument_free
    [] function = "C_ArgumentList"     -> C_ArgumentList_free(n)
    [] function = "C_UnaryExpr"        -> C_UnaryExpr_free
    [] function = "C_BinaryExpr"       -> C_BinaryExpr_free
    [] function = "C_ArrayIndex"       -> C_ArrayIndex_free
    [] function = "C_FnCall"           -> C_FnCall_free
    [] function = "C_Assign"           -> C_Assign_free
    [] function = "C_If_Branch"        -> C_If_Branch_free
    [] function = "C_If"               -> C_If_free(n)
    [] function = "C_Literal"          -> C_Literal_free(n)
    [] function = "C_Expr"             -> C_Expr_free(n)
    [] function = "C_BlockItem"        -> C_BlockItem_free(n)
    [] function = "C_Block"            -> C_Block_free(n)
    [] function = "C_Stmt"             -> C_Stmt_free
=============================================================================
