------------------------------- MODULE MCAst -------------------------------
(***************************************************************************)
(* Trees for AstProperties, made by the constructors: every kind of node    *)
(* over every kind of leaf, and those under nodes of every kind.            *)
(***************************************************************************)
EXTENDS AstProperties

Id(name) == C_Identifier_new(name)
Lit(kind, val) == C_Expr_new("C_EXPR_LITERAL", C_Literal_new(kind, val))
Str(val) == C_Expr_new("C_EXPR_LITERAL", C_Literal_new_string(val))

x == C_Expr_new_identifier(Id("x"))
one == Lit("C_INT", "1")
s == Str("s")

Leaves ==
  {x, one, s, Str("s64"), Str("s65"), Str("s600"), Lit("C_FLOAT", "1.5"),
   Lit("C_CHAR", "a"), Lit("C_CHAR", "bel"), Lit("C_BOOL", "true"),
   Lit("C_NULL", "<null>")}

Unary(op, e) == C_Expr_new("C_EXPR_UNARYOP", C_UnaryExpr_new(op, e))
Binary(op, l, r) == C_Expr_new("C_EXPR_BINOP", C_BinaryExpr_new(op, l, r))
Index(e, k) == C_Expr_new("C_EXPR_ARRAY_INDEX", C_ArrayIndex_new(e, k))
Assign(l, e) == C_Expr_new("C_EXPR_ASSIGN", C_Assign_new(l, e))

IntType == C_Type_new_primitive("int")
ArrayType(size) == C_ArrayType_new(size, IntType)
Argument(type) == C_FunctionArgument_new(Id("y"), type)
Indexed == Assign(C_Lvalue_new_array_index(C_ArrayIndex_new(x, s)), one)
Arguments ==
  {<<>>, <<Argument(IntType)>>, <<Argument(IntType), Argument(IntType)>>,
   <<Argument(C_Type_new_array(ArrayType(s)))>>,
   <<Argument(C_Type_new_array(ArrayType(Indexed)))>>}
FnCall(args) ==
  C_Expr_new("C_EXPR_FNCALL",
             C_FnCall_new(Id("f"), C_ArgumentList_new(
               Array("C_FunctionArgument[]", args), Len(args))))

Block(items) == C_Block_new(Array("C_BlockItem[]", items), Len(items))
If(branches) ==
  C_Expr_new("C_EXPR_IF",
             C_If_new(Array("C_If_Branch[]", branches), Len(branches)))
Branch(kind, e, items) == C_If_Branch_new(kind, e, Block(items))

Over(some) ==
  {Unary("not", e) : e \in some}
    \cup {Binary("add", e, x) : e \in some} \cup {Binary("pow", s, e) : e \in some}
    \cup {Index(e, one) : e \in some} \cup {Index(x, e) : e \in some}
    \cup {Assign(C_Lvalue_new_ident(Id("x")), e) : e \in some}
    \cup {If(<<Branch("C_IF_PRIMARY", e, <<>>),
               Branch("C_IF_ELSEIF", one, <<C_BlockItem_new_stmt(C_Stmt_new)>>),
               Branch("C_IF_ELSE", s, <<C_BlockItem_new_expr(e),
                                       C_BlockItem_new_expr(one)>>)>>) : e \in some}

Small ==
  {x, s} \cup Over({s}) \cup {FnCall(args) : args \in Arguments}
    \cup {Indexed}

MCRoots ==
  Leaves \cup Over(Leaves) \cup Small \cup Over(Small)
    \cup {ArrayType(e) : e \in {s, x, one}}
    \cup {C_Type_new_array(ArrayType(s)),
          C_ArrayType_new(x, C_Type_new_array(ArrayType(s)))}
    \cup {Block(<<C_BlockItem_new_expr(Unary("negation", s))>>)}

MCNth == <<"1st", "2nd", "3rd">>
MCTextLen == [s |-> 1, s64 |-> 64, s65 |-> 65, s600 |-> 600]
MCPieces ==
  Punctuation \cup DOMAIN MCTextLen
    \cup {"x", "y", "f", "1", "1.5", "bel", "true", "<null>", "int", "not",
          "add", "pow", "negation", "anything", "<a very long string>"}
MCChar == MCPieces \cup {"nl"}
AsItIs == [c \in Char |-> c]
=============================================================================
