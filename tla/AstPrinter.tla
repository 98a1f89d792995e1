----------------------------- MODULE AstPrinter -----------------------------
(***************************************************************************)
(* What the visitors of ast_printer.c do, statement by statement: write a   *)
(* piece, call another visitor, or end the process.                        *)
(*                                                                         *)
(* An operator whose name begins with Bad is no part of the specification: *)
(* it is a plausible slip in the operator that follows it.                 *)
(***************************************************************************)
EXTENDS Ast

CONSTANTS
  TextLen,      (* the length of each text that a string may have           *)
  Printable,    (* the characters that isprint knows                        *)
  ShownMax      (* a string that is longer is not printed: 64               *)

write(piece) == Do("write", piece, <<>>)

(* ap_writefer puts a piece of this length into a buffer of 512.            *)
AP_WRITEF_MAXSIZE == 512
LongestInt == 20        \* %ld of -2^63
LongestFloat == 317     \* %lf of the largest double: 309 digits, sign, fraction
LongestHex == 8         \* %x of a char below 0
writef(piece, len) == [Do("writef", piece, <<>>) EXCEPT !.len = len]

ap_visit_primitive_type(n) ==   \* an address is none of the cases
  IF n.val = "" THEN <<>> ELSE <<write(n.val)>>
ap_visit_array_type ==
  <<write("array_type("), Call("C_Expr", <<"size">>), write(", "),
    Call("C_Type", <<"inner">>), write(")")>>
ap_visit_type(n) ==
  IF n.kind = "C_TYPE_ARRAY" THEN <<Call("C_ArrayType", <<"data">>)>>
  ELSE ap_visit_primitive_type(n)
ap_visit_identifier(n) == <<write("\""), write(n.val), write("\"")>>
Bad_ap_visit_lvalue(n) ==       \* itself, instead of what it holds
  IF n.kind = "C_LV_IDENTIFIER" THEN <<Call("C_Lvalue", <<>>)>>
  ELSE <<Call("C_ArrayIndex", <<"data">>)>>
ap_visit_lvalue(n) ==
  IF n.kind = "C_LV_IDENTIFIER" THEN <<Call("C_Identifier", <<"data">>)>>
  ELSE <<Call("C_ArrayIndex", <<"data">>)>>
ap_visit_unary(n) ==
  <<write(n.val), write("("), Call("C_Expr", <<"inner">>), write(")")>>
Bad_ap_visit_binary(n) ==       \* the right side first
  <<write(n.val), write("("), Call("C_Expr", <<"rhs">>), write(", "),
    Call("C_Expr", <<"lhs">>), write(")")>>
ap_visit_binary(n) ==
  <<write(n.val), write("("), Call("C_Expr", <<"lhs">>), write(", "),
    Call("C_Expr", <<"rhs">>), write(")")>>
Bad_ap_visit_array_index ==     \* not closed
  <<write("array_index("), Call("C_Expr", <<"ident">>), write(", "),
    Call("C_Expr", <<"index">>)>>
ap_visit_array_index ==
  <<write("array_index("), Call("C_Expr", <<"ident">>), write(", "),
    Call("C_Expr", <<"index">>), write(")")>>
ap_visit_fn_argument ==
  <<write("("), Call("C_Identifier", <<"ident">>), write(": "),
    Call("C_Type", <<"type">>), write(")")>>
ap_visit_argument_list(n) ==
  <<write("args(")>>
    \o [k \in (1 .. 2 * n.len) \ {2 * n.len} |->
          IF k % 2 = 0 THEN write(", ")
          ELSE Call("C_FunctionArgument", <<"args", Nth[(k + 1) \div 2]>>)]
    \o <<write(")")>>
ap_visit_fn_call ==
  <<write("fn_call("), Call("C_Identifier", <<"ident">>), write(", "),
    Call("C_ArgumentList", <<"args">>), write(")")>>
ap_visit_assign ==
  <<write("lvalue("), Call("C_Lvalue", <<"lhs">>), write(", "),
    Call("C_Expr", <<"rhs">>), write(")")>>

(* A printable character is passed for the address that %s expects.          *)
Bad_ap_visit_literal(n) ==      \* a string is printed whatever its length
  CASE n.kind = "C_STRING" -> <<writef(n.val, TextLen[n.val] + 2)>>
    [] OTHER -> <<write(n.val)>>
ap_visit_literal(n) ==
  CASE n.kind = "C_INT"   -> <<writef(n.val, LongestInt + 5)>>
    [] n.kind = "C_FLOAT" -> <<writef(n.val, LongestFloat + 7)>>
    [] n.kind = "C_STRING" ->
         IF TextLen[n.val] > ShownMax THEN <<write("<a very long string>")>>
         ELSE <<writef(n.val, TextLen[n.val] + 2)>>
    [] n.kind = "C_CHAR" ->
         IF n.val \in Printable THEN <<Do("address", n.val, <<>>)>>
         ELSE <<writef(n.val, LongestHex + 6)>>
    [] n.kind \in {"C_BOOL", "C_NULL"} -> <<write(n.val)>>
ap_visit_if == <<Do("panic", "not implemented", <<>>)>>

ap_visit_expr(n) ==
  CASE n.kind = "C_EXPR_IDENTIFIER"  -> <<Call("C_Identifier", <<"data">>)>>
    [] n.kind = "C_EXPR_UNARYOP"     -> <<Call("C_UnaryExpr", <<"data">>)>>
    [] n.kind = "C_EXPR_BINOP"       -> <<Call("C_BinaryExpr", <<"data">>)>>
    [] n.kind = "C_EXPR_ARRAY_INDEX" -> <<Call("C_ArrayIndex", <<"data">>)>>
    [] n.kind = "C_EXPR_FNCALL"      -> <<Call("C_FnCall", <<"data">>)>>
    [] n.kind = "C_EXPR_ASSIGN"      -> <<Call("C_Assign", <<"data">>)>>
    [] n.kind = "C_EXPR_IF"          -> <<Call("C_If", <<"data">>)>>
    [] n.kind = "C_EXPR_LITERAL"     -> <<Call("C_Literal", <<"data">>)>>

Visited ==
  {"C_ArrayType", "C_Type", "C_Identifier", "C_Lvalue", "C_UnaryExpr",
   "C_BinaryExpr", "C_ArrayIndex", "C_FunctionArgument", "C_ArgumentList",
   "C_FnCall", "C_Assign", "C_Literal", "C_If", "C_Expr"}
VisitBody(visitor, n) ==
  CASE visitor = "C_ArrayType"        -> ap_visit_array_type
    [] visitor = "C_Type"             -> ap_visit_type(n)
    [] visitor = "C_Identifier"       -> ap_visit_identifier(n)
    [] visitor = "C_Lvalue"           -> ap_visit_lvalue(n)
    [] visitor = "C_UnaryExpr"        -> ap_visit_unary(n)
    [] visitor = "C_BinaryExpr"       -> ap_visit_binary(n)
    [] visitor = "C_ArrayIndex"       -> ap_visit_array_index
    [] visitor = "C_FunctionArgument" -> ap_visit_fn_argument
    [] visitor = "C_ArgumentList"     -> ap_visit_argument_list(n)
    [] visitor = "C_FnCall"           -> ap_visit_fn_call
    [] visitor = "C_Assign"           -> ap_visit_assign
    [] visitor = "C_Literal"          -> ap_visit_literal(n)
    [] visitor = "C_If"               -> ap_visit_if
    [] visitor = "C_Expr"             -> ap_visit_expr(n)
=============================================================================
