----------------------------- MODULE AstProofs -----------------------------
(***************************************************************************)
(* Theorems about the trees that are printed and freed, for any trees that  *)
(* the constructors make.                                                   *)
(***************************************************************************)
EXTENDS AstProperties, AStringLemmas

-----------------------------------------------------------------------------
(* Paths.                                                                    *)

LEMMA FrontIs ==
  ASSUME NEW p \in Seq(Fields), NEW k \in 0 .. Len(p)
  PROVE  /\ SubSeq(p, 1, k) \in Seq(Fields) /\ Len(SubSeq(p, 1, k)) = k
         /\ \A i \in 1 .. k : SubSeq(p, 1, k)[i] = p[i]
OBVIOUS

LEMMA SamePath ==
  ASSUME NEW p \in Seq(Fields), NEW q \in Seq(Fields), Len(p) = Len(q),
         \A i \in 1 .. Len(p) : p[i] = q[i]
  PROVE  p = q
OBVIOUS

LEMMA AboveIs ==
  ASSUME NEW p \in Seq(Fields), NEW q
  PROVE  q \in Above(p) <=> /\ q \in Seq(Fields) /\ Len(q) <= Len(p)
                            /\ \A i \in 1 .. Len(q) : q[i] = p[i]
<1>1. ASSUME q \in Above(p)
      PROVE  q \in Seq(Fields) /\ Len(q) <= Len(p) /\ \A i \in 1 .. Len(q) : q[i] = p[i]
  <2>1. PICK k \in 0 .. Len(p) : q = SubSeq(p, 1, k)
    BY <1>1 DEF Above
  <2> QED  BY <2>1, FrontIs
<1>2. ASSUME q \in Seq(Fields), Len(q) <= Len(p), \A i \in 1 .. Len(q) : q[i] = p[i]
      PROVE  q \in Above(p)
  <2>1. Len(q) \in 0 .. Len(p)
    BY <1>2
  <2>2. q = SubSeq(p, 1, Len(q))
    BY <1>2, <2>1, FrontIs, SamePath
  <2> QED  BY <2>1, <2>2 DEF Above
<1> QED  BY <1>1, <1>2

LEMMA AboveOrder ==
  ASSUME NEW p \in Seq(Fields)
  PROVE  /\ p \in Above(p) /\ <<>> \in Above(p)
         /\ \A q \in Above(p) : Above(q) \subseteq Above(p)
         /\ \A q \in Above(p) : Len(q) = Len(p) => q = p
         /\ \A q, r \in Above(p) : q \in Above(r) \/ r \in Above(q)
<1>0. <<>> \in Seq(Fields) /\ Len(<<>>) = 0 /\ Len(p) \in Nat
  OBVIOUS
<1>a. p \in Above(p)
  BY <1>0, AboveIs
<1>b. <<>> \in Above(p)
  <2>1. Len(<<>>) <= Len(p) /\ \A i \in 1 .. Len(<<>>) : <<>>[i] = p[i]
    BY <1>0
  <2> QED  BY <1>0, <2>1, AboveIs
<1>1. p \in Above(p) /\ <<>> \in Above(p)
  BY <1>a, <1>b
<1>2. ASSUME NEW q \in Above(p), NEW r \in Above(q) PROVE r \in Above(p)
  <2>1. /\ q \in Seq(Fields) /\ Len(q) <= Len(p)
        /\ \A i \in 1 .. Len(q) : q[i] = p[i]
    BY AboveIs
  <2>2. /\ r \in Seq(Fields) /\ Len(r) <= Len(q)
        /\ \A i \in 1 .. Len(r) : r[i] = q[i]
    BY <2>1, AboveIs
  <2>3. Len(r) <= Len(p) /\ \A i \in 1 .. Len(r) : r[i] = p[i]
    BY <2>1, <2>2
  <2> QED  BY <2>2, <2>3, AboveIs
<1>3. ASSUME NEW q \in Above(p), Len(q) = Len(p) PROVE q = p
  BY <1>3, AboveIs, SamePath
<1>4. ASSUME NEW q \in Above(p), NEW r \in Above(p), Len(q) <= Len(r)
      PROVE  q \in Above(r)
  <2>1. /\ q \in Seq(Fields) /\ \A i \in 1 .. Len(q) : q[i] = p[i]
        /\ r \in Seq(Fields) /\ \A i \in 1 .. Len(r) : r[i] = p[i]
    BY AboveIs
  <2>2. \A i \in 1 .. Len(q) : q[i] = r[i]
    BY <1>4, <2>1
  <2> QED  BY <1>4, <2>1, <2>2, AboveIs
<1>5. \A q \in Above(p) : Len(q) \in Nat
  BY AboveIs
<1>6. ASSUME NEW q \in Above(p), NEW r \in Above(p) PROVE q \in Above(r) \/ r \in Above(q)
  <2>1. Len(q) <= Len(r) \/ Len(r) <= Len(q)
    BY <1>5
  <2> QED  BY <2>1, <1>4
<1> QED  BY <1>1, <1>2, <1>3, <1>6

(* A member of a node, and the way down.                                     *)
LEMMA ChildIs ==
  ASSUME NEW p \in Seq(Fields), NEW f \in Fields
  PROVE  /\ Append(p, f) \in Seq(Fields) /\ p \o <<f>> = Append(p, f)
         /\ Len(Append(p, f)) = Len(p) + 1 /\ Append(p, f)[Len(p) + 1] = f
         /\ Append(p, f) # p /\ Append(p, f) # <<>>
         /\ Owner(Append(p, f)) = p /\ Append(p, f)[Len(Append(p, f))] = f
         /\ Above(Append(p, f)) = Above(p) \cup {Append(p, f)}
<1>1. /\ Append(p, f) \in Seq(Fields) /\ p \o <<f>> = Append(p, f)
      /\ Len(Append(p, f)) = Len(p) + 1 /\ Append(p, f)[Len(p) + 1] = f
      /\ \A i \in 1 .. Len(p) : Append(p, f)[i] = p[i]
  OBVIOUS
<1>2. Append(p, f) # p /\ Append(p, f) # <<>>
  <2>1. Len(p) \in Nat /\ Len(<<>>) = 0
    OBVIOUS
  <2>2. Len(Append(p, f)) # Len(p) /\ Len(Append(p, f)) # 0
    BY <1>1, <2>1
  <2> QED  BY <2>1, <2>2
<1>3. Owner(Append(p, f)) = p
  <2>1. SubSeq(Append(p, f), 1, Len(p)) = p
    BY <1>1, FrontIs, SamePath
  <2> QED  BY <1>1, <2>1 DEF Owner
<1>4. ASSUME NEW q PROVE q \in Above(Append(p, f)) <=> q \in Above(p) \/ q = Append(p, f)
  <2>1. ASSUME q \in Above(Append(p, f)), q # Append(p, f) PROVE q \in Above(p)
    <3>1. /\ q \in Seq(Fields) /\ Len(q) <= Len(p) + 1
          /\ \A i \in 1 .. Len(q) : q[i] = Append(p, f)[i]
      BY <1>1, <2>1, AboveIs
    <3>2. Len(q) # Len(p) + 1
      BY <1>1, <2>1, <3>1, SamePath
    <3>3. Len(p) \in Nat /\ Len(q) \in Nat
      BY <3>1
    <3>4. Len(q) <= Len(p)
      BY <3>1, <3>2, <3>3
    <3>5. ASSUME NEW i \in 1 .. Len(q) PROVE q[i] = p[i]
      <4>1. i \in 1 .. Len(p)
        BY <3>3, <3>4
      <4> QED  BY <4>1, <3>1, <1>1
    <3> QED  BY <3>1, <3>4, <3>5, AboveIs
  <2>2. ASSUME q \in Above(p) PROVE q \in Above(Append(p, f))
    <3>1. /\ q \in Seq(Fields) /\ Len(q) <= Len(p)
          /\ \A i \in 1 .. Len(q) : q[i] = p[i]
      BY <2>2, AboveIs
    <3>2. Len(p) \in Nat /\ Len(q) \in Nat
      BY <3>1
    <3>3. Len(q) <= Len(Append(p, f))
      BY <1>1, <3>1, <3>2
    <3>4. ASSUME NEW i \in 1 .. Len(q) PROVE q[i] = Append(p, f)[i]
      <4>1. i \in 1 .. Len(p)
        BY <3>1, <3>2
      <4> QED  BY <4>1, <3>1, <1>1
    <3> QED  BY <1>1, <3>1, <3>3, <3>4, AboveIs
  <2>3. Append(p, f) \in Above(Append(p, f))
    BY <1>1, AboveOrder
  <2> QED  BY <2>1, <2>2, <2>3
<1>5. Append(p, f)[Len(Append(p, f))] = f
  BY <1>1
<1> QED  BY <1>1, <1>2, <1>3, <1>4, <1>5

LEMMA WayDown ==
  ASSUME NEW q \in Seq(Fields), NEW p \in Above(q), p # q
  PROVE  /\ p \in Seq(Fields) /\ q[Len(p) + 1] \in Fields
         /\ Append(p, q[Len(p) + 1]) \in Above(q)
<1>1. /\ p \in Seq(Fields) /\ Len(p) <= Len(q)
      /\ \A i \in 1 .. Len(p) : p[i] = q[i]
  BY AboveIs
<1>2. Len(p) # Len(q)
  BY <1>1, SamePath
<1>3. Len(p) + 1 \in 1 .. Len(q)
  BY <1>1, <1>2
<1>4. q[Len(p) + 1] \in Fields
  BY <1>3
<1> DEFINE c == Append(p, q[Len(p) + 1])
<1>5. c \in Seq(Fields) /\ Len(c) = Len(p) + 1
  BY <1>1, <1>4
<1>6. ASSUME NEW i \in 1 .. Len(c) PROVE c[i] = q[i]
  BY <1>1, <1>4, <1>5
<1>7. Len(c) <= Len(q)
  BY <1>3, <1>5
<1> HIDE DEF c
<1>8. c \in Above(q)
  BY <1>5, <1>6, <1>7, AboveIs
<1> QED  BY <1>1, <1>4, <1>8 DEF c

LEMMA ElementIsField ==
  Len(Nth) \in Nat /\ \A k \in 1 .. Len(Nth) : Nth[k] \in Fields
<1>1. Len(Nth) \in Nat
  BY NthAssumption
<1>2. ASSUME NEW k \in 1 .. Len(Nth) PROVE Nth[k] \in Fields
  BY DEF Fields, Elements
<1> QED  BY <1>1, <1>2

-----------------------------------------------------------------------------
(* Trees.                                                                    *)

(* What a struct of each type has.                                           *)
LEMMA MembersAre ==
  ASSUME NEW n
  PROVE
    /\ n.type = "C_ArrayType" =>
         /\ DOMAIN Members(n) = {"size", "inner"}
         /\ Members(n)["size"] = {"C_Expr"}
         /\ Members(n)["inner"] = {"C_Type"}
    /\ n.type = "C_Identifier" =>
         /\ DOMAIN Members(n) = {"ident"}
         /\ Members(n)["ident"] = {"text"}
    /\ n.type = "C_Lvalue" =>
         /\ DOMAIN Members(n) = {"data"}
         /\ Members(n)["data"] = {"C_Identifier", "C_ArrayIndex"}
    /\ n.type = "C_FunctionArgument" =>
         /\ DOMAIN Members(n) = {"ident", "type"}
         /\ Members(n)["ident"] = {"C_Identifier"}
         /\ Members(n)["type"] = {"C_Type"}
    /\ n.type = "C_ArgumentList" =>
         /\ DOMAIN Members(n) = {"args"}
         /\ Members(n)["args"] = {"C_FunctionArgument[]"}
    /\ n.type = "C_UnaryExpr" =>
         /\ DOMAIN Members(n) = {"inner"}
         /\ Members(n)["inner"] = {"C_Expr"}
    /\ n.type = "C_BinaryExpr" =>
         /\ DOMAIN Members(n) = {"lhs", "rhs"}
         /\ Members(n)["lhs"] = {"C_Expr"}
         /\ Members(n)["rhs"] = {"C_Expr"}
    /\ n.type = "C_ArrayIndex" =>
         /\ DOMAIN Members(n) = {"ident", "index"}
         /\ Members(n)["ident"] = {"C_Expr"}
         /\ Members(n)["index"] = {"C_Expr"}
    /\ n.type = "C_FnCall" =>
         /\ DOMAIN Members(n) = {"ident", "args"}
         /\ Members(n)["ident"] = {"C_Identifier"}
         /\ Members(n)["args"] = {"C_ArgumentList"}
    /\ n.type = "C_Assign" =>
         /\ DOMAIN Members(n) = {"lhs", "rhs"}
         /\ Members(n)["lhs"] = {"C_Lvalue"}
         /\ Members(n)["rhs"] = {"C_Expr"}
    /\ n.type = "C_If_Branch" =>
         /\ DOMAIN Members(n) = {"cond", "block"}
         /\ Members(n)["cond"] = {"C_Expr"}
         /\ Members(n)["block"] = {"C_Block"}
    /\ n.type = "C_If" =>
         /\ DOMAIN Members(n) = {"branches"}
         /\ Members(n)["branches"] = {"C_If_Branch[]"}
    /\ n.type = "C_Expr" =>
         /\ DOMAIN Members(n) = {"data"}
         /\ Members(n)["data"] = {Holds[n.kind]}
    /\ n.type = "C_Block" =>
         /\ DOMAIN Members(n) = {"items"}
         /\ Members(n)["items"] = {"C_BlockItem[]"}
    /\ n.type = "C_Type" =>
         /\ n.has = {} => DOMAIN Members(n) = {}
         /\ n.has # {} => DOMAIN Members(n) = {"data"} /\ Members(n)["data"] = {"C_ArrayType"}
    /\ n.type = "C_Literal" =>
         /\ n.kind # "C_STRING" => DOMAIN Members(n) = {}
         /\ n.kind = "C_STRING" => DOMAIN Members(n) = {"data"} /\ Members(n)["data"] = {"text"}
    /\ n.type = "C_BlockItem" =>
         /\ "stmt" \in n.has => DOMAIN Members(n) = {"stmt"} /\ Members(n)["stmt"] = {"C_Stmt"}
         /\ "stmt" \notin n.has => DOMAIN Members(n) = {"expr"} /\ Members(n)["expr"] = {"C_Expr"}
    /\ n.type \in Arrays =>
         /\ DOMAIN Members(n) = Elements(n.len)
         /\ \A f \in Elements(n.len) :
              Members(n)[f] = {CASE n.type = "C_FunctionArgument[]" -> "C_FunctionArgument"
                                [] n.type = "C_If_Branch[]" -> "C_If_Branch"
                                [] n.type = "C_BlockItem[]" -> "C_BlockItem"}
    /\ n.type \notin Freed \cup Arrays \/ n.type = "C_Stmt" => DOMAIN Members(n) = {}
<1>1. n.type = "C_ArrayType" =>
      /\ DOMAIN Members(n) = {"size", "inner"}
      /\ Members(n)["size"] = {"C_Expr"}
      /\ Members(n)["inner"] = {"C_Type"}
  BY DEF Members
<1>2. n.type = "C_Identifier" =>
      /\ DOMAIN Members(n) = {"ident"}
      /\ Members(n)["ident"] = {"text"}
  BY DEF Members
<1>3. n.type = "C_Lvalue" =>
      /\ DOMAIN Members(n) = {"data"}
      /\ Members(n)["data"] = {"C_Identifier", "C_ArrayIndex"}
  BY DEF Members
<1>4. n.type = "C_FunctionArgument" =>
      /\ DOMAIN Members(n) = {"ident", "type"}
      /\ Members(n)["ident"] = {"C_Identifier"}
      /\ Members(n)["type"] = {"C_Type"}
  BY DEF Members
<1>5. n.type = "C_ArgumentList" =>
      /\ DOMAIN Members(n) = {"args"}
      /\ Members(n)["args"] = {"C_FunctionArgument[]"}
  BY DEF Members
<1>6. n.type = "C_UnaryExpr" =>
      /\ DOMAIN Members(n) = {"inner"}
      /\ Members(n)["inner"] = {"C_Expr"}
  BY DEF Members
<1>7. n.type = "C_BinaryExpr" =>
      /\ DOMAIN Members(n) = {"lhs", "rhs"}
      /\ Members(n)["lhs"] = {"C_Expr"}
      /\ Members(n)["rhs"] = {"C_Expr"}
  BY DEF Members
<1>8. n.type = "C_ArrayIndex" =>
      /\ DOMAIN Members(n) = {"ident", "index"}
      /\ Members(n)["ident"] = {"C_Expr"}
      /\ Members(n)["index"] = {"C_Expr"}
  BY DEF Members
<1>9. n.type = "C_FnCall" =>
      /\ DOMAIN Members(n) = {"ident", "args"}
      /\ Members(n)["ident"] = {"C_Identifier"}
      /\ Members(n)["args"] = {"C_ArgumentList"}
  BY DEF Members
<1>10. n.type = "C_Assign" =>
      /\ DOMAIN Members(n) = {"lhs", "rhs"}
      /\ Members(n)["lhs"] = {"C_Lvalue"}
      /\ Members(n)["rhs"] = {"C_Expr"}
  BY DEF Members
<1>11. n.type = "C_If_Branch" =>
      /\ DOMAIN Members(n) = {"cond", "block"}
      /\ Members(n)["cond"] = {"C_Expr"}
      /\ Members(n)["block"] = {"C_Block"}
  BY DEF Members
<1>12. n.type = "C_If" =>
      /\ DOMAIN Members(n) = {"branches"}
      /\ Members(n)["branches"] = {"C_If_Branch[]"}
  BY DEF Members
<1>13. n.type = "C_Expr" =>
      /\ DOMAIN Members(n) = {"data"}
      /\ Members(n)["data"] = {Holds[n.kind]}
  BY DEF Members
<1>14. n.type = "C_Block" =>
      /\ DOMAIN Members(n) = {"items"}
      /\ Members(n)["items"] = {"C_BlockItem[]"}
  BY DEF Members
<1>15. n.type = "C_Type" =>
      /\ n.has = {} => DOMAIN Members(n) = {}
      /\ n.has # {} => DOMAIN Members(n) = {"data"} /\ Members(n)["data"] = {"C_ArrayType"}
  BY DEF Members, NoSub
<1>16. n.type = "C_Literal" =>
      /\ n.kind # "C_STRING" => DOMAIN Members(n) = {}
      /\ n.kind = "C_STRING" => DOMAIN Members(n) = {"data"} /\ Members(n)["data"] = {"text"}
  BY DEF Members, NoSub
<1>17. n.type = "C_BlockItem" =>
      /\ "stmt" \in n.has => DOMAIN Members(n) = {"stmt"} /\ Members(n)["stmt"] = {"C_Stmt"}
      /\ "stmt" \notin n.has => DOMAIN Members(n) = {"expr"} /\ Members(n)["expr"] = {"C_Expr"}
  BY DEF Members
<1>18. n.type \in Arrays =>
      /\ DOMAIN Members(n) = Elements(n.len)
      /\ \A f \in Elements(n.len) :
           Members(n)[f] = {CASE n.type = "C_FunctionArgument[]" -> "C_FunctionArgument"
                             [] n.type = "C_If_Branch[]" -> "C_If_Branch"
                             [] n.type = "C_BlockItem[]" -> "C_BlockItem"}
  BY DEF Members, Arrays
<1>19. n.type \notin Freed \cup Arrays \/ n.type = "C_Stmt" => DOMAIN Members(n) = {}
  BY DEF Members, NoSub, Arrays, Freed
<1> QED  BY <1>1, <1>2, <1>3, <1>4, <1>5, <1>6, <1>7, <1>8, <1>9, <1>10, <1>11, <1>12,
             <1>13, <1>14, <1>15, <1>16, <1>17, <1>18, <1>19

LEMMA MemberIsNamed ==
  ASSUME NEW p \in Seq(Fields), NEW f, Append(p, f) \in Seq(Fields)
  PROVE  f \in Fields
<1> DEFINE S == Fields \cup {f}
<1>1. p \in Seq(S) /\ f \in S
  OBVIOUS
<1>2. Len(Append(p, f)) = Len(p) + 1 /\ Append(p, f)[Len(p) + 1] = f
  <2> HIDE DEF S
  <2> QED  BY <1>1, AppendProperties
<1>3. Len(p) + 1 \in 1 .. Len(Append(p, f))
  BY <1>2
<1>4. Append(p, f)[Len(p) + 1] \in Fields
  <2> DEFINE q == Append(p, f)
  <2>1. q \in Seq(Fields) /\ Len(p) + 1 \in 1 .. Len(q)
    BY <1>3
  <2> HIDE DEF q
  <2>2. q[Len(p) + 1] \in Fields
    BY <2>1
  <2> QED  BY <2>2 DEF q
<1> QED  BY <1>2, <1>4

LEMMA NodeIs ==
  ASSUME IsTree(root), NEW p \in DOMAIN root
  PROVE  /\ p \in Seq(Fields) /\ IsStruct(root[p]) /\ root[p].has \subseteq Fields
         /\ Above(p) \subseteq DOMAIN root
         /\ \A f \in root[p].has :
              /\ Append(p, f) \in DOMAIN root /\ IsStruct(root[Append(p, f)])
              /\ IsMember(root[Append(p, f)], root[p], f)
<1>1. p \in Seq(Fields) /\ IsStruct(root[p])
  BY DEF IsTree
<1>2. ASSUME NEW f \in root[p].has PROVE f \in Fields
  <2>1. Append(p, f) \in DOMAIN root
    BY DEF IsTree
  <2>2. Append(p, f) \in Seq(Fields)
    BY <2>1 DEF IsTree
  <2> QED  BY <1>1, <2>2, MemberIsNamed
<1>3. Above(p) \subseteq DOMAIN root
  <2>1. CASE p = <<>>
    <3>1. <<>> \in Seq(Fields) /\ Len(<<>>) = 0
      OBVIOUS
    <3>2. ASSUME NEW q \in Above(<<>>) PROVE q = <<>>
      <4>1. q \in Seq(Fields) /\ Len(q) <= 0
        BY <3>1, AboveIs
      <4> QED  BY <4>1
    <3> QED  BY <2>1, <3>2
  <2>2. CASE p # <<>>
    BY <2>2 DEF IsTree
  <2> QED  BY <2>1, <2>2
<1>4. ASSUME NEW f \in root[p].has
      PROVE  /\ Append(p, f) \in DOMAIN root /\ IsStruct(root[Append(p, f)])
             /\ IsMember(root[Append(p, f)], root[p], f)
  <2>1. Append(p, f) \in DOMAIN root
    BY DEF IsTree
  <2>2. f \in Fields
    BY <1>2
  <2>3. /\ Append(p, f) # <<>> /\ Owner(Append(p, f)) = p
        /\ Append(p, f)[Len(Append(p, f))] = f
    BY <1>1, <2>2, ChildIs
  <2> DEFINE c == Append(p, f)
  <2>4. /\ IsStruct(root[c]) /\ IsMember(root[c], root[Owner(c)], c[Len(c)])
    <3>1. c \in DOMAIN root /\ c # <<>>
      BY <2>1, <2>3
    <3> HIDE DEF c
    <3> QED  BY <3>1 DEF IsTree
  <2> QED  BY <2>1, <2>3, <2>4
<1> QED  BY <1>1, <1>2, <1>3, <1>4

LEMMA TextHasNone ==
  ASSUME IsTree(root), NEW p \in DOMAIN root, root[p].type = "text" PROVE root[p].has = {}
<1>1. root[p].has = DOMAIN Members(root[p])
  BY NodeIs DEF IsStruct
<1>2. DOMAIN Members(root[p]) = {}
  BY MembersAre DEF Freed, Arrays
<1> QED  BY <1>1, <1>2

LEMMA ChildOnTheWay ==
  ASSUME IsTree(root), NEW q \in DOMAIN root, NEW p \in Above(q), p # q
  PROVE  p \in DOMAIN root /\ \E f \in root[p].has : Append(p, f) \in Above(q)
<1>1. q \in Seq(Fields) /\ Above(q) \subseteq DOMAIN root
  BY NodeIs
<1>2. /\ p \in Seq(Fields) /\ q[Len(p) + 1] \in Fields
      /\ Append(p, q[Len(p) + 1]) \in Above(q)
  BY <1>1, WayDown
<1> DEFINE f == q[Len(p) + 1]
           c == Append(p, f)
<1>3. c # <<>> /\ Owner(c) = p /\ c[Len(c)] = f
  BY <1>2, ChildIs
<1>4. c[Len(c)] \in root[Owner(c)].has
  <2>1. c \in DOMAIN root /\ c # <<>>
    BY <1>1, <1>2, <1>3
  <2> HIDE DEF c
  <2> QED  BY <2>1 DEF IsTree
<1> QED  BY <1>1, <1>2, <1>3, <1>4

LEMMA SameChild ==
  ASSUME NEW q \in Seq(Fields), NEW p \in Seq(Fields), NEW f \in Fields, NEW g \in Fields,
         Append(p, f) \in Above(q), Append(p, g) \in Above(q)
  PROVE  f = g
<1>1. Len(Append(p, f)) = Len(p) + 1 /\ Append(p, f)[Len(p) + 1] = f
  BY ChildIs
<1>2. Len(Append(p, g)) = Len(p) + 1 /\ Append(p, g)[Len(p) + 1] = g
  BY ChildIs
<1>3. Append(p, f) = Append(p, g)
  <2>1. Append(p, f) \in Above(Append(p, g)) \/ Append(p, g) \in Above(Append(p, f))
    BY AboveOrder
  <2>2. Append(p, f) \in Seq(Fields) /\ Append(p, g) \in Seq(Fields)
    BY ChildIs
  <2> QED  BY <1>1, <1>2, <2>1, <2>2, AboveOrder
<1> QED  BY <1>1, <1>2, <1>3

(* What lies in a type, and what is lost.                                    *)
LEMMA InTypeIs ==
  ASSUME IsTree(root), NEW p \in DOMAIN root, NEW f \in root[p].has
  PROVE  InType(Append(p, f)) <=> InType(p) \/ root[p].type = "C_Type"
<1>1. p \in Seq(Fields) /\ f \in Fields
  BY NodeIs
<1>2. Above(Append(p, f)) \ {Append(p, f)} = (Above(p) \ {p}) \cup {p}
  <2>1. /\ Above(Append(p, f)) = Above(p) \cup {Append(p, f)}
        /\ Len(Append(p, f)) = Len(p) + 1
    BY <1>1, ChildIs
  <2>2. p \in Above(p)
    BY <1>1, AboveOrder
  <2>3. Append(p, f) \notin Above(p)
    <3>1. \A q \in Above(p) : Len(q) <= Len(p)
      BY <1>1, AboveIs
    <3>2. Len(p) \in Nat
      BY <1>1
    <3>3. ASSUME Append(p, f) \in Above(p) PROVE FALSE
      <4>1. Len(Append(p, f)) <= Len(p)
        BY <3>1, <3>3
      <4> QED  BY <2>1, <3>2, <4>1
    <3> QED  BY <3>3
  <2> QED  BY <2>1, <2>2, <2>3
<1> QED  BY <1>2 DEF InType

-----------------------------------------------------------------------------
(* What a call owes.                                                         *)

(* The blocks below a node that its _free function is to free, and those that *)
(* a statement of such a function is to free.                                *)
Below(p) == {q \in Blocks(root) \ LostBlocks : p \in Above(q) \ {q}}
Owed(s) == IF s.do = "free" THEN {s.at} ELSE Below(s.at)
Debts(todos) == UNION {Owed(todos[k]) : k \in 1 .. Len(todos)}

(* What an earlier statement frees a later one neither frees nor needs.       *)
Fits(s, t) == Owed(s) \cap (Owed(t) \cup Above(t.at)) = {}
InOrder(todos) == \A j, k \in 1 .. Len(todos) : j < k => Fits(todos[j], todos[k])

(* A call of a node's own function, but for an indexed lvalue.                *)
IsIndexed(p) ==
  /\ p \in DOMAIN root /\ root[p].type = "C_Lvalue" /\ ~InType(p)
  /\ root[Append(p, "data")].type = "C_ArrayIndex"
Calls(s) ==
  \/ root[s.at].type = s.what
  \/ \E p \in DOMAIN root :
       IsIndexed(p) /\ s.at = Append(p, "data") /\ s.what = "C_Identifier"

Deeds == {"call", "free", "write", "writef", "address", "panic"}
Subjects ==
  Freed \cup Pieces \cup {root[p].val : p \in DOMAIN root} \cup {"", "not implemented"}
Statement ==
  [do : Deeds, what : Subjects, of : Seq(Fields), at : Seq(Fields), len : Int]

(* What the statements of a _free function do, that is called for p.          *)
Frees(s) ==
  /\ s.do \in {"call", "free"} /\ s.at \in DOMAIN root /\ s.of \in Above(s.at)
  /\ s.do = "free" => s.at \in Blocks(root) \ LostBlocks
  /\ s.do = "call" => ~InType(s.at) /\ Calls(s) /\ s.what \in Freed \ {"C_ArrayType"}
Reaches(s, p) ==
  /\ s.do = "call"
  /\ \/ s.at \in Above(p)
     \/ s.at = Append(p, "data") /\ s.what = "C_Identifier"
(* The body frees what the call for p owes, each block once and in order, and  *)
(* leads to all indexed elements below p that are assigned to.               *)
Pays(body, p) ==
  /\ body \in Seq(Statement)
  /\ \A k \in 1 .. Len(body) :
       /\ Frees(body[k]) /\ body[k].of = p /\ p \in Above(body[k].at) \ {body[k].at}
       /\ Boxes(body[k].at) \subseteq Boxes(p) \cup Below(p) \cup LostBlocks
  /\ InOrder(body) /\ Debts(body) = Below(p)
  /\ \A q \in DOMAIN root :
       IsIndexed(q) /\ p \in Above(q) \ {q} =>
         \E k \in 1 .. Len(body) : body[k].do = "call" /\ body[k].at \in Above(q)

LEMMA BlockIs ==
  ASSUME IsTree(root), NEW p \in DOMAIN root, NEW f \in root[p].has,
         ~InType(p), root[p].type # "C_Type"
  PROVE  /\ ~InType(Append(p, f))
         /\ Append(p, f) \in Blocks(root) \ LostBlocks <=>
              root[Append(p, f)].boxed /\ root[p].type # "C_ArgumentList"
         /\ Boxes(Append(p, f)) \subseteq Boxes(p) \cup {Append(p, f)}
<1>1. p \in Seq(Fields) /\ f \in Fields /\ Append(p, f) \in DOMAIN root
  BY NodeIs
<1>2. ~InType(Append(p, f))
  BY InTypeIs
<1>3. Append(p, f) # <<>> /\ Owner(Append(p, f)) = p
      /\ Above(Append(p, f)) = Above(p) \cup {Append(p, f)}
  BY <1>1, ChildIs
<1>4. Append(p, f) \in Blocks(root) <=> root[Append(p, f)].boxed
  BY <1>1 DEF Blocks
<1> DEFINE c == Append(p, f)
<1>5. c \in LostBlocks <=> c \in Blocks(root) /\ root[p].type = "C_ArgumentList"
  BY <1>2, <1>3 DEF LostBlocks
<1>6. Boxes(c) \subseteq Boxes(p) \cup {c}
  BY <1>3 DEF Boxes
<1> QED  BY <1>2, <1>4, <1>5, <1>6

(* A block below a node is a member of it, or is below one.                   *)
LEMMA BelowIs ==
  ASSUME IsTree(root), NEW p \in DOMAIN root, NEW q
  PROVE  q \in Below(p) <=>
           \E f \in root[p].has :
             \/ q = Append(p, f) /\ q \in Blocks(root) \ LostBlocks
             \/ q \in Below(Append(p, f))
<1>1. p \in Seq(Fields) /\ \A f \in root[p].has : f \in Fields
  BY NodeIs
<1>2. ASSUME q \in Below(p)
      PROVE  \E f \in root[p].has :
               \/ q = Append(p, f) /\ q \in Blocks(root) \ LostBlocks
               \/ q \in Below(Append(p, f))
  <2>1. q \in Blocks(root) \ LostBlocks /\ p \in Above(q) /\ p # q
    BY <1>2 DEF Below
  <2>2. q \in DOMAIN root
    BY <2>1 DEF Blocks
  <2>3. PICK f \in root[p].has : Append(p, f) \in Above(q)
    BY <2>1, <2>2, ChildOnTheWay
  <2>4. q = Append(p, f) \/ q \in Below(Append(p, f))
    BY <2>1, <2>3 DEF Below
  <2> QED  BY <2>1, <2>4
<1>3. ASSUME NEW f \in root[p].has, NEW r, r = Append(p, f),
             r \in Above(q), q \in Blocks(root) \ LostBlocks
      PROVE  q \in Below(p)
  <2>1. q \in DOMAIN root
    BY <1>3 DEF Blocks
  <2>2. q \in Seq(Fields)
    BY <2>1, NodeIs
  <2>3. f \in Fields
    BY <1>1
  <2>4. Len(r) = Len(p) + 1 /\ Above(r) = Above(p) \cup {r}
    BY <1>1, <1>3, <2>3, ChildIs
  <2>5. p \in Above(r)
    BY <1>1, <2>4, AboveOrder
  <2>6. p \in Above(q)
    BY <1>3, <2>2, <2>5, AboveOrder
  <2>7. Len(r) <= Len(q)
    BY <1>3, <2>2, AboveIs
  <2>8. p # q
    <3>1. Len(p) \in Nat
      BY <1>1
    <3> QED  BY <3>1, <2>4, <2>7
  <2> QED  BY <1>3, <2>6, <2>8 DEF Below
<1>4. ASSUME NEW f \in root[p].has, q = Append(p, f), q \in Blocks(root) \ LostBlocks
      PROVE  q \in Below(p)
  <2>1. q \in DOMAIN root
    BY <1>4 DEF Blocks
  <2>2. q \in Above(q)
    BY <2>1, NodeIs, AboveOrder
  <2> QED  BY <1>3, <1>4, <2>2
<1>5. ASSUME NEW f \in root[p].has, q \in Below(Append(p, f)) PROVE q \in Below(p)
  <2>1. Append(p, f) \in Above(q) /\ q \in Blocks(root) \ LostBlocks
    BY <1>5 DEF Below
  <2> QED  BY <1>3, <2>1
<1> QED  BY <1>2, <1>4, <1>5

LEMMA OwedIs ==
  ASSUME IsTree(root), NEW s, Frees(s), NEW q \in Owed(s)
  PROVE  /\ q \in DOMAIN root /\ q \in Seq(Fields) /\ s.at \in Above(q)
         /\ q \in Blocks(root) \ LostBlocks /\ (s.do = "call" => q # s.at)
<1>1. s.do \in {"call", "free"} /\ (s.do = "free" => s.at \in Blocks(root) \ LostBlocks)
  BY DEF Frees
<1>2. CASE s.do = "free"
  <2>1. q = s.at /\ q \in Blocks(root) \ LostBlocks
    BY <1>1, <1>2 DEF Owed
  <2>2. q \in DOMAIN root
    BY <2>1 DEF Blocks
  <2>3. q \in Seq(Fields)
    BY <2>2, NodeIs
  <2>4. q \in Above(q)
    BY <2>3, AboveOrder
  <2> QED  BY <1>2, <2>1, <2>2, <2>3, <2>4
<1>3. CASE s.do = "call"
  <2>1. q \in Below(s.at)
    BY <1>3 DEF Owed
  <2>2. q \in Blocks(root) \ LostBlocks /\ s.at \in Above(q) /\ q # s.at
    BY <2>1 DEF Below
  <2>3. q \in DOMAIN root
    BY <2>2 DEF Blocks
  <2> QED  BY <2>2, <2>3, NodeIs
<1> QED  BY <1>1, <1>2, <1>3

(* Statements about different members, and a call before the block is freed.   *)
LEMMA ApartFits ==
  ASSUME IsTree(root), NEW s, Frees(s), NEW t, Frees(t), NEW p \in Seq(Fields),
         NEW f \in Fields, NEW g \in Fields, f # g,
         Append(p, f) \in Above(s.at), Append(p, g) \in Above(t.at)
  PROVE  Fits(s, t)
<1>1. ASSUME NEW q \in Owed(s) PROVE Append(p, f) \in Above(q) /\ q \in Seq(Fields)
  <2>1. q \in Seq(Fields) /\ s.at \in Above(q)
    BY OwedIs
  <2> QED  BY <2>1, AboveOrder
<1>2. ASSUME NEW q \in Owed(t) PROVE Append(p, g) \in Above(q)
  <2>1. q \in Seq(Fields) /\ t.at \in Above(q)
    BY OwedIs
  <2> QED  BY <2>1, AboveOrder
<1>3. t.at \in Seq(Fields)
  BY NodeIs DEF Frees
<1>4. ASSUME NEW q \in Owed(s), q \in Owed(t) \cup Above(t.at) PROVE FALSE
  <2>1. CASE q \in Owed(t)
    BY <1>1, <1>2, <2>1, SameChild
  <2>2. CASE q \in Above(t.at)
    <3>1. Append(p, f) \in Above(t.at)
      BY <1>1, <1>3, <2>2, AboveOrder
    <3> QED  BY <1>3, <3>1, SameChild
  <2> QED  BY <1>4, <2>1, <2>2
<1> QED  BY <1>4 DEF Fits

LEMMA CallFits ==
  ASSUME IsTree(root), NEW s, Frees(s), NEW t, Frees(t),
         s.do = "call", t.do = "free", t.at \in Above(s.at)
  PROVE  Fits(s, t)
<1>0. s.at \in Seq(Fields) /\ t.at \in Seq(Fields)
  BY NodeIs DEF Frees
<1>1. ASSUME NEW q \in Owed(s), q \in Above(t.at) PROVE FALSE
  <2>1. q \in Seq(Fields) /\ s.at \in Above(q) /\ q # s.at
    BY OwedIs
  <2>2. q \in Above(s.at)
    BY <1>0, <1>1, AboveOrder
  <2>3. Len(q) <= Len(s.at) /\ Len(s.at) <= Len(q)
    BY <1>0, <2>1, <2>2, AboveIs
  <2>4. Len(q) = Len(s.at)
    BY <1>0, <2>1, <2>3
  <2> QED  BY <1>0, <2>1, <2>2, <2>4, AboveOrder
<1>2. Owed(t) \subseteq Above(t.at)
  BY <1>0, AboveOrder DEF Owed
<1> QED  BY <1>1, <1>2 DEF Fits

(* A function whose statements are about members of its node: each member is  *)
(* visited, unless it is only characters, then freed, if it is in a block.     *)
IsPlain(s, p) ==
  /\ s.do \in {"call", "free"} /\ s.of = p
  /\ \E f \in root[p].has : s.at = Append(p, f)
  /\ s.do = "free" => root[s.at].boxed
  /\ s.do = "call" => Calls(s) /\ s.what \in Freed \ {"C_ArrayType"}
IsVisited(body, c) ==
  /\ root[c].boxed => \E k \in 1 .. Len(body) : body[k].do = "free" /\ body[k].at = c
  /\ root[c].type # "text" =>
       \E k \in 1 .. Len(body) : body[k].do = "call" /\ body[k].at = c
Plain(body, p) ==
  /\ body \in Seq(Statement) /\ \A k \in 1 .. Len(body) : IsPlain(body[k], p)
  /\ \A j, k \in 1 .. Len(body) :
       j < k /\ body[j].at = body[k].at => body[j].do = "call" /\ body[k].do = "free"
  /\ \A f \in root[p].has : IsVisited(body, Append(p, f))

LEMMA PlainPays ==
  ASSUME IsTree(root), NEW p \in DOMAIN root, ~InType(p),
         root[p].type \notin {"C_Type", "C_ArgumentList"},
         NEW body, Plain(body, p)
  PROVE  Pays(body, p)
<1>0. \A k \in 1 .. Len(body) : IsPlain(body[k], p)
  BY DEF Plain
<1>1. p \in Seq(Fields) /\ p \in Above(p) /\ root[p].has \subseteq Fields
  BY NodeIs, AboveOrder
<1>2. ASSUME NEW f \in root[p].has
      PROVE  /\ Append(p, f) \in DOMAIN root /\ ~InType(Append(p, f))
             /\ p \in Above(Append(p, f)) \ {Append(p, f)}
             /\ Append(p, f) \in Blocks(root) \ LostBlocks <=> root[Append(p, f)].boxed
             /\ Boxes(Append(p, f)) \subseteq Boxes(p) \cup Below(p)
  <2>1. f \in Fields /\ Append(p, f) \in DOMAIN root
    BY <1>1, NodeIs
  <2>2. p \in Above(Append(p, f)) \ {Append(p, f)}
    BY <1>1, <2>1, ChildIs
  <2>3. /\ ~InType(Append(p, f))
        /\ Append(p, f) \in Blocks(root) \ LostBlocks <=> root[Append(p, f)].boxed
        /\ Boxes(Append(p, f)) \subseteq Boxes(p) \cup {Append(p, f)}
    BY BlockIs
  <2>4. Boxes(Append(p, f)) \subseteq Boxes(p) \cup Below(p)
    <3>1. CASE root[Append(p, f)].boxed
      <4>1. Append(p, f) \in Below(p)
        BY <3>1, <2>3, BelowIs
      <4> QED  BY <2>3, <4>1
    <3>2. CASE ~root[Append(p, f)].boxed
      <4>1. Append(p, f) \notin Boxes(Append(p, f))
        BY <3>2 DEF Boxes, Blocks
      <4> QED  BY <2>3, <4>1
    <3> QED  BY <3>1, <3>2
  <2> QED  BY <2>1, <2>2, <2>3, <2>4
<1>3. ASSUME NEW k \in 1 .. Len(body)
      PROVE  /\ Frees(body[k]) /\ body[k].of = p
             /\ p \in Above(body[k].at) \ {body[k].at}
             /\ Boxes(body[k].at) \subseteq Boxes(p) \cup Below(p)
  <2>1. PICK f \in root[p].has : body[k].at = Append(p, f)
    BY <1>0 DEF IsPlain
  <2>2. /\ body[k].do \in {"call", "free"} /\ body[k].of = p
        /\ body[k].do = "free" => root[body[k].at].boxed
        /\ body[k].do = "call" => Calls(body[k]) /\ body[k].what \in Freed \ {"C_ArrayType"}
    BY <1>0 DEF IsPlain
  <2>3. /\ body[k].at \in DOMAIN root /\ ~InType(body[k].at)
        /\ p \in Above(body[k].at) \ {body[k].at}
        /\ root[body[k].at].boxed => body[k].at \in Blocks(root) \ LostBlocks
        /\ Boxes(body[k].at) \subseteq Boxes(p) \cup Below(p)
    BY <1>2, <2>1
  <2>4. Frees(body[k])
    BY <2>2, <2>3 DEF Frees
  <2> QED  BY <2>2, <2>3, <2>4
<1>4. InOrder(body)
  <2>1. ASSUME NEW j \in 1 .. Len(body), NEW k \in 1 .. Len(body), j < k
        PROVE  Fits(body[j], body[k])
    <3>1. PICK f \in root[p].has : body[j].at = Append(p, f)
      BY <1>0 DEF IsPlain
    <3>2. PICK g \in root[p].has : body[k].at = Append(p, g)
      BY <1>0 DEF IsPlain
    <3>3. f \in Fields /\ g \in Fields /\ Frees(body[j]) /\ Frees(body[k])
      BY <1>1, <1>3
    <3>4. body[j].at \in Above(body[j].at) /\ body[k].at \in Above(body[k].at)
      BY <3>3, NodeIs, AboveOrder DEF Frees
    <3>5. CASE f = g
      <4>1. /\ body[j].do = "call" /\ body[k].do = "free"
            /\ body[k].at \in Above(body[j].at)
        BY <2>1, <3>1, <3>2, <3>4, <3>5 DEF Plain
      <4> QED  BY <3>3, <4>1, CallFits
    <3>6. CASE f # g
      <4>1. Append(p, f) \in Above(body[j].at) /\ Append(p, g) \in Above(body[k].at)
        BY <3>1, <3>2, <3>4
      <4> QED  BY <1>1, <3>3, <3>6, <4>1, ApartFits
    <3> QED  BY <3>5, <3>6
  <2> QED  BY <2>1 DEF InOrder
<1>5. ASSUME NEW k \in 1 .. Len(body), NEW q \in Owed(body[k]) PROVE q \in Below(p)
  <2>1. PICK f \in root[p].has : body[k].at = Append(p, f)
    BY <1>0 DEF IsPlain
  <2>2. CASE body[k].do = "free"
    <3>1. q = Append(p, f)
      BY <2>1, <2>2 DEF Owed
    <3>2. Frees(body[k])
      BY <1>3
    <3>3. q \in Blocks(root) \ LostBlocks
      BY <2>1, <2>2, <3>1, <3>2 DEF Frees
    <3> QED  BY <3>1, <3>3, BelowIs
  <2>3. CASE body[k].do # "free"
    <3>1. q \in Below(Append(p, f))
      BY <2>1, <2>3 DEF Owed
    <3> QED  BY <3>1, BelowIs
  <2> QED  BY <2>2, <2>3
<1>6. ASSUME NEW q \in Below(p) PROVE \E k \in 1 .. Len(body) : q \in Owed(body[k])
  <2>1. PICK f \in root[p].has : \/ q = Append(p, f) /\ q \in Blocks(root) \ LostBlocks
                                 \/ q \in Below(Append(p, f))
    BY BelowIs
  <2>2. CASE q = Append(p, f) /\ q \in Blocks(root) \ LostBlocks
    <3>1. PICK k \in 1 .. Len(body) : body[k].do = "free" /\ body[k].at = Append(p, f)
      BY <1>2, <2>2 DEF Plain, IsVisited
    <3> QED  BY <2>2, <3>1 DEF Owed
  <2>3. CASE q \in Below(Append(p, f))
    <3>1. root[Append(p, f)].type # "text"
      <4>1. PICK g \in root[Append(p, f)].has : TRUE
        BY <1>2, <2>3, BelowIs
      <4> QED  BY <1>2, <4>1, TextHasNone
    <3>2. PICK k \in 1 .. Len(body) : body[k].do = "call" /\ body[k].at = Append(p, f)
      BY <3>1 DEF Plain, IsVisited
    <3> QED  BY <2>3, <3>2 DEF Owed
  <2> QED  BY <2>1, <2>2, <2>3
<1>7. Debts(body) = Below(p)
  BY <1>5, <1>6 DEF Debts
<1>8. ASSUME NEW q \in DOMAIN root, IsIndexed(q), p \in Above(q) \ {q}
      PROVE  \E k \in 1 .. Len(body) : body[k].do = "call" /\ body[k].at \in Above(q)
  <2>1. PICK f \in root[p].has : Append(p, f) \in Above(q)
    BY <1>8, ChildOnTheWay
  <2>2. root[Append(p, f)].type # "text"
    <3>1. CASE q = Append(p, f)
      BY <1>8, <3>1 DEF IsIndexed
    <3>2. CASE q # Append(p, f)
      <4>1. PICK g \in root[Append(p, f)].has : TRUE
        BY <2>1, <3>2, ChildOnTheWay
      <4> QED  BY <1>2, <4>1, TextHasNone
    <3> QED  BY <3>1, <3>2
  <2> QED  BY <2>1, <2>2 DEF Plain, IsVisited
<1>9. body \in Seq(Statement)
  BY DEF Plain
<1> QED  BY <1>3, <1>4, <1>7, <1>8, <1>9 DEF Pays

(* A function that calls another for each element of an array, and then frees *)
(* the array, unless it is that of an argument list.                         *)
Listed(body, p, field) ==
  LET n == root[p].len
      a == Append(p, field)
  IN  /\ root[p].has = {field} /\ root[a].type \in Arrays
      /\ body \in Seq(Statement)
      /\ Len(body) = IF root[p].type = "C_ArgumentList" THEN n ELSE n + 1
      /\ \A k \in 1 .. n :
           /\ body[k].do = "call" /\ body[k].of = p /\ body[k].at = Append(a, Nth[k])
           /\ body[k].what = root[body[k].at].type
           /\ body[k].what \in Freed \ {"C_ArrayType"}
      /\ root[p].type # "C_ArgumentList" =>
           body[n + 1].do = "free" /\ body[n + 1].of = p /\ body[n + 1].at = a

LEMMA ElementIs ==
  ASSUME IsTree(root), NEW a \in DOMAIN root, ~InType(a), root[a].type \in Arrays,
         NEW k \in 1 .. root[a].len
  PROVE  LET e == Append(a, Nth[k]) IN
         /\ e \in DOMAIN root /\ e \in Seq(Fields) /\ Nth[k] \in Fields
         /\ a \in Above(e) \ {e} /\ e \in Above(e)
         /\ ~InType(e) /\ e \notin Blocks(root) /\ Boxes(e) \subseteq Boxes(a)
<1> DEFINE e == Append(a, Nth[k])
<1>1. /\ a \in Seq(Fields) /\ IsStruct(root[a]) /\ a \in Above(a)
  BY NodeIs, AboveOrder
<1>2. Nth[k] \in root[a].has
  <2>1. root[a].has = DOMAIN Members(root[a])
    BY <1>1 DEF IsStruct
  <2>2. DOMAIN Members(root[a]) = Elements(root[a].len)
    BY MembersAre
  <2> QED  BY <2>1, <2>2 DEF Elements
<1>3. e \in DOMAIN root /\ Nth[k] \in Fields /\ IsMember(root[e], root[a], Nth[k])
  BY <1>2, NodeIs
<1>4. ~root[e].boxed
  BY <1>3 DEF IsMember
<1>5. ~InType(e) /\ Boxes(e) \subseteq Boxes(a) \cup {e}
  <2>1. root[a].type # "C_Type"
    BY DEF Arrays
  <2> QED  BY <1>2, <2>1, BlockIs
<1>6. e \notin Blocks(root)
  BY <1>4 DEF Blocks
<1>7. Boxes(e) \subseteq Boxes(a)
  BY <1>5, <1>6 DEF Boxes
<1>8. e \in Seq(Fields) /\ a \in Above(e) \ {e} /\ e \in Above(e)
  <2>1. /\ e \in Seq(Fields) /\ Above(e) = Above(a) \cup {e} /\ e # a
    BY <1>1, <1>3, ChildIs
  <2> QED  BY <1>1, <2>1
<1> QED  BY <1>3, <1>5, <1>6, <1>7, <1>8

LEMMA ListPays ==
  ASSUME IsTree(root), NEW p \in DOMAIN root, ~InType(p), root[p].type # "C_Type",
         NEW body, NEW field, Listed(body, p, field)
  PROVE  Pays(body, p)
<1> DEFINE n == root[p].len
           a == Append(p, field)
           e(k) == Append(a, Nth[k])
<1>1. /\ root[p].has = {field} /\ root[a].type \in Arrays /\ body \in Seq(Statement)
      /\ Len(body) = IF root[p].type = "C_ArgumentList" THEN n ELSE n + 1
  BY DEF Listed
<1>2. ASSUME NEW k \in 1 .. n
      PROVE  /\ body[k].do = "call" /\ body[k].of = p /\ body[k].at = e(k)
             /\ body[k].what = root[e(k)].type /\ body[k].what \in Freed \ {"C_ArrayType"}
  BY DEF Listed
<1>3. root[p].type # "C_ArgumentList" =>
        body[n + 1].do = "free" /\ body[n + 1].of = p /\ body[n + 1].at = a
  BY DEF Listed
<1>4. /\ p \in Seq(Fields) /\ field \in Fields /\ a \in DOMAIN root /\ a \in Seq(Fields)
      /\ IsMember(root[a], root[p], field) /\ IsStruct(root[a]) /\ IsStruct(root[p])
  BY <1>1, NodeIs
<1>5. root[a].len = n /\ n \in Nat /\ root[a].boxed
  <2>1. root[a].len = n /\ n \in Nat
    <3>1. root[a].type \in Arrays => root[a].len = root[p].len
      BY <1>4 DEF IsMember
    <3>2. root[p].len \in 0 .. Len(Nth)
      BY <1>4 DEF IsStruct
    <3> QED  BY <1>1, <3>1, <3>2
  <2>2. root[p].type \notin Arrays
    <3>1. ASSUME root[p].type \in Arrays PROVE FALSE
      <4>1. root[p].has = Elements(n) /\ field \in Elements(n)
        <5>1. root[p].has = DOMAIN Members(root[p])
          BY <1>4 DEF IsStruct
        <5>2. DOMAIN Members(root[p]) = Elements(n)
          BY <3>1, MembersAre
        <5> QED  BY <1>1, <5>1, <5>2
      <4>2. root[a].type \in {"C_FunctionArgument", "C_If_Branch", "C_BlockItem"}
        BY <1>4, <3>1, <4>1, MembersAre DEF IsMember, Arrays
      <4> QED  BY <1>1, <4>2 DEF Arrays
    <3> QED  BY <3>1
  <2>3. root[a].type # "C_Identifier" /\ root[p].type # "C_Expr"
    <3>1. root[p].type # "C_Expr"
      <4>1. ASSUME root[p].type = "C_Expr" PROVE FALSE
        <5>1. root[a].type = Holds[root[p].kind] /\ root[p].kind \in DOMAIN Holds
          <6>1. /\ DOMAIN Members(root[p]) = {"data"}
                /\ Members(root[p])["data"] = {Holds[root[p].kind]}
            BY <4>1, MembersAre
          <6>2. field = "data"
            BY <1>1, <1>4, <6>1 DEF IsStruct
          <6> QED  BY <1>4, <4>1, <6>1, <6>2 DEF IsMember, IsStruct
        <5> QED  BY <1>1, <5>1 DEF Holds, Arrays
      <4> QED  BY <4>1
    <3> QED  BY <3>1, <1>1 DEF Arrays
  <2> QED  BY <1>4, <2>1, <2>2, <2>3 DEF IsMember
<1>6. /\ ~InType(a) /\ a \in Blocks(root) /\ p \in Above(a) \ {a} /\ a \in Above(a)
      /\ a \in LostBlocks <=> root[p].type = "C_ArgumentList"
      /\ Boxes(a) \subseteq Boxes(p) \cup {a}
  <2>1. p \in Above(a) \ {a} /\ a \in Above(a)
    <3>1. a # p /\ Above(a) = Above(p) \cup {a}
      BY <1>4, ChildIs
    <3>2. p \in Above(p)
      BY <1>4, AboveOrder
    <3> QED  BY <3>1, <3>2
  <2>2. a \in Blocks(root)
    BY <1>4, <1>5 DEF Blocks
  <2>3. /\ ~InType(a)
        /\ a \in Blocks(root) \ LostBlocks <=>
             root[a].boxed /\ root[p].type # "C_ArgumentList"
        /\ Boxes(a) \subseteq Boxes(p) \cup {a}
    BY <1>1, BlockIs
  <2> QED  BY <1>5, <2>1, <2>2, <2>3
<1>7. ASSUME NEW k \in 1 .. n
      PROVE  /\ e(k) \in DOMAIN root /\ e(k) \in Seq(Fields) /\ Nth[k] \in Fields
             /\ a \in Above(e(k)) \ {e(k)} /\ e(k) \in Above(e(k))
             /\ ~InType(e(k)) /\ e(k) \notin Blocks(root) /\ Boxes(e(k)) \subseteq Boxes(a)
  <2>1. k \in 1 .. root[a].len
    BY <1>5
  <2> QED  BY <1>1, <1>4, <1>6, <2>1, ElementIs
<1>8. \A k \in 1 .. Len(body) :
        k \in 1 .. n \/ (k = n + 1 /\ root[p].type # "C_ArgumentList")
  BY <1>1, <1>5
<1>9. a \in Below(p) \cup LostBlocks
  BY <1>6 DEF Below
<1> HIDE DEF n, a, e
<1>10. ASSUME NEW k \in 1 .. Len(body)
       PROVE  /\ Frees(body[k]) /\ body[k].of = p
              /\ p \in Above(body[k].at) \ {body[k].at}
              /\ Boxes(body[k].at) \subseteq Boxes(p) \cup Below(p) \cup LostBlocks
  <2>1. CASE k \in 1 .. n
    <3>1. /\ body[k].do = "call" /\ body[k].of = p /\ body[k].at = e(k)
          /\ body[k].what = root[e(k)].type /\ body[k].what \in Freed \ {"C_ArrayType"}
      BY <1>2, <2>1
    <3>2. /\ e(k) \in DOMAIN root /\ e(k) \in Seq(Fields) /\ a \in Above(e(k)) \ {e(k)}
          /\ ~InType(e(k)) /\ Boxes(e(k)) \subseteq Boxes(a)
      BY <1>7, <2>1
    <3>3. p \in Above(e(k))
      BY <1>6, <3>2, AboveOrder
    <3>4. p # e(k)
      <4>1. Len(p) <= Len(a) /\ Len(a) <= Len(e(k)) /\ Len(p) # Len(a)
        BY <1>4, <1>6, <3>2, AboveIs, AboveOrder
      <4>2. Len(p) \in Nat /\ Len(a) \in Nat /\ Len(e(k)) \in Nat
        BY <1>4, <3>2
      <4> QED  BY <4>1, <4>2
    <3>5. Calls(body[k])
      BY <3>1 DEF Calls
    <3>6. Frees(body[k])
      BY <3>1, <3>2, <3>3, <3>5 DEF Frees
    <3>7. Boxes(e(k)) \subseteq Boxes(p) \cup Below(p) \cup LostBlocks
      BY <3>2, <1>6, <1>9
    <3> QED  BY <3>1, <3>3, <3>4, <3>6, <3>7
  <2>2. CASE k = n + 1 /\ root[p].type # "C_ArgumentList"
    <3>1. body[k].do = "free" /\ body[k].of = p /\ body[k].at = a
      BY <1>3, <2>2
    <3>2. Frees(body[k])
      BY <1>4, <1>6, <2>2, <3>1 DEF Frees
    <3> QED  BY <1>6, <1>9, <3>1, <3>2
  <2> QED  BY <1>8, <2>1, <2>2
<1>11. InOrder(body)
  <2>1. ASSUME NEW j \in 1 .. Len(body), NEW k \in 1 .. Len(body), j < k
        PROVE  Fits(body[j], body[k])
    <3>1. Frees(body[j]) /\ Frees(body[k])
      BY <1>10
    <3>2. j \in 1 .. n
      BY <1>5, <1>8, <2>1
    <3>3. /\ body[j].do = "call" /\ body[j].at = e(j) /\ a \in Above(e(j))
          /\ e(j) \in Above(e(j))
      BY <1>2, <1>7, <3>2
    <3>4. CASE k \in 1 .. n
      <4>1. body[k].at = e(k) /\ e(k) \in Above(e(k))
        BY <1>2, <1>7, <3>4
      <4>2. Nth[j] # Nth[k] /\ Nth[j] \in Fields /\ Nth[k] \in Fields
        <5>1. j \in 1 .. Len(Nth) /\ k \in 1 .. Len(Nth) /\ j # k
          <6>1. n \in 0 .. Len(Nth) /\ Len(Nth) \in Nat
            <7>1. root[p].len \in 0 .. Len(Nth)
              BY <1>4 DEF IsStruct
            <7>2. Len(Nth) \in Nat
              BY NthAssumption
            <7> QED  BY <7>1, <7>2 DEF n
          <6>2. j \in Int /\ k \in Int
            BY <3>2, <3>4
          <6> QED  BY <2>1, <3>2, <3>4, <6>1, <6>2
        <5> QED  BY <5>1, NthAssumption, ElementIsField
      <4> QED  BY <1>4, <3>1, <3>3, <4>1, <4>2, ApartFits DEF e
    <3>5. CASE k = n + 1 /\ root[p].type # "C_ArgumentList"
      <4>1. body[k].do = "free" /\ body[k].at = a
        BY <1>3, <3>5
      <4> QED  BY <3>1, <3>3, <4>1, CallFits
    <3> QED  BY <1>8, <3>4, <3>5
  <2> QED  BY <2>1 DEF InOrder
<1>12. ASSUME NEW q
       PROVE  q \in Below(p) <=>
                \/ q = a /\ root[p].type # "C_ArgumentList"
                \/ \E k \in 1 .. n : q \in Below(e(k))
  <2>1. q \in Below(p) <=> (q = a /\ q \in Blocks(root) \ LostBlocks) \/ q \in Below(a)
    BY <1>1, BelowIs DEF a
  <2>2. root[a].has = Elements(n)
    BY <1>1, <1>4, <1>5, MembersAre DEF IsStruct
  <2>3. q \in Below(a) <=> \E f \in Elements(n) :
                            \/ q = Append(a, f) /\ q \in Blocks(root) \ LostBlocks
                            \/ q \in Below(Append(a, f))
    BY <1>4, <2>2, BelowIs
  <2>4. q \in Below(a) <=> \E k \in 1 .. n : q \in Below(e(k))
    BY <1>7, <2>3 DEF Elements, e
  <2> QED  BY <1>6, <2>1, <2>4
<1>13. Debts(body) = Below(p)
  <2>1. ASSUME NEW q \in Below(p) PROVE \E k \in 1 .. Len(body) : q \in Owed(body[k])
    <3>1. CASE q = a /\ root[p].type # "C_ArgumentList"
      <4>1. n + 1 \in 1 .. Len(body)
        BY <1>1, <1>5, <3>1 DEF n
      <4>2. q \in Owed(body[n + 1])
        BY <1>3, <3>1 DEF Owed
      <4> QED  BY <4>1, <4>2
    <3>2. ASSUME NEW k \in 1 .. n, q \in Below(e(k))
          PROVE  \E i \in 1 .. Len(body) : q \in Owed(body[i])
      <4>1. k \in 1 .. Len(body)
        BY <1>1, <1>5, <3>2 DEF n
      <4>2. q \in Owed(body[k])
        BY <1>2, <3>2 DEF Owed
      <4> QED  BY <4>1, <4>2
    <3> QED  BY <1>12, <2>1, <3>1, <3>2
  <2>2. ASSUME NEW k \in 1 .. Len(body), NEW q \in Owed(body[k]) PROVE q \in Below(p)
    <3>1. CASE k \in 1 .. n
      <4>1. q \in Below(e(k))
        BY <1>2, <2>2, <3>1 DEF Owed
      <4> QED  BY <1>12, <3>1, <4>1
    <3>2. CASE k = n + 1 /\ root[p].type # "C_ArgumentList"
      <4>1. q = a
        BY <1>3, <2>2, <3>2 DEF Owed
      <4> QED  BY <1>12, <3>2, <4>1
    <3> QED  BY <1>8, <3>1, <3>2
  <2> QED  BY <2>1, <2>2 DEF Debts
<1>14. ASSUME NEW q \in DOMAIN root, IsIndexed(q), p \in Above(q) \ {q}
       PROVE  \E k \in 1 .. Len(body) : body[k].do = "call" /\ body[k].at \in Above(q)
  <2>1. a \in Above(q)
    BY <1>1, <1>14, ChildOnTheWay DEF a
  <2>2. a # q
    BY <1>1, <1>14 DEF IsIndexed, Arrays
  <2>3. PICK f \in root[a].has : Append(a, f) \in Above(q)
    BY <2>1, <2>2, ChildOnTheWay
  <2>4. root[a].has = Elements(n)
    BY <1>1, <1>4, <1>5, MembersAre DEF IsStruct
  <2>5. PICK k \in 1 .. n : f = Nth[k]
    BY <2>3, <2>4 DEF Elements
  <2>6. k \in 1 .. Len(body)
    BY <1>1, <1>5 DEF n
  <2> QED  BY <1>2, <2>3, <2>5, <2>6 DEF e
<1> QED  BY <1>1, <1>10, <1>11, <1>13, <1>14 DEF Pays

-----------------------------------------------------------------------------
(* The _free functions.                                                      *)

Raw == [do : Deeds, what : Subjects, of : {<<>>}, at : Seq(Fields), len : Int]

LEMMA PlacedIs ==
  ASSUME NEW p \in Seq(Fields), NEW body \in Seq(Raw)
  PROVE  LET b == Placed(body, p) IN
         /\ b \in Seq(Statement) /\ Len(b) = Len(body)
         /\ \A k \in 1 .. Len(body) :
              /\ b[k].do = body[k].do /\ b[k].what = body[k].what
              /\ b[k].of = p /\ b[k].at = p \o body[k].at /\ b[k].len = body[k].len
<1> DEFINE b == Placed(body, p)
<1>1. Len(body) \in Nat /\ \A k \in 1 .. Len(body) : body[k] \in Raw
  OBVIOUS
<1>2. ASSUME NEW k \in 1 .. Len(body)
      PROVE  /\ b[k] \in Statement
             /\ b[k].do = body[k].do /\ b[k].what = body[k].what
             /\ b[k].of = p /\ b[k].at = p \o body[k].at /\ b[k].len = body[k].len
  <2> DEFINE s == body[k]
             c == [s EXCEPT !.of = p, !.at = p \o @]
  <2>1. b[k] = c
    BY DEF Placed
  <2>2. s \in Raw
    BY <1>1
  <2> HIDE DEF s
  <2>3. p \o s.at \in Seq(Fields)
    BY <2>2 DEF Raw
  <2>4. /\ c \in Statement /\ c.do = s.do /\ c.what = s.what /\ c.of = p
        /\ c.at = p \o s.at /\ c.len = s.len
    BY <2>2, <2>3 DEF Raw, Statement
  <2> HIDE DEF b
  <2> QED  BY <2>1, <2>4 DEF s
<1>3. b = [k \in 1 .. Len(body) |-> b[k]]
  BY DEF Placed
<1> HIDE DEF b
<1>4. b \in [1 .. Len(body) -> Statement]
  BY <1>2, <1>3
<1>5. b \in Seq(Statement) /\ Len(b) = Len(body)
  BY <1>1, <1>4
<1> QED  BY <1>2, <1>5 DEF b

(* What is known of a body of n statements that is placed at a node.          *)
PlacesAt(b, body, n, p) ==
  /\ b \in Seq(Statement) /\ Len(b) = n
  /\ \A k \in 1 .. n : /\ b[k].do = body[k].do /\ b[k].what = body[k].what
                       /\ b[k].of = p /\ b[k].at = p \o body[k].at

LEMMA PlacedOf ==
  ASSUME NEW p \in Seq(Fields), NEW body \in Seq(Raw), NEW n, Len(body) = n,
         NEW b, b = Placed(body, p)
  PROVE  PlacesAt(b, body, n, p)
<1>1. /\ b \in Seq(Statement) /\ Len(b) = n
      /\ \A k \in 1 .. n : /\ b[k].do = body[k].do /\ b[k].what = body[k].what
                           /\ b[k].of = p /\ b[k].at = p \o body[k].at
  BY PlacedIs
<1> QED  BY <1>1 DEF PlacesAt

LEMMA NilIsPath == <<>> \in Seq(Fields) /\ Len(<<>>) = 0
OBVIOUS

LEMMA NilIs == <<>> \in {<<>>}
OBVIOUS

LEMMA CallIs ==
  ASSUME NEW what \in Freed, NEW at \in Seq(Fields)
  PROVE  /\ Call(what, at) \in Raw /\ Call(what, at).do = "call"
         /\ Call(what, at).what = what /\ Call(what, at).at = at
         /\ free(at) \in Raw /\ free(at).do = "free" /\ free(at).at = at
<1> DEFINE rec(do, w) == [do |-> do, what |-> w, of |-> <<>>, at |-> at, len |-> 0]
<1>1. "call" \in Deeds /\ "free" \in Deeds /\ what \in Subjects /\ "" \in Subjects
  BY DEF Deeds, Subjects
<1>2. Call(what, at) = rec("call", what) /\ free(at) = rec("free", "")
  BY DEF Call, free, Do
<1>3. ASSUME NEW d \in Deeds, NEW w \in Subjects
      PROVE  /\ rec(d, w) \in Raw /\ rec(d, w).do = d /\ rec(d, w).what = w
             /\ rec(d, w).at = at
  BY <1>3, NilIs DEF Raw
<1> HIDE DEF rec
<1>4. /\ rec("call", what) \in Raw /\ rec("call", what).do = "call"
      /\ rec("call", what).what = what /\ rec("call", what).at = at
  BY <1>1, <1>3
<1>5. rec("free", "") \in Raw /\ rec("free", "").do = "free" /\ rec("free", "").at = at
  BY <1>1, <1>3
<1> QED  BY <1>2, <1>4, <1>5

LEMMA OneName ==
  ASSUME NEW S, NEW f \in S PROVE <<f>> \in Seq(S)
OBVIOUS

LEMMA StepIs ==
  ASSUME NEW p \in Seq(Fields), NEW what \in Freed, NEW f \in Fields
  PROVE  /\ Call(what, <<f>>) \in Raw /\ Call(what, <<f>>).do = "call"
         /\ Call(what, <<f>>).what = what
         /\ p \o Call(what, <<f>>).at = Append(p, f)
         /\ free(<<f>>) \in Raw /\ free(<<f>>).do = "free"
         /\ p \o free(<<f>>).at = Append(p, f)
<1>1. <<f>> \in Seq(Fields)
  BY OneName
<1>2. p \o <<f>> = Append(p, f)
  BY ChildIs
<1>3. /\ Call(what, <<f>>) \in Raw /\ Call(what, <<f>>).do = "call"
      /\ Call(what, <<f>>).what = what /\ Call(what, <<f>>).at = <<f>>
      /\ free(<<f>>) \in Raw /\ free(<<f>>).do = "free" /\ free(<<f>>).at = <<f>>
  BY <1>1, CallIs
<1> QED  BY <1>2, <1>3

LEMMA OneOf ==
  ASSUME NEW S, NEW a \in S
  PROVE  <<a>> \in Seq(S) /\ Len(<<a>>) = 1 /\ <<a>>[1] = a
OBVIOUS

LEMMA TwoOf ==
  ASSUME NEW S, NEW a \in S, NEW b \in S
  PROVE  <<a, b>> \in Seq(S) /\ Len(<<a, b>>) = 2 /\ <<a, b>>[1] = a /\ <<a, b>>[2] = b
OBVIOUS

LEMMA StepAtRoot ==
  ASSUME NEW what \in Freed, NEW f \in Fields
  PROVE  /\ Call(what, <<f>>) \in Raw /\ Call(what, <<f>>).do = "call"
         /\ Call(what, <<f>>).what = what
         /\ <<>> \o Call(what, <<f>>).at = Append(<<>>, f)
<1>1. <<>> \in Seq(Fields)
  BY NilIsPath
<1> QED  BY <1>1, StepIs

LEMMA FourOf ==
  ASSUME NEW S, NEW a \in S, NEW b \in S, NEW c \in S, NEW d \in S
  PROVE  LET t == <<a, b, c, d>> IN
         t \in Seq(S) /\ Len(t) = 4 /\ t[1] = a /\ t[2] = b /\ t[3] = c /\ t[4] = d
OBVIOUS

AreThese(b, r, s, t, u, p) ==
  /\ b \in Seq(Statement) /\ Len(b) = 4
  /\ b[1].do = r.do /\ b[1].what = r.what /\ b[1].of = p /\ b[1].at = p \o r.at
  /\ b[2].do = s.do /\ b[2].what = s.what /\ b[2].of = p /\ b[2].at = p \o s.at
  /\ b[3].do = t.do /\ b[3].of = p /\ b[3].at = p \o t.at
  /\ b[4].do = u.do /\ b[4].of = p /\ b[4].at = p \o u.at
ArePlaced(b, r, s, t, u, p) == b = Placed(<<r, s, t, u>>, p)

LEMMA FourPlaced ==
  ASSUME NEW p \in Seq(Fields), NEW r \in Raw, NEW s \in Raw, NEW t \in Raw, NEW u \in Raw,
         NEW b, ArePlaced(b, r, s, t, u, p)
  PROVE  AreThese(b, r, s, t, u, p)
<1> DEFINE body == <<r, s, t, u>>
<1>1. /\ body \in Seq(Raw) /\ Len(body) = 4
      /\ body[1] = r /\ body[2] = s /\ body[3] = t /\ body[4] = u
  BY FourOf
<1>2. b = Placed(body, p)
  BY DEF ArePlaced
<1> HIDE DEF body
<1>3. PlacesAt(b, body, 4, p)
  BY <1>1, <1>2, PlacedOf
<1>4. 1 \in 1 .. 4 /\ 2 \in 1 .. 4 /\ 3 \in 1 .. 4 /\ 4 \in 1 .. 4
  OBVIOUS
<1>5. /\ b[1].do = r.do /\ b[1].what = r.what /\ b[1].of = p /\ b[1].at = p \o r.at
      /\ b[2].do = s.do /\ b[2].what = s.what /\ b[2].of = p /\ b[2].at = p \o s.at
  BY <1>1, <1>3, <1>4 DEF PlacesAt
<1>6. /\ b[3].do = t.do /\ b[3].of = p /\ b[3].at = p \o t.at
      /\ b[4].do = u.do /\ b[4].of = p /\ b[4].at = p \o u.at
  BY <1>1, <1>3, <1>4 DEF PlacesAt
<1>7. b \in Seq(Statement) /\ Len(b) = 4
  BY <1>3 DEF PlacesAt
<1> QED  BY <1>5, <1>6, <1>7 DEF AreThese

(* A node of two members in blocks: both are visited, then freed.             *)
LEMMA TwoArePlain ==
  ASSUME IsTree(root), NEW p \in DOMAIN root, NEW f, NEW g, f # g,
         root[p].has = {f, g},
         root[Append(p, f)].boxed, root[Append(p, g)].boxed,
         NEW c \in Freed \ {"C_ArrayType"}, root[Append(p, f)].type = c,
         NEW d \in Freed \ {"C_ArrayType"}, root[Append(p, g)].type = d,
         NEW x, NEW y, \/ x = f /\ y = g
                       \/ x = g /\ y = f
  PROVE  Plain(Placed(<<Call(c, <<f>>), Call(d, <<g>>), free(<<x>>), free(<<y>>)>>, p), p)
<1> DEFINE r == Call(c, <<f>>)
           s == Call(d, <<g>>)
           t == free(<<x>>)
           u == free(<<y>>)
           b == Placed(<<r, s, t, u>>, p)
<1>1. /\ p \in Seq(Fields) /\ f \in root[p].has /\ g \in root[p].has
      /\ f \in Fields /\ g \in Fields /\ x \in Fields /\ y \in Fields
  BY NodeIs
<1>2. r \in Raw /\ r.do = "call" /\ r.what = c /\ p \o r.at = Append(p, f)
  BY <1>1, StepIs
<1>3. s \in Raw /\ s.do = "call" /\ s.what = d /\ p \o s.at = Append(p, g)
  BY <1>1, StepIs
<1>4. /\ t \in Raw /\ t.do = "free" /\ p \o t.at = Append(p, x)
      /\ u \in Raw /\ u.do = "free" /\ p \o u.at = Append(p, y)
  BY <1>1, StepIs
<1>5. ArePlaced(b, r, s, t, u, p)
  BY DEF ArePlaced
<1> HIDE DEF r, s, t, u, b
<1>6. AreThese(b, r, s, t, u, p)
  <2>1. p \in Seq(Fields) /\ r \in Raw /\ s \in Raw /\ t \in Raw /\ u \in Raw
    BY <1>1, <1>2, <1>3, <1>4
  <2> QED  BY <1>5, <2>1, FourPlaced
<1>7. /\ b[1].do = "call" /\ b[1].what = c /\ b[1].of = p /\ b[1].at = Append(p, f)
      /\ b[2].do = "call" /\ b[2].what = d /\ b[2].of = p /\ b[2].at = Append(p, g)
      /\ b[3].do = "free" /\ b[3].of = p /\ b[3].at = Append(p, x)
      /\ b[4].do = "free" /\ b[4].of = p /\ b[4].at = Append(p, y)
  BY <1>2, <1>3, <1>4, <1>6 DEF AreThese
<1>8. /\ Append(p, f) # Append(p, g) /\ b \in Seq(Statement) /\ Len(b) = 4
      /\ \A k \in 1 .. Len(b) : k \in {1, 2, 3, 4}
  <2>1. Append(p, f)[Len(p) + 1] = f /\ Append(p, g)[Len(p) + 1] = g
    BY <1>1, ChildIs
  <2>2. b \in Seq(Statement) /\ Len(b) = 4
    BY <1>6 DEF AreThese
  <2>3. \A k \in 1 .. 4 : k \in {1, 2, 3, 4}
    OBVIOUS
  <2> QED  BY <2>1, <2>2, <2>3
<1>9. Calls(b[1]) /\ Calls(b[2])
  BY <1>7 DEF Calls
<1>10. ASSUME NEW k \in 1 .. Len(b) PROVE IsPlain(b[k], p)
  <2>1. CASE k = 1
    BY <1>1, <1>7, <1>9, <2>1 DEF IsPlain
  <2>2. CASE k = 2
    BY <1>1, <1>7, <1>9, <2>2 DEF IsPlain
  <2>3. CASE k = 3
    BY <1>1, <1>7, <2>3 DEF IsPlain
  <2>4. CASE k = 4
    BY <1>1, <1>7, <2>4 DEF IsPlain
  <2> QED  BY <1>8, <2>1, <2>2, <2>3, <2>4
<1>11. ASSUME NEW j \in 1 .. Len(b), NEW k \in 1 .. Len(b), j < k, b[j].at = b[k].at
       PROVE  b[j].do = "call" /\ b[k].do = "free"
  <2>1. j \in {1, 2, 3, 4} /\ k \in {1, 2, 3, 4} /\ j < k
    BY <1>8, <1>11
  <2>2. ~(j = 1 /\ k = 2)
    BY <1>7, <1>8, <1>11
  <2>3. ~(j = 3 /\ k = 4)
    BY <1>7, <1>8, <1>11
  <2>4. j \in {1, 2} /\ k \in {3, 4}
    BY <2>1, <2>2, <2>3
  <2> QED  BY <1>7, <2>4
<1>12. ASSUME NEW h \in root[p].has PROVE IsVisited(b, Append(p, h))
  <2>1. /\ 1 \in 1 .. Len(b) /\ 2 \in 1 .. Len(b) /\ 3 \in 1 .. Len(b) /\ 4 \in 1 .. Len(b)
    BY <1>8
  <2> QED  BY <1>7, <2>1 DEF IsVisited
<1>13. Plain(b, p)
  BY <1>8, <1>10, <1>11, <1>12 DEF Plain
<1> QED  BY <1>13 DEF b, r, s, t, u

(* A call with such a type, for the node at a path, is one of those that Calls   *)
(* describes.                                                                *)
CalledAs(path, type) == \A s : s.at = path /\ s.what = type => Calls(s)

(* A node of one member: in a block it is visited, unless it is only           *)
(* characters, and freed; in no block it is visited.                          *)
LEMMA OneIsPlain ==
  ASSUME IsTree(root), NEW p \in DOMAIN root, NEW f, root[p].has = {f},
         root[Append(p, f)].boxed, NEW c \in Freed \ {"C_ArrayType"},
         CalledAs(Append(p, f), c)
  PROVE  Plain(Placed(<<Call(c, <<f>>), free(<<f>>)>>, p), p)
<1> DEFINE body == <<Call(c, <<f>>), free(<<f>>)>>
           b == Placed(body, p)
<1>1. p \in Seq(Fields) /\ f \in root[p].has /\ f \in Fields
  BY NodeIs
<1>2. /\ Call(c, <<f>>) \in Raw /\ Call(c, <<f>>).do = "call"
      /\ Call(c, <<f>>).what = c /\ p \o Call(c, <<f>>).at = Append(p, f)
      /\ free(<<f>>) \in Raw /\ free(<<f>>).do = "free" /\ p \o free(<<f>>).at = Append(p, f)
  BY <1>1, StepIs
<1>3. /\ body \in Seq(Raw) /\ Len(body) = 2
      /\ body[1] = Call(c, <<f>>) /\ body[2] = free(<<f>>)
  BY <1>2, TwoOf
<1> HIDE DEF body
<1>4. PlacesAt(b, body, 2, p)
  BY <1>1, <1>3, PlacedOf
<1> HIDE DEF b
<1>5. /\ b[1].do = "call" /\ b[1].what = c /\ b[1].of = p /\ b[1].at = Append(p, f)
      /\ b[2].do = "free" /\ b[2].of = p /\ b[2].at = Append(p, f)
      /\ b \in Seq(Statement) /\ Len(b) = 2
  <2>1. /\ b \in Seq(Statement) /\ Len(b) = 2
        /\ \A k \in {1, 2} : /\ b[k].do = body[k].do /\ b[k].what = body[k].what
                             /\ b[k].of = p /\ b[k].at = p \o body[k].at
    BY <1>4 DEF PlacesAt
  <2> QED  BY <1>2, <1>3, <2>1
<1>6. Calls(b[1])
  BY <1>5 DEF CalledAs
<1>7. ASSUME NEW k \in 1 .. Len(b) PROVE IsPlain(b[k], p)
  <2>1. CASE k = 1
    BY <1>1, <1>5, <1>6, <2>1 DEF IsPlain
  <2>2. CASE k = 2
    BY <1>1, <1>5, <2>2 DEF IsPlain
  <2> QED  BY <1>5, <2>1, <2>2
<1>8. ASSUME NEW j \in 1 .. Len(b), NEW k \in 1 .. Len(b), j < k
      PROVE  b[j].do = "call" /\ b[k].do = "free"
  BY <1>5, <1>8
<1>9. ASSUME NEW h \in root[p].has PROVE IsVisited(b, Append(p, h))
  <2>1. h = f /\ 1 \in 1 .. Len(b) /\ 2 \in 1 .. Len(b)
    BY <1>5
  <2> QED  BY <1>5, <2>1 DEF IsVisited
<1> QED  BY <1>5, <1>7, <1>8, <1>9 DEF Plain, b, body

LEMMA TextIsPlain ==
  ASSUME IsTree(root), NEW p \in DOMAIN root, NEW f, root[p].has = {f},
         root[Append(p, f)].boxed, root[Append(p, f)].type = "text"
  PROVE  Plain(Placed(<<as_free(<<f>>)>>, p), p)
<1> DEFINE body == <<free(<<f>>)>>
           b == Placed(body, p)
<1>0. "C_Expr" \in Freed
  BY DEF Freed
<1>1. p \in Seq(Fields) /\ f \in root[p].has /\ f \in Fields
  BY NodeIs
<1>2. /\ free(<<f>>) \in Raw /\ free(<<f>>).do = "free"
      /\ p \o free(<<f>>).at = Append(p, f)
  BY <1>0, <1>1, StepIs
<1>3. body \in Seq(Raw) /\ Len(body) = 1 /\ body[1] = free(<<f>>)
  BY <1>2, OneOf
<1> HIDE DEF body
<1>4. /\ b \in Seq(Statement) /\ Len(b) = 1
      /\ \A k \in 1 .. 1 : /\ b[k].do = body[k].do /\ b[k].of = p
                           /\ b[k].at = p \o body[k].at
  <2>1. /\ b \in Seq(Statement) /\ Len(b) = Len(body)
        /\ \A k \in 1 .. Len(body) :
             /\ b[k].do = body[k].do /\ b[k].what = body[k].what
             /\ b[k].of = p /\ b[k].at = p \o body[k].at /\ b[k].len = body[k].len
    BY <1>1, <1>3, PlacedIs
  <2> QED  BY <1>3, <2>1
<1> HIDE DEF b
<1>5. b[1].do = "free" /\ b[1].of = p /\ b[1].at = Append(p, f)
  BY <1>2, <1>3, <1>4
<1>6. ASSUME NEW k \in 1 .. Len(b) PROVE k = 1 /\ IsPlain(b[k], p)
  <2>1. k = 1
    BY <1>4
  <2> QED  BY <1>1, <1>5, <2>1 DEF IsPlain
<1>7. ASSUME NEW h \in root[p].has PROVE IsVisited(b, Append(p, h))
  <2>1. h = f /\ 1 \in 1 .. Len(b)
    BY <1>4
  <2> QED  BY <1>5, <2>1 DEF IsVisited
<1>8. Plain(b, p)
  BY <1>4, <1>6, <1>7 DEF Plain
<1> QED  BY <1>8 DEF b, body, as_free

LEMMA CallIsPlain ==
  ASSUME IsTree(root), NEW p \in DOMAIN root, NEW f, root[p].has = {f},
         ~root[Append(p, f)].boxed, NEW c \in Freed \ {"C_ArrayType"},
         root[Append(p, f)].type = c
  PROVE  Plain(Placed(<<Call(c, <<f>>)>>, p), p)
<1> DEFINE body == <<Call(c, <<f>>)>>
           b == Placed(body, p)
<1>1. p \in Seq(Fields) /\ f \in root[p].has /\ f \in Fields
  BY NodeIs
<1>2. /\ Call(c, <<f>>) \in Raw /\ Call(c, <<f>>).do = "call"
      /\ Call(c, <<f>>).what = c /\ p \o Call(c, <<f>>).at = Append(p, f)
  BY <1>1, StepIs
<1>3. body \in Seq(Raw) /\ Len(body) = 1 /\ body[1] = Call(c, <<f>>)
  BY <1>2, OneOf
<1> HIDE DEF body
<1>4. /\ b \in Seq(Statement) /\ Len(b) = 1
      /\ \A k \in 1 .. 1 : /\ b[k].do = body[k].do /\ b[k].what = body[k].what
                           /\ b[k].of = p /\ b[k].at = p \o body[k].at
  <2>1. /\ b \in Seq(Statement) /\ Len(b) = Len(body)
        /\ \A k \in 1 .. Len(body) :
             /\ b[k].do = body[k].do /\ b[k].what = body[k].what
             /\ b[k].of = p /\ b[k].at = p \o body[k].at /\ b[k].len = body[k].len
    BY <1>1, <1>3, PlacedIs
  <2> QED  BY <1>3, <2>1
<1> HIDE DEF b
<1>5. b[1].do = "call" /\ b[1].what = c /\ b[1].of = p /\ b[1].at = Append(p, f)
  BY <1>2, <1>3, <1>4
<1>6. ASSUME NEW k \in 1 .. Len(b) PROVE k = 1 /\ IsPlain(b[k], p)
  <2>1. k = 1
    BY <1>4
  <2>2. Calls(b[1])
    BY <1>5 DEF Calls
  <2> QED  BY <1>1, <1>5, <2>1, <2>2 DEF IsPlain
<1>7. ASSUME NEW h \in root[p].has PROVE IsVisited(b, Append(p, h))
  <2>1. h = f /\ 1 \in 1 .. Len(b)
    BY <1>4
  <2> QED  BY <1>5, <2>1 DEF IsVisited
<1>8. Plain(b, p)
  BY <1>4, <1>6, <1>7 DEF Plain
<1> QED  BY <1>8 DEF b, body

LEMMA NothingIs ==
  ASSUME NEW p
  PROVE  Placed(<<>>, p) \in Seq(Statement) /\ Len(Placed(<<>>, p)) = 0
<1>1. <<>> \in Seq(Statement) /\ Len(<<>>) = 0
  OBVIOUS
<1>2. Placed(<<>>, p) = <<>>
  BY <1>1 DEF Placed
<1> HIDE DEF Statement
<1> QED  BY <1>1, <1>2

LEMMA NothingIsPlain ==
  ASSUME NEW p, root[p].has = {}
  PROVE  Plain(Placed(<<>>, p), p)
BY NothingIs DEF Plain

LEMMA MemberIs ==
  ASSUME IsTree(root), NEW p \in DOMAIN root, NEW f \in root[p].has
  PROVE  /\ root[Append(p, f)].type \in Members(root[p])[f]
         /\ root[p].type \notin Arrays \cup {"C_Expr"} => root[Append(p, f)].boxed
         /\ root[p].type = "C_Expr" =>
              (root[Append(p, f)].boxed <=> root[Append(p, f)].type = "C_Identifier")
<1> DEFINE c == Append(p, f)
<1>1. IsMember(root[c], root[p], f)
  BY NodeIs
<1> HIDE DEF c
<1>2. /\ root[c].type \in Members(root[p])[f]
      /\ root[c].boxed = (/\ root[p].type \notin Arrays
                          /\ root[p].type = "C_Expr" => root[c].type = "C_Identifier")
  BY <1>1 DEF IsMember
<1>3. "C_Expr" \notin Arrays
  BY DEF Arrays
<1> QED  BY <1>2, <1>3 DEF c

LEMMA HasIs ==
  ASSUME IsTree(root), NEW p \in DOMAIN root
  PROVE  root[p].has = DOMAIN Members(root[p])
BY NodeIs DEF IsStruct

LEMMA CallsOwn ==
  ASSUME NEW c, NEW a, root[a].type = c
  PROVE  CalledAs(a, c)
BY DEF Calls, CalledAs

(* The calls for the elements of an array.                                   *)
AreCalls(b, p, f, c) ==
  /\ b \in Seq(Raw) /\ Len(b) = root[p].len /\ root[p].len \in Nat
  /\ \A k \in 1 .. root[p].len :
       /\ b[k].do = "call" /\ b[k].what = c
       /\ p \o b[k].at = Append(Append(p, f), Nth[k])

LEMMA ForEachIs ==
  ASSUME IsTree(root), NEW p \in DOMAIN root, NEW f \in root[p].has, NEW c \in Freed,
         NEW b, b = ForEach(root[p], f, c)
  PROVE  AreCalls(b, p, f, c)
<1> DEFINE n == root[p].len
<1>1. /\ p \in Seq(Fields) /\ f \in Fields /\ n \in 0 .. Len(Nth)
  BY NodeIs DEF IsStruct
<1>2. n \in Nat /\ \A k \in 1 .. n : Nth[k] \in Fields
  BY <1>1, ElementIsField
<1>3. b = [k \in 1 .. n |-> Call(c, <<f, Nth[k]>>)]
  BY DEF ForEach
<1>4. ASSUME NEW k \in 1 .. n
      PROVE  /\ b[k] \in Raw /\ b[k].do = "call" /\ b[k].what = c
             /\ p \o b[k].at = Append(Append(p, f), Nth[k])
  <2> DEFINE g == Nth[k]
  <2>1. g \in Fields
    BY <1>2
  <2>2. <<f, g>> \in Seq(Fields)
    BY <1>1, <2>1, TwoOf
  <2>3. p \o <<f, g>> = Append(Append(p, f), g)
    <3> DEFINE S == Fields
    <3>1. p \in Seq(S) /\ f \in S /\ g \in S
      BY <1>1, <2>1
    <3> HIDE DEF S, g
    <3> QED  BY <3>1
  <2>4. b[k] = Call(c, <<f, g>>)
    BY <1>3
  <2> DEFINE way == <<f, g>>
  <2> HIDE DEF g, way
  <2>5. way \in Seq(Fields)
    BY <2>2 DEF way
  <2>6. /\ Call(c, way) \in Raw /\ Call(c, way).do = "call"
        /\ Call(c, way).what = c /\ Call(c, way).at = way
    BY <2>5, CallIs
  <2>7. b[k] = Call(c, way) /\ p \o way = Append(Append(p, f), g)
    BY <2>3, <2>4 DEF way
  <2> QED  BY <2>6, <2>7 DEF g
<1> HIDE DEF n
<1>5. b \in [1 .. n -> Raw]
  BY <1>3, <1>4
<1>6. b \in Seq(Raw) /\ Len(b) = n
  BY <1>2, <1>5
<1> QED  BY <1>2, <1>4, <1>6 DEF n, AreCalls

LEMMA JoinIs ==
  ASSUME NEW S, NEW s \in Seq(S), NEW t \in Seq(S)
  PROVE  /\ s \o t \in Seq(S) /\ Len(s \o t) = Len(s) + Len(t)
         /\ \A k \in 1 .. Len(s) : (s \o t)[k] = s[k]
         /\ \A k \in 1 .. Len(t) : (s \o t)[Len(s) + k] = t[k]
OBVIOUS

HasOnly(a, c) == \A g \in root[a].has : Members(root[a])[g] = {c}
ListBody(p, f, c) ==
  IF root[p].type = "C_ArgumentList" THEN ForEach(root[p], f, c)
  ELSE ForEach(root[p], f, c) \o <<free(<<f>>)>>

LEMMA ListIs ==
  ASSUME IsTree(root), NEW p \in DOMAIN root, NEW f, root[p].has = {f},
         NEW c \in Freed \ {"C_ArrayType"}, root[Append(p, f)].type \in Arrays,
         HasOnly(Append(p, f), c)
  PROVE  Listed(Placed(ListBody(p, f, c), p), p, f)
<1> DEFINE body == ListBody(p, f, c)
           n == root[p].len
           a == Append(p, f)
           calls == ForEach(root[p], f, c)
           b == Placed(body, p)
<1>1. /\ p \in Seq(Fields) /\ f \in root[p].has /\ f \in Fields /\ a \in DOMAIN root
  BY NodeIs
<1>2. /\ calls \in Seq(Raw) /\ Len(calls) = n /\ n \in Nat
      /\ \A k \in 1 .. n : /\ calls[k].do = "call" /\ calls[k].what = c
                           /\ p \o calls[k].at = Append(a, Nth[k])
  <2>1. c \in Freed /\ f \in root[p].has /\ calls = ForEach(root[p], f, c)
    BY <1>1
  <2> HIDE DEF calls
  <2>2. AreCalls(calls, p, f, c)
    BY <2>1, ForEachIs
  <2> QED  BY <2>2 DEF AreCalls
<1>3. free(<<f>>) \in Raw /\ free(<<f>>).do = "free" /\ p \o free(<<f>>).at = a
  BY <1>1, StepIs
<1>4. /\ <<free(<<f>>)>> \in Seq(Raw) /\ Len(<<free(<<f>>)>>) = 1
      /\ <<free(<<f>>)>>[1] = free(<<f>>)
  BY <1>3, OneOf
<1> DEFINE last == <<free(<<f>>)>>
<1>5. body = IF root[p].type = "C_ArgumentList" THEN calls ELSE calls \o last
  BY DEF ListBody
<1> HIDE DEF calls, last, n, body
<1>6. /\ body \in Seq(Raw)
      /\ Len(body) = IF root[p].type = "C_ArgumentList" THEN n ELSE n + 1
      /\ \A k \in 1 .. n : body[k] = calls[k]
      /\ root[p].type # "C_ArgumentList" => body[n + 1] = free(<<f>>)
  <2>1. last \in Seq(Raw) /\ Len(last) = 1 /\ last[1] = free(<<f>>)
    BY <1>4 DEF last
  <2>2. CASE root[p].type = "C_ArgumentList"
    BY <1>2, <1>5, <2>2
  <2>3. CASE root[p].type # "C_ArgumentList"
    <3>1. body = calls \o last
      BY <1>5, <2>3
    <3>2. /\ body \in Seq(Raw) /\ Len(body) = n + 1
          /\ \A k \in 1 .. n : body[k] = calls[k]
          /\ body[n + 1] = last[1]
      <4>1. calls \in Seq(Raw) /\ Len(calls) = n /\ n \in Nat
        BY <1>2
      <4> QED  BY <2>1, <3>1, <4>1, JoinIs
    <3> QED  BY <2>1, <2>3, <3>2
  <2> QED  BY <2>2, <2>3
<1>7. /\ b \in Seq(Statement) /\ Len(b) = Len(body)
      /\ \A k \in 1 .. Len(body) :
           /\ b[k].do = body[k].do /\ b[k].what = body[k].what
           /\ b[k].of = p /\ b[k].at = p \o body[k].at /\ b[k].len = body[k].len
  <2>1. p \in Seq(Fields) /\ body \in Seq(Raw)
    BY <1>1, <1>6
  <2> QED  BY <2>1, PlacedIs
<1> HIDE DEF b
<1>8. \A k \in 1 .. n : k \in 1 .. Len(body)
  BY <1>2, <1>6
<1>9. ASSUME NEW k \in 1 .. n
      PROVE  /\ b[k].do = "call" /\ b[k].of = p /\ b[k].at = Append(a, Nth[k])
             /\ b[k].what = root[b[k].at].type
             /\ b[k].what \in Freed \ {"C_ArrayType"}
  <2>1. b[k].do = "call" /\ b[k].of = p /\ b[k].at = Append(a, Nth[k]) /\ b[k].what = c
    <3>1. k \in 1 .. Len(body) /\ body[k] = calls[k]
      BY <1>6, <1>8
    <3>2. /\ b[k].do = calls[k].do /\ b[k].what = calls[k].what /\ b[k].of = p
          /\ b[k].at = p \o calls[k].at
      BY <1>7, <3>1
    <3> QED  BY <1>2, <3>2
  <2>2. Nth[k] \in root[a].has
    <3>1. /\ root[a].has = DOMAIN Members(root[a])
          /\ DOMAIN Members(root[a]) = Elements(root[a].len)
      BY <1>1, HasIs, MembersAre
    <3>2. root[a].len = n
      <4>1. IsMember(root[a], root[p], f)
        BY <1>1, NodeIs
      <4> QED  BY <4>1 DEF IsMember, n
    <3> QED  BY <3>1, <3>2 DEF Elements
  <2>3. root[Append(a, Nth[k])].type = c
    <3>1. root[Append(a, Nth[k])].type \in Members(root[a])[Nth[k]]
      BY <1>1, <2>2, MemberIs
    <3> QED  BY <2>2, <3>1 DEF HasOnly
  <2> QED  BY <2>1, <2>3
<1>10. root[p].type # "C_ArgumentList" =>
         b[n + 1].do = "free" /\ b[n + 1].of = p /\ b[n + 1].at = a
  <2>1. SUFFICES ASSUME root[p].type # "C_ArgumentList"
                 PROVE  b[n + 1].do = "free" /\ b[n + 1].of = p /\ b[n + 1].at = a
    OBVIOUS
  <2>2. n + 1 \in 1 .. Len(body) /\ body[n + 1] = free(<<f>>)
    BY <1>2, <1>6, <2>1
  <2> QED  BY <1>3, <1>7, <2>2
<1> QED  BY <1>6, <1>7, <1>9, <1>10 DEF Listed, n, b, body

(* One lemma for each function: what it does pays for its node.               *)

LEMMA PairsPay ==
  ASSUME IsTree(root), NEW p \in DOMAIN root, ~InType(p),
         root[p].type \in {"C_FunctionArgument", "C_BinaryExpr", "C_ArrayIndex",
                          "C_FnCall", "C_Assign", "C_If_Branch"}
  PROVE  Pays(Placed(FreeBody(root[p].type, root[p]), p), p)
<1>1. CASE root[p].type = "C_FunctionArgument"
  <2> DEFINE body == <<Call("C_Identifier", <<"ident">>), Call("C_Type", <<"type">>),
                       free(<<"ident">>), free(<<"type">>)>>
  <2>1. root[p].has = DOMAIN Members(root[p])
    BY HasIs
  <2>2. /\ root[p].has = {"ident", "type"} /\ Members(root[p])["ident"] = {"C_Identifier"}
        /\ Members(root[p])["type"] = {"C_Type"}
    BY <1>1, <2>1, MembersAre
  <2>3. "ident" \in root[p].has /\ "type" \in root[p].has /\ "ident" # "type"
    BY <2>2
  <2>4. root[p].type \notin Arrays \cup {"C_Expr"}
    BY <1>1 DEF Arrays
  <2>5. /\ root[Append(p, "ident")].type = "C_Identifier" /\ root[Append(p, "ident")].boxed
        /\ root[Append(p, "type")].type = "C_Type" /\ root[Append(p, "type")].boxed
    BY <2>2, <2>3, <2>4, MemberIs
  <2>6. FreeBody(root[p].type, root[p]) = body
    BY <1>1 DEF FreeBody, C_FunctionArgument_free
  <2>7. /\ "C_Identifier" \in Freed \ {"C_ArrayType"}
        /\ "C_Type" \in Freed \ {"C_ArrayType"}
    BY DEF Freed
  <2>8. Plain(Placed(body, p), p)
    BY <2>2, <2>3, <2>5, <2>7, TwoArePlain
  <2> HIDE DEF body
  <2>9. root[p].type \notin {"C_Type", "C_ArgumentList"}
    BY <1>1
  <2> QED  BY <2>6, <2>8, <2>9, PlainPays
<1>2. CASE root[p].type = "C_BinaryExpr"
  <2> DEFINE body == <<Call("C_Expr", <<"lhs">>), Call("C_Expr", <<"rhs">>),
                       free(<<"lhs">>), free(<<"rhs">>)>>
  <2>1. root[p].has = DOMAIN Members(root[p])
    BY HasIs
  <2>2. /\ root[p].has = {"lhs", "rhs"} /\ Members(root[p])["lhs"] = {"C_Expr"}
        /\ Members(root[p])["rhs"] = {"C_Expr"}
    BY <1>2, <2>1, MembersAre
  <2>3. "lhs" \in root[p].has /\ "rhs" \in root[p].has /\ "lhs" # "rhs"
    BY <2>2
  <2>4. root[p].type \notin Arrays \cup {"C_Expr"}
    BY <1>2 DEF Arrays
  <2>5. /\ root[Append(p, "lhs")].type = "C_Expr" /\ root[Append(p, "lhs")].boxed
        /\ root[Append(p, "rhs")].type = "C_Expr" /\ root[Append(p, "rhs")].boxed
    BY <2>2, <2>3, <2>4, MemberIs
  <2>6. FreeBody(root[p].type, root[p]) = body
    BY <1>2 DEF FreeBody, C_BinaryExpr_free
  <2>7. "C_Expr" \in Freed \ {"C_ArrayType"} /\ "C_Expr" \in Freed \ {"C_ArrayType"}
    BY DEF Freed
  <2>8. Plain(Placed(body, p), p)
    BY <2>2, <2>3, <2>5, <2>7, TwoArePlain
  <2> HIDE DEF body
  <2>9. root[p].type \notin {"C_Type", "C_ArgumentList"}
    BY <1>2
  <2> QED  BY <2>6, <2>8, <2>9, PlainPays
<1>3. CASE root[p].type = "C_ArrayIndex"
  <2> DEFINE body == <<Call("C_Expr", <<"ident">>), Call("C_Expr", <<"index">>),
                       free(<<"index">>), free(<<"ident">>)>>
  <2>1. root[p].has = DOMAIN Members(root[p])
    BY HasIs
  <2>2. /\ root[p].has = {"ident", "index"} /\ Members(root[p])["ident"] = {"C_Expr"}
        /\ Members(root[p])["index"] = {"C_Expr"}
    BY <1>3, <2>1, MembersAre
  <2>3. "ident" \in root[p].has /\ "index" \in root[p].has /\ "ident" # "index"
    BY <2>2
  <2>4. root[p].type \notin Arrays \cup {"C_Expr"}
    BY <1>3 DEF Arrays
  <2>5. /\ root[Append(p, "ident")].type = "C_Expr" /\ root[Append(p, "ident")].boxed
        /\ root[Append(p, "index")].type = "C_Expr" /\ root[Append(p, "index")].boxed
    BY <2>2, <2>3, <2>4, MemberIs
  <2>6. FreeBody(root[p].type, root[p]) = body
    BY <1>3 DEF FreeBody, C_ArrayIndex_free
  <2>7. "C_Expr" \in Freed \ {"C_ArrayType"} /\ "C_Expr" \in Freed \ {"C_ArrayType"}
    BY DEF Freed
  <2>8. Plain(Placed(body, p), p)
    BY <2>2, <2>3, <2>5, <2>7, TwoArePlain
  <2> HIDE DEF body
  <2>9. root[p].type \notin {"C_Type", "C_ArgumentList"}
    BY <1>3
  <2> QED  BY <2>6, <2>8, <2>9, PlainPays
<1>4. CASE root[p].type = "C_FnCall"
  <2> DEFINE body == <<Call("C_Identifier", <<"ident">>), Call("C_ArgumentList", <<"args">>),
                       free(<<"ident">>), free(<<"args">>)>>
  <2>1. root[p].has = DOMAIN Members(root[p])
    BY HasIs
  <2>2. /\ root[p].has = {"ident", "args"} /\ Members(root[p])["ident"] = {"C_Identifier"}
        /\ Members(root[p])["args"] = {"C_ArgumentList"}
    BY <1>4, <2>1, MembersAre
  <2>3. "ident" \in root[p].has /\ "args" \in root[p].has /\ "ident" # "args"
    BY <2>2
  <2>4. root[p].type \notin Arrays \cup {"C_Expr"}
    BY <1>4 DEF Arrays
  <2>5. /\ root[Append(p, "ident")].type = "C_Identifier" /\ root[Append(p, "ident")].boxed
        /\ root[Append(p, "args")].type = "C_ArgumentList" /\ root[Append(p, "args")].boxed
    BY <2>2, <2>3, <2>4, MemberIs
  <2>6. FreeBody(root[p].type, root[p]) = body
    BY <1>4 DEF FreeBody, C_FnCall_free
  <2>7. /\ "C_Identifier" \in Freed \ {"C_ArrayType"}
        /\ "C_ArgumentList" \in Freed \ {"C_ArrayType"}
    BY DEF Freed
  <2>8. Plain(Placed(body, p), p)
    BY <2>2, <2>3, <2>5, <2>7, TwoArePlain
  <2> HIDE DEF body
  <2>9. root[p].type \notin {"C_Type", "C_ArgumentList"}
    BY <1>4
  <2> QED  BY <2>6, <2>8, <2>9, PlainPays
<1>5. CASE root[p].type = "C_Assign"
  <2> DEFINE body == <<Call("C_Lvalue", <<"lhs">>), Call("C_Expr", <<"rhs">>),
                       free(<<"lhs">>), free(<<"rhs">>)>>
  <2>1. root[p].has = DOMAIN Members(root[p])
    BY HasIs
  <2>2. /\ root[p].has = {"lhs", "rhs"} /\ Members(root[p])["lhs"] = {"C_Lvalue"}
        /\ Members(root[p])["rhs"] = {"C_Expr"}
    BY <1>5, <2>1, MembersAre
  <2>3. "lhs" \in root[p].has /\ "rhs" \in root[p].has /\ "lhs" # "rhs"
    BY <2>2
  <2>4. root[p].type \notin Arrays \cup {"C_Expr"}
    BY <1>5 DEF Arrays
  <2>5. /\ root[Append(p, "lhs")].type = "C_Lvalue" /\ root[Append(p, "lhs")].boxed
        /\ root[Append(p, "rhs")].type = "C_Expr" /\ root[Append(p, "rhs")].boxed
    BY <2>2, <2>3, <2>4, MemberIs
  <2>6. FreeBody(root[p].type, root[p]) = body
    BY <1>5 DEF FreeBody, C_Assign_free
  <2>7. "C_Lvalue" \in Freed \ {"C_ArrayType"} /\ "C_Expr" \in Freed \ {"C_ArrayType"}
    BY DEF Freed
  <2>8. Plain(Placed(body, p), p)
    BY <2>2, <2>3, <2>5, <2>7, TwoArePlain
  <2> HIDE DEF body
  <2>9. root[p].type \notin {"C_Type", "C_ArgumentList"}
    BY <1>5
  <2> QED  BY <2>6, <2>8, <2>9, PlainPays
<1>6. CASE root[p].type = "C_If_Branch"
  <2> DEFINE body == <<Call("C_Expr", <<"cond">>), Call("C_Block", <<"block">>),
                       free(<<"cond">>), free(<<"block">>)>>
  <2>1. root[p].has = DOMAIN Members(root[p])
    BY HasIs
  <2>2. /\ root[p].has = {"cond", "block"} /\ Members(root[p])["cond"] = {"C_Expr"}
        /\ Members(root[p])["block"] = {"C_Block"}
    BY <1>6, <2>1, MembersAre
  <2>3. "cond" \in root[p].has /\ "block" \in root[p].has /\ "cond" # "block"
    BY <2>2
  <2>4. root[p].type \notin Arrays \cup {"C_Expr"}
    BY <1>6 DEF Arrays
  <2>5. /\ root[Append(p, "cond")].type = "C_Expr" /\ root[Append(p, "cond")].boxed
        /\ root[Append(p, "block")].type = "C_Block" /\ root[Append(p, "block")].boxed
    BY <2>2, <2>3, <2>4, MemberIs
  <2>6. FreeBody(root[p].type, root[p]) = body
    BY <1>6 DEF FreeBody, C_If_Branch_free
  <2>7. "C_Expr" \in Freed \ {"C_ArrayType"} /\ "C_Block" \in Freed \ {"C_ArrayType"}
    BY DEF Freed
  <2>8. Plain(Placed(body, p), p)
    BY <2>2, <2>3, <2>5, <2>7, TwoArePlain
  <2> HIDE DEF body
  <2>9. root[p].type \notin {"C_Type", "C_ArgumentList"}
    BY <1>6
  <2> QED  BY <2>6, <2>8, <2>9, PlainPays
<1> QED  BY <1>1, <1>2, <1>3, <1>4, <1>5, <1>6

LEMMA SinglesPay ==
  ASSUME IsTree(root), NEW p \in DOMAIN root, ~InType(p),
         root[p].type \in {"C_Identifier", "C_Lvalue", "C_UnaryExpr",
                          "C_Literal", "C_BlockItem", "C_Stmt"}
  PROVE  Pays(Placed(FreeBody(root[p].type, root[p]), p), p)
<1>1. /\ root[p].type \notin Arrays \cup {"C_Expr"}
      /\ root[p].type \notin {"C_Type", "C_ArgumentList"}
  BY DEF Arrays
<1>2. root[p].has = DOMAIN Members(root[p])
  BY HasIs
<1>3. CASE root[p].type = "C_Identifier"
  <2>1. root[p].has = {"ident"} /\ Members(root[p])["ident"] = {"text"}
    BY <1>2, <1>3, MembersAre
  <2>2. "ident" \in root[p].has
    BY <2>1
  <2>3. root[Append(p, "ident")].type = "text" /\ root[Append(p, "ident")].boxed
    BY <1>1, <2>1, <2>2, MemberIs
  <2>4. FreeBody(root[p].type, root[p]) = <<as_free(<<"ident">>)>>
    BY <1>3 DEF FreeBody, C_Identifier_free
  <2>5. Plain(Placed(<<as_free(<<"ident">>)>>, p), p)
    BY <2>1, <2>3, TextIsPlain
  <2> QED  BY <1>1, <2>4, <2>5, PlainPays
<1>4. CASE root[p].type = "C_Lvalue"
  <2>1. /\ root[p].has = {"data"}
        /\ Members(root[p])["data"] = {"C_Identifier", "C_ArrayIndex"}
    BY <1>2, <1>4, MembersAre
  <2>2. "data" \in root[p].has
    BY <2>1
  <2>3. /\ root[Append(p, "data")].type \in {"C_Identifier", "C_ArrayIndex"}
        /\ root[Append(p, "data")].boxed
    BY <1>1, <2>1, <2>2, MemberIs
  <2>4. root[p].kind = "C_LV_IDENTIFIER"
    BY <1>4, NodeIs DEF IsStruct
  <2>5. FreeBody(root[p].type, root[p])
          = <<Call("C_Identifier", <<"data">>), free(<<"data">>)>>
    BY <1>4, <2>4 DEF FreeBody, C_Lvalue_free
  <2>6. CalledAs(Append(p, "data"), "C_Identifier")
    <3>1. CASE root[Append(p, "data")].type = "C_Identifier"
      BY <3>1, CallsOwn
    <3>2. CASE root[Append(p, "data")].type = "C_ArrayIndex"
      <4>1. IsIndexed(p)
        BY <1>4, <3>2 DEF IsIndexed
      <4> QED  BY <4>1 DEF Calls, CalledAs
    <3> QED  BY <2>3, <3>1, <3>2
  <2>7. "C_Identifier" \in Freed \ {"C_ArrayType"}
    BY DEF Freed
  <2>8. Plain(Placed(<<Call("C_Identifier", <<"data">>), free(<<"data">>)>>, p), p)
    BY <2>1, <2>3, <2>6, <2>7, OneIsPlain
  <2> QED  BY <1>1, <2>5, <2>8, PlainPays
<1>5. CASE root[p].type = "C_UnaryExpr"
  <2>1. root[p].has = {"inner"} /\ Members(root[p])["inner"] = {"C_Expr"}
    BY <1>2, <1>5, MembersAre
  <2>2. "inner" \in root[p].has
    BY <2>1
  <2>3. root[Append(p, "inner")].type = "C_Expr" /\ root[Append(p, "inner")].boxed
    BY <1>1, <2>1, <2>2, MemberIs
  <2>4. FreeBody(root[p].type, root[p]) = <<Call("C_Expr", <<"inner">>), free(<<"inner">>)>>
    BY <1>5, <2>1 DEF FreeBody, C_UnaryExpr_free
  <2>5. CalledAs(Append(p, "inner"), "C_Expr")
    BY <2>3, CallsOwn
  <2>6. "C_Expr" \in Freed \ {"C_ArrayType"}
    BY DEF Freed
  <2>7. Plain(Placed(<<Call("C_Expr", <<"inner">>), free(<<"inner">>)>>, p), p)
    BY <2>1, <2>3, <2>5, <2>6, OneIsPlain
  <2> QED  BY <1>1, <2>4, <2>7, PlainPays
<1>6. CASE root[p].type = "C_BlockItem" /\ "stmt" \in root[p].has
  <2>1. root[p].has = {"stmt"} /\ Members(root[p])["stmt"] = {"C_Stmt"}
    BY <1>2, <1>6, MembersAre
  <2>2. "stmt" \in root[p].has
    BY <2>1
  <2>3. root[Append(p, "stmt")].type = "C_Stmt" /\ root[Append(p, "stmt")].boxed
    BY <1>1, <2>1, <2>2, MemberIs
  <2>4. FreeBody(root[p].type, root[p]) = <<Call("C_Stmt", <<"stmt">>), free(<<"stmt">>)>>
    BY <1>6, <2>1 DEF FreeBody, C_BlockItem_free
  <2>5. CalledAs(Append(p, "stmt"), "C_Stmt")
    BY <2>3, CallsOwn
  <2>6. "C_Stmt" \in Freed \ {"C_ArrayType"}
    BY DEF Freed
  <2>7. Plain(Placed(<<Call("C_Stmt", <<"stmt">>), free(<<"stmt">>)>>, p), p)
    BY <2>1, <2>3, <2>5, <2>6, OneIsPlain
  <2> QED  BY <1>1, <2>4, <2>7, PlainPays
<1>7. CASE root[p].type = "C_BlockItem" /\ "stmt" \notin root[p].has
  <2>1. root[p].has = {"expr"} /\ Members(root[p])["expr"] = {"C_Expr"}
    BY <1>2, <1>7, MembersAre
  <2>2. "expr" \in root[p].has
    BY <2>1
  <2>3. root[Append(p, "expr")].type = "C_Expr" /\ root[Append(p, "expr")].boxed
    BY <1>1, <2>1, <2>2, MemberIs
  <2>4. FreeBody(root[p].type, root[p]) = <<Call("C_Expr", <<"expr">>), free(<<"expr">>)>>
    BY <1>7, <2>1 DEF FreeBody, C_BlockItem_free
  <2>5. CalledAs(Append(p, "expr"), "C_Expr")
    BY <2>3, CallsOwn
  <2>6. "C_Expr" \in Freed \ {"C_ArrayType"}
    BY DEF Freed
  <2>7. Plain(Placed(<<Call("C_Expr", <<"expr">>), free(<<"expr">>)>>, p), p)
    BY <2>1, <2>3, <2>5, <2>6, OneIsPlain
  <2> QED  BY <1>1, <2>4, <2>7, PlainPays
<1>8. CASE root[p].type = "C_Literal" /\ root[p].kind = "C_STRING"
  <2>1. root[p].has = {"data"} /\ Members(root[p])["data"] = {"text"}
    BY <1>2, <1>8, MembersAre
  <2>2. "data" \in root[p].has
    BY <2>1
  <2>3. root[Append(p, "data")].type = "text" /\ root[Append(p, "data")].boxed
    BY <1>1, <2>1, <2>2, MemberIs
  <2>4. FreeBody(root[p].type, root[p]) = <<as_free(<<"data">>)>>
    BY <1>8 DEF FreeBody, C_Literal_free
  <2>5. Plain(Placed(<<as_free(<<"data">>)>>, p), p)
    BY <2>1, <2>3, TextIsPlain
  <2> QED  BY <1>1, <2>4, <2>5, PlainPays
<1>9. CASE \/ (root[p].type = "C_Literal" /\ root[p].kind # "C_STRING")
           \/ root[p].type = "C_Stmt"
  <2>1. root[p].has = {}
    BY <1>2, <1>9, MembersAre
  <2>2. FreeBody(root[p].type, root[p]) = <<>>
    BY <1>9 DEF FreeBody, C_Literal_free, C_Stmt_free
  <2>3. Plain(Placed(<<>>, p), p)
    BY <2>1, NothingIsPlain
  <2> QED  BY <1>1, <2>2, <2>3, PlainPays
<1> QED  BY <1>3, <1>4, <1>5, <1>6, <1>7, <1>8, <1>9

LEMMA ExprPays ==
  ASSUME IsTree(root), NEW p \in DOMAIN root, ~InType(p), root[p].type = "C_Expr"
  PROVE  Pays(Placed(FreeBody(root[p].type, root[p]), p), p)
<1> DEFINE c == Holds[root[p].kind]
<1>1. root[p].kind \in DOMAIN Holds
  BY NodeIs DEF IsStruct
<1>2. root[p].has = {"data"} /\ Members(root[p])["data"] = {c}
  <2>1. root[p].has = DOMAIN Members(root[p])
    BY HasIs
  <2> QED  BY <2>1, MembersAre
<1>3. "data" \in root[p].has
  BY <1>2
<1>4. /\ root[Append(p, "data")].type = c
      /\ root[Append(p, "data")].boxed <=> c = "C_Identifier"
  BY <1>2, <1>3, MemberIs
<1>5. c \in Freed \ {"C_ArrayType"} /\ (c = "C_Identifier" <=> root[p].kind = "C_EXPR_IDENTIFIER")
  BY <1>1 DEF Holds, Freed
<1>6. FreeBody(root[p].type, root[p]) = C_Expr_free(root[p])
  BY DEF FreeBody
<1>7. C_Expr_free(root[p]) = IF c = "C_Identifier"
                             THEN <<Call(c, <<"data">>), free(<<"data">>)>>
                             ELSE <<Call(c, <<"data">>)>>
  BY <1>1 DEF C_Expr_free, Holds
<1> HIDE DEF c
<1>8. Plain(Placed(C_Expr_free(root[p]), p), p)
  <2>1. CASE c = "C_Identifier"
    <3>1. CalledAs(Append(p, "data"), c)
      BY <1>4, CallsOwn
    <3>2. Plain(Placed(<<Call(c, <<"data">>), free(<<"data">>)>>, p), p)
      BY <1>2, <1>4, <1>5, <2>1, <3>1, OneIsPlain
    <3> QED  BY <1>7, <2>1, <3>2
  <2>2. CASE c # "C_Identifier"
    <3>1. Plain(Placed(<<Call(c, <<"data">>)>>, p), p)
      BY <1>2, <1>4, <1>5, <2>2, CallIsPlain
    <3> QED  BY <1>7, <2>2, <3>1
  <2> QED  BY <2>1, <2>2
<1>9. root[p].type \notin {"C_Type", "C_ArgumentList"}
  OBVIOUS
<1> QED  BY <1>6, <1>8, <1>9, PlainPays

LEMMA ListsPay ==
  ASSUME IsTree(root), NEW p \in DOMAIN root, ~InType(p),
         root[p].type \in {"C_ArgumentList", "C_If", "C_Block"}
  PROVE  Pays(Placed(FreeBody(root[p].type, root[p]), p), p)
<1>1. CASE root[p].type = "C_ArgumentList"
  <2>1. root[p].has = DOMAIN Members(root[p])
    BY HasIs
  <2>2. root[p].has = {"args"} /\ Members(root[p])["args"] = {"C_FunctionArgument[]"}
    BY <1>1, <2>1, MembersAre
  <2> DEFINE x == Append(p, "args")
  <2>3. "args" \in root[p].has
    BY <2>2
  <2>4. /\ root[x].type = "C_FunctionArgument[]" /\ root[x].type \in Arrays
        /\ x \in DOMAIN root
    <3>1. root[x].type = "C_FunctionArgument[]" /\ x \in DOMAIN root
      BY <2>2, <2>3, MemberIs, NodeIs
    <3> QED  BY <3>1 DEF Arrays
  <2>5. HasOnly(x, "C_FunctionArgument")
    <3>1. root[x].has = DOMAIN Members(root[x])
      BY <2>4, HasIs
    <3>2. /\ DOMAIN Members(root[x]) = Elements(root[x].len)
          /\ \A g \in Elements(root[x].len) : Members(root[x])[g] = {"C_FunctionArgument"}
      BY <2>4 DEF Members
    <3> QED  BY <3>1, <3>2 DEF HasOnly
  <2>6. "C_FunctionArgument" \in Freed \ {"C_ArrayType"}
    BY DEF Freed
  <2> HIDE DEF x
  <2>7. Listed(Placed(ListBody(p, "args", "C_FunctionArgument"), p), p, "args")
    BY <2>2, <2>4, <2>5, <2>6, ListIs DEF x
  <2>8. FreeBody(root[p].type, root[p]) = ListBody(p, "args", "C_FunctionArgument")
    BY <1>1 DEF FreeBody, C_ArgumentList_free, ListBody
  <2>9. root[p].type # "C_Type"
    BY <1>1
  <2> QED  BY <2>7, <2>8, <2>9, ListPays
<1>2. CASE root[p].type = "C_If"
  <2>1. root[p].has = DOMAIN Members(root[p])
    BY HasIs
  <2>2. root[p].has = {"branches"} /\ Members(root[p])["branches"] = {"C_If_Branch[]"}
    BY <1>2, <2>1, MembersAre
  <2> DEFINE x == Append(p, "branches")
  <2>3. "branches" \in root[p].has
    BY <2>2
  <2>4. root[x].type = "C_If_Branch[]" /\ root[x].type \in Arrays /\ x \in DOMAIN root
    <3>1. root[x].type = "C_If_Branch[]" /\ x \in DOMAIN root
      BY <2>2, <2>3, MemberIs, NodeIs
    <3> QED  BY <3>1 DEF Arrays
  <2>5. HasOnly(x, "C_If_Branch")
    <3>1. root[x].has = DOMAIN Members(root[x])
      BY <2>4, HasIs
    <3>2. /\ DOMAIN Members(root[x]) = Elements(root[x].len)
          /\ \A g \in Elements(root[x].len) : Members(root[x])[g] = {"C_If_Branch"}
      BY <2>4 DEF Members
    <3> QED  BY <3>1, <3>2 DEF HasOnly
  <2>6. "C_If_Branch" \in Freed \ {"C_ArrayType"}
    BY DEF Freed
  <2> HIDE DEF x
  <2>7. Listed(Placed(ListBody(p, "branches", "C_If_Branch"), p), p, "branches")
    BY <2>2, <2>4, <2>5, <2>6, ListIs DEF x
  <2>8. FreeBody(root[p].type, root[p]) = ListBody(p, "branches", "C_If_Branch")
    BY <1>2 DEF FreeBody, C_If_free, ListBody
  <2>9. root[p].type # "C_Type"
    BY <1>2
  <2> QED  BY <2>7, <2>8, <2>9, ListPays
<1>3. CASE root[p].type = "C_Block"
  <2>1. root[p].has = DOMAIN Members(root[p])
    BY HasIs
  <2>2. root[p].has = {"items"} /\ Members(root[p])["items"] = {"C_BlockItem[]"}
    BY <1>3, <2>1, MembersAre
  <2> DEFINE x == Append(p, "items")
  <2>3. "items" \in root[p].has
    BY <2>2
  <2>4. root[x].type = "C_BlockItem[]" /\ root[x].type \in Arrays /\ x \in DOMAIN root
    <3>1. root[x].type = "C_BlockItem[]" /\ x \in DOMAIN root
      BY <2>2, <2>3, MemberIs, NodeIs
    <3> QED  BY <3>1 DEF Arrays
  <2>5. HasOnly(x, "C_BlockItem")
    <3>1. root[x].has = DOMAIN Members(root[x])
      BY <2>4, HasIs
    <3>2. /\ DOMAIN Members(root[x]) = Elements(root[x].len)
          /\ \A g \in Elements(root[x].len) : Members(root[x])[g] = {"C_BlockItem"}
      BY <2>4 DEF Members
    <3> QED  BY <3>1, <3>2 DEF HasOnly
  <2>6. "C_BlockItem" \in Freed \ {"C_ArrayType"}
    BY DEF Freed
  <2> HIDE DEF x
  <2>7. Listed(Placed(ListBody(p, "items", "C_BlockItem"), p), p, "items")
    BY <2>2, <2>4, <2>5, <2>6, ListIs DEF x
  <2>8. FreeBody(root[p].type, root[p]) = ListBody(p, "items", "C_BlockItem")
    BY <1>3 DEF FreeBody, C_Block_free, ListBody
  <2>9. root[p].type # "C_Type"
    BY <1>3
  <2> QED  BY <2>7, <2>8, <2>9, ListPays
<1> QED  BY <1>1, <1>2, <1>3

LEMMA TypePays ==
  ASSUME IsTree(root), NEW p \in DOMAIN root, ~InType(p), root[p].type = "C_Type"
  PROVE  Pays(Placed(FreeBody(root[p].type, root[p]), p), p)
<1>1. FreeBody(root[p].type, root[p]) = <<>>
  <2>1. root[p].kind = "C_TYPE_PRIMITIVE"
    BY NodeIs DEF IsStruct
  <2> QED  BY <2>1 DEF FreeBody, C_Type_free
<1>2. Below(p) = {}
  <2>1. ASSUME NEW q \in Below(p) PROVE FALSE
    <3>1. q \in Blocks(root) \ LostBlocks /\ p \in Above(q) \ {q}
      BY <2>1 DEF Below
    <3>2. InType(q)
      BY <3>1 DEF InType
    <3>3. q # <<>>
      <4>1. <<>> \in Seq(Fields) /\ p \in Seq(Fields)
        BY NodeIs, NilIsPath
      <4>2. p \in Above(<<>>) => <<>> \in Above(p) /\ p \in Above(<<>>)
        BY <4>1, AboveOrder
      <4>3. p \in Above(<<>>) => Len(p) = Len(<<>>)
        BY <4>1, <4>2, NilIsPath, AboveIs
      <4>4. p \in Above(<<>>) => p = <<>>
        BY <4>1, <4>3, AboveOrder
      <4> QED  BY <3>1, <4>4
    <3> QED  BY <3>1, <3>2, <3>3 DEF LostBlocks
  <2> QED  BY <2>1
<1> DEFINE b == Placed(<<>>, p)
<1>3. b \in Seq(Statement) /\ Len(b) = 0
  BY NothingIs
<1> HIDE DEF b
<1>4. InOrder(b) /\ Debts(b) = Below(p)
  BY <1>2, <1>3 DEF InOrder, Debts
<1>5. ASSUME NEW q \in DOMAIN root, IsIndexed(q), p \in Above(q) \ {q} PROVE FALSE
  <2>1. InType(q)
    BY <1>5 DEF InType
  <2> QED  BY <1>5, <2>1 DEF IsIndexed
<1>6. Pays(b, p)
  BY <1>3, <1>4, <1>5 DEF Pays
<1> QED  BY <1>1, <1>6 DEF b

LEMMA FreePays ==
  ASSUME IsTree(root), NEW p \in DOMAIN root, ~InType(p),
         root[p].type \in Freed \ {"C_ArrayType"}
  PROVE  Pays(Placed(FreeBody(root[p].type, root[p]), p), p)
BY PairsPay, SinglesPay, ExprPays, ListsPay, TypePays DEF Freed

-----------------------------------------------------------------------------
(* Freeing: what is left to do frees what is left.                           *)

(* The heap h is what is lost, what is kept and what T owes, all of it once, and   *)
(* every block that a statement of T goes through is in it.                  *)
Settled(T, h, kept) ==
  /\ T \in Seq(Statement)
  /\ \A k \in 1 .. Len(T) : Frees(T[k]) /\ Boxes(T[k].at) \subseteq h
  /\ InOrder(T)
  /\ h = LostBlocks \cup kept \cup Debts(T) /\ kept \cap Debts(T) = {}

LEMMA TailIs ==
  ASSUME NEW S, NEW T \in Seq(S), T # <<>>
  PROVE  /\ Tail(T) \in Seq(S) /\ Head(T) = T[1] /\ 1 \in 1 .. Len(T)
         /\ Len(Tail(T)) = Len(T) - 1 /\ Len(T) \in Nat
         /\ \A k \in 1 .. Len(Tail(T)) : k + 1 \in 1 .. Len(T) /\ Tail(T)[k] = T[k + 1]
OBVIOUS

LEMMA DebtsAre ==
  ASSUME NEW S, NEW T \in Seq(S), T # <<>>
  PROVE  Debts(T) = Owed(Head(T)) \cup Debts(Tail(T))
<1>1. /\ Tail(T) \in Seq(S) /\ Head(T) = T[1] /\ 1 \in 1 .. Len(T)
      /\ Len(Tail(T)) = Len(T) - 1 /\ Len(T) \in Nat
      /\ \A k \in 1 .. Len(Tail(T)) : k + 1 \in 1 .. Len(T) /\ Tail(T)[k] = T[k + 1]
  BY TailIs
<1>2. ASSUME NEW q \in Debts(T) PROVE q \in Owed(Head(T)) \cup Debts(Tail(T))
  <2>1. PICK k \in 1 .. Len(T) : q \in Owed(T[k])
    BY <1>2 DEF Debts
  <2>2. CASE k = 1
    BY <1>1, <2>1, <2>2
  <2>3. CASE k # 1
    <3>1. k - 1 \in 1 .. Len(Tail(T))
      BY <1>1, <2>3
    <3>2. k = (k - 1) + 1
      BY <3>1
    <3>3. Tail(T)[k - 1] = T[k]
      BY <1>1, <3>1, <3>2
    <3> QED  BY <2>1, <3>1, <3>3 DEF Debts
  <2> QED  BY <2>2, <2>3
<1>3. Owed(Head(T)) \subseteq Debts(T)
  BY <1>1 DEF Debts
<1>4. Debts(Tail(T)) \subseteq Debts(T)
  BY <1>1 DEF Debts
<1> QED  BY <1>2, <1>3, <1>4

LEMMA JoinedAre ==
  ASSUME NEW S, NEW s \in Seq(S), NEW t \in Seq(S), NEW k \in 1 .. Len(s \o t)
  PROVE  \/ k \in 1 .. Len(s) /\ (s \o t)[k] = s[k]
         \/ k - Len(s) \in 1 .. Len(t) /\ (s \o t)[k] = t[k - Len(s)]
OBVIOUS

LEMMA DebtsJoin ==
  ASSUME NEW S, NEW s \in Seq(S), NEW t \in Seq(S)
  PROVE  Debts(s \o t) = Debts(s) \cup Debts(t)
<1>1. /\ Len(s \o t) = Len(s) + Len(t) /\ Len(s) \in Nat /\ Len(t) \in Nat
      /\ \A k \in 1 .. Len(s) : (s \o t)[k] = s[k]
      /\ \A k \in 1 .. Len(t) : (s \o t)[Len(s) + k] = t[k]
  BY JoinIs
<1>2. ASSUME NEW q \in Debts(s \o t) PROVE q \in Debts(s) \cup Debts(t)
  <2>1. PICK k \in 1 .. Len(s \o t) : q \in Owed((s \o t)[k])
    BY <1>2 DEF Debts
  <2>2. \/ k \in 1 .. Len(s) /\ (s \o t)[k] = s[k]
        \/ k - Len(s) \in 1 .. Len(t) /\ (s \o t)[k] = t[k - Len(s)]
    BY JoinedAre
  <2> QED  BY <2>1, <2>2 DEF Debts
<1>3. ASSUME NEW q \in Debts(s) PROVE q \in Debts(s \o t)
  <2>1. PICK k \in 1 .. Len(s) : q \in Owed(s[k])
    BY <1>3 DEF Debts
  <2>2. k \in 1 .. Len(s \o t) /\ (s \o t)[k] = s[k]
    BY <1>1
  <2> QED  BY <2>1, <2>2 DEF Debts
<1>4. ASSUME NEW q \in Debts(t) PROVE q \in Debts(s \o t)
  <2>1. PICK k \in 1 .. Len(t) : q \in Owed(t[k])
    BY <1>4 DEF Debts
  <2>2. Len(s) + k \in 1 .. Len(s \o t) /\ (s \o t)[Len(s) + k] = t[k]
    BY <1>1
  <2> QED  BY <2>1, <2>2 DEF Debts
<1> QED  BY <1>2, <1>3, <1>4

LEMMA SettledIs ==
  ASSUME NEW T, NEW h, NEW kept, Settled(T, h, kept), T # <<>>
  PROVE  /\ Frees(Head(T)) /\ Boxes(Head(T).at) \subseteq h
         /\ Owed(Head(T)) \subseteq h /\ LostBlocks \subseteq h /\ Head(T) \in Statement
<1>1. T \in Seq(Statement)
  BY DEF Settled
<1>2. Head(T) = T[1] /\ 1 \in 1 .. Len(T)
  BY <1>1, TailIs
<1>3. Debts(T) = Owed(Head(T)) \cup Debts(Tail(T))
  BY <1>1, DebtsAre
<1>4. /\ Frees(T[1]) /\ Boxes(T[1].at) \subseteq h
      /\ h = LostBlocks \cup kept \cup Debts(T)
  BY <1>2 DEF Settled
<1>5. Head(T) \in Statement
  <2> HIDE DEF Statement
  <2> QED  BY <1>1, <1>2
<1> QED  BY <1>2, <1>3, <1>4, <1>5

LEMMA CallSettles ==
  ASSUME NEW T, NEW h, NEW kept, Settled(T, h, kept), T # <<>>,
         Head(T).do = "call", NEW body, Pays(body, Head(T).at)
  PROVE  Settled(body \o Tail(T), h, kept)
<1> DEFINE s == Head(T)
           R == Tail(T)
           U == body \o R
<1>1. /\ T \in Seq(Statement) /\ h = LostBlocks \cup kept \cup Debts(T)
      /\ kept \cap Debts(T) = {}
  BY DEF Settled
<1>2. /\ R \in Seq(Statement) /\ s = T[1] /\ 1 \in 1 .. Len(T)
      /\ Len(R) = Len(T) - 1 /\ Len(T) \in Nat
      /\ \A k \in 1 .. Len(R) : k + 1 \in 1 .. Len(T) /\ R[k] = T[k + 1]
  BY <1>1, TailIs
<1>3. Debts(T) = Owed(s) \cup Debts(R)
  BY <1>1, DebtsAre
<1>4. body \in Seq(Statement) /\ InOrder(body) /\ Debts(body) = Below(s.at)
  BY DEF Pays
<1>5. Owed(s) = Below(s.at)
  BY DEF Owed
<1>6. Boxes(s.at) \subseteq h /\ LostBlocks \subseteq h /\ Owed(s) \subseteq h
  BY SettledIs
<1>7. \A k \in 1 .. Len(R) : Frees(R[k]) /\ Boxes(R[k].at) \subseteq h /\ Fits(s, R[k])
  <2>1. ASSUME NEW k \in 1 .. Len(R) PROVE Frees(R[k]) /\ Boxes(R[k].at) \subseteq h
    BY <1>2 DEF Settled
  <2>2. ASSUME NEW k \in 1 .. Len(R) PROVE Fits(s, R[k])
    <3>1. k + 1 \in 1 .. Len(T) /\ R[k] = T[k + 1] /\ 1 < k + 1
      BY <1>2
    <3>2. InOrder(T)
      BY DEF Settled
    <3> QED  BY <1>2, <3>1, <3>2 DEF InOrder
  <2> QED  BY <2>1, <2>2
<1>8. \A k \in 1 .. Len(body) : Frees(body[k]) /\ Boxes(body[k].at) \subseteq h
  <2>1. \A k \in 1 .. Len(body) :
          Frees(body[k]) /\ Boxes(body[k].at) \subseteq Boxes(s.at) \cup Below(s.at) \cup LostBlocks
    BY DEF Pays
  <2> QED  BY <1>5, <1>6, <2>1
<1> HIDE DEF s, R
<1>9. /\ U \in Seq(Statement) /\ Len(U) = Len(body) + Len(R)
      /\ Len(body) \in Nat /\ Len(R) \in Nat
  <2>1. U \in Seq(Statement) /\ Len(U) = Len(body) + Len(R)
    BY <1>2, <1>4, JoinIs
  <2> QED  BY <1>2, <1>4, <2>1
<1>10. \A k \in 1 .. Len(U) :
         \/ k \in 1 .. Len(body) /\ U[k] = body[k]
         \/ k - Len(body) \in 1 .. Len(R) /\ U[k] = R[k - Len(body)]
  BY <1>2, <1>4, JoinedAre
<1>11. Debts(U) = Debts(body) \cup Debts(R)
  BY <1>2, <1>4, DebtsJoin
<1> HIDE DEF U
<1>12. \A k \in 1 .. Len(U) : Frees(U[k]) /\ Boxes(U[k].at) \subseteq h
  BY <1>7, <1>8, <1>10
<1>13. h = LostBlocks \cup kept \cup Debts(U) /\ kept \cap Debts(U) = {}
  BY <1>1, <1>3, <1>4, <1>5, <1>11
<1>14. InOrder(U)
  <2>1. ASSUME NEW j \in 1 .. Len(U), NEW k \in 1 .. Len(U), j < k PROVE Fits(U[j], U[k])
    <3>1. CASE j \in 1 .. Len(body) /\ U[j] = body[j]
      <4>1. CASE k \in 1 .. Len(body) /\ U[k] = body[k]
        BY <1>4, <2>1, <3>1, <4>1 DEF InOrder
      <4>2. CASE k - Len(body) \in 1 .. Len(R) /\ U[k] = R[k - Len(body)]
        <5>1. Fits(s, U[k])
          BY <1>7, <4>2
        <5>2. Owed(U[j]) \subseteq Owed(s)
          BY <1>4, <1>5, <3>1 DEF Debts
        <5> QED  BY <5>1, <5>2 DEF Fits
      <4> QED  BY <1>10, <4>1, <4>2
    <3>2. CASE j - Len(body) \in 1 .. Len(R) /\ U[j] = R[j - Len(body)]
      <4>0. j \in Int /\ k \in Int
        OBVIOUS
      <4>1. k - Len(body) \in 1 .. Len(R) /\ U[k] = R[k - Len(body)]
        <5>1. k \notin 1 .. Len(body)
          BY <1>9, <2>1, <3>2, <4>0
        <5> QED  BY <1>10, <5>1
      <4>2. InOrder(T)
        BY DEF Settled
      <4> DEFINE i == j - Len(body)
                 m == k - Len(body)
      <4>3. i \in 1 .. Len(R) /\ m \in 1 .. Len(R) /\ i + 1 < m + 1
        BY <1>9, <2>1, <3>2, <4>0, <4>1
      <4>4. U[j] = R[i] /\ U[k] = R[m]
        BY <3>2, <4>1
      <4> HIDE DEF i, m
      <4>5. /\ i + 1 \in 1 .. Len(T) /\ R[i] = T[i + 1]
            /\ m + 1 \in 1 .. Len(T) /\ R[m] = T[m + 1]
        BY <1>2, <4>3
      <4> QED  BY <4>2, <4>3, <4>4, <4>5 DEF InOrder
    <3> QED  BY <1>10, <3>1, <3>2
  <2> QED  BY <2>1 DEF InOrder
<1> QED  BY <1>9, <1>12, <1>13, <1>14 DEF Settled, U, R

LEMMA FreeSettles ==
  ASSUME IsTree(root), NEW T, NEW h, NEW kept, Settled(T, h, kept), T # <<>>,
         Head(T).do = "free"
  PROVE  /\ Head(T).at \in h
         /\ Settled(Tail(T), h \ {Head(T).at}, kept)
         /\ \A q \in h \ {Head(T).at} : Head(T).at \in Above(q) => q \in LostBlocks \cup kept
<1> DEFINE s == Head(T)
           R == Tail(T)
           g == h \ {s.at}
<1>1. /\ T \in Seq(Statement) /\ h = LostBlocks \cup kept \cup Debts(T)
      /\ kept \cap Debts(T) = {}
  BY DEF Settled
<1>2. /\ R \in Seq(Statement) /\ s = T[1] /\ 1 \in 1 .. Len(T)
      /\ Len(R) = Len(T) - 1 /\ Len(T) \in Nat
      /\ \A k \in 1 .. Len(R) : k + 1 \in 1 .. Len(T) /\ R[k] = T[k + 1]
  BY <1>1, TailIs
<1>3. Debts(T) = Owed(s) \cup Debts(R)
  BY <1>1, DebtsAre
<1>4. Frees(s)
  BY SettledIs
<1>5. Owed(s) = {s.at} /\ s.at \in Blocks(root) \ LostBlocks
  BY <1>4 DEF Owed, Frees
<1>6. \A k \in 1 .. Len(R) : Frees(R[k]) /\ Boxes(R[k].at) \subseteq h /\ Fits(s, R[k])
  <2>1. ASSUME NEW k \in 1 .. Len(R) PROVE Frees(R[k]) /\ Boxes(R[k].at) \subseteq h
    BY <1>2 DEF Settled
  <2>2. ASSUME NEW k \in 1 .. Len(R) PROVE Fits(s, R[k])
    <3>1. k + 1 \in 1 .. Len(T) /\ R[k] = T[k + 1] /\ 1 < k + 1
      BY <1>2
    <3>2. InOrder(T)
      BY DEF Settled
    <3> QED  BY <1>2, <3>1, <3>2 DEF InOrder
  <2> QED  BY <2>1, <2>2
<1> HIDE DEF s, R
<1>7. \A k \in 1 .. Len(R) : s.at \notin Owed(R[k]) /\ s.at \notin Above(R[k].at)
  BY <1>5, <1>6 DEF Fits
<1>8. s.at \notin Debts(R)
  BY <1>7 DEF Debts
<1>9. g = LostBlocks \cup kept \cup Debts(R) /\ kept \cap Debts(R) = {}
  BY <1>1, <1>3, <1>5, <1>8
<1>10. \A k \in 1 .. Len(R) : Frees(R[k]) /\ Boxes(R[k].at) \subseteq g
  BY <1>6, <1>7 DEF Boxes
<1>11. InOrder(R)
  <2>1. ASSUME NEW j \in 1 .. Len(R), NEW k \in 1 .. Len(R), j < k PROVE Fits(R[j], R[k])
    <3>1. /\ j + 1 \in 1 .. Len(T) /\ R[j] = T[j + 1] /\ k + 1 \in 1 .. Len(T)
          /\ R[k] = T[k + 1] /\ j + 1 < k + 1
      BY <1>2, <2>1
    <3>2. InOrder(T)
      BY DEF Settled
    <3> QED  BY <3>1, <3>2 DEF InOrder
  <2> QED  BY <2>1 DEF InOrder
<1>12. Settled(R, g, kept)
  BY <1>2, <1>9, <1>10, <1>11 DEF Settled
<1>13. ASSUME NEW q \in g, s.at \in Above(q), q \notin LostBlocks \cup kept PROVE FALSE
  <2>1. PICK k \in 1 .. Len(R) : q \in Owed(R[k])
    BY <1>9, <1>13 DEF Debts
  <2>2. q \in Seq(Fields) /\ R[k].at \in Above(q)
    BY <1>6, <2>1, OwedIs
  <2>3. s.at \in Above(R[k].at) \/ R[k].at \in Above(s.at)
    BY <1>13, <2>2, AboveOrder
  <2>4. R[k].at \in Above(s.at) /\ R[k].at # s.at
    <3>1. s.at \in Above(s.at)
      <4>1. s.at \in Seq(Fields)
        BY <1>4, NodeIs DEF Frees
      <4> QED  BY <4>1, AboveOrder
    <3> QED  BY <1>7, <2>3, <3>1
  <2>5. CASE R[k].do = "free"
    <3>1. q = R[k].at
      BY <2>1, <2>5 DEF Owed
    <3> QED  BY <1>7, <1>13, <3>1
  <2>6. CASE R[k].do # "free"
    <3>1. s.at \in Owed(R[k])
      BY <1>5, <2>4, <2>6 DEF Owed, Below
    <3> QED  BY <1>7, <3>1
  <2> QED  BY <2>5, <2>6
<1>14. s.at \in h
  BY <1>1, <1>3, <1>5
<1> QED  BY <1>12, <1>13, <1>14 DEF s, R

(* The struct of a statement, and what its call is made for, are there.       *)
LEMMA SettledLives ==
  ASSUME IsTree(root), NEW T, NEW kept, Settled(T, heap, kept), T # <<>>
  PROVE  Alive(Head(T).of) /\ Alive(Head(T).at)
<1>1. Frees(Head(T)) /\ Boxes(Head(T).at) \subseteq heap
  BY SettledIs
<1>2. Head(T).at \in Seq(Fields) /\ Head(T).of \in Above(Head(T).at)
  BY <1>1, NodeIs DEF Frees
<1>3. Boxes(Head(T).of) \subseteq heap
  <2>1. Above(Head(T).of) \subseteq Above(Head(T).at)
    BY <1>2, AboveOrder
  <2> QED  BY <1>1, <2>1 DEF Boxes
<1> QED  BY <1>1, <1>3 DEF Alive

(* An indexed lvalue is reached, until its call is made, by a call above it or *)
(* by the one that takes it for a name.                                       *)
LEMMA LvalueReaches ==
  ASSUME IsTree(root), NEW p, IsIndexed(p)
  PROVE  LET b == Placed(FreeBody(root[p].type, root[p]), p) IN
         Len(b) = 2 /\ Reaches(b[1], p)
<1> DEFINE body == <<Call("C_Identifier", <<"data">>), free(<<"data">>)>>
           b == Placed(body, p)
<1>1. p \in DOMAIN root /\ root[p].type = "C_Lvalue"
  BY DEF IsIndexed
<1>2. /\ p \in Seq(Fields) /\ root[p].kind = "C_LV_IDENTIFIER"
      /\ root[p].has \subseteq Fields /\ root[p].has = DOMAIN Members(root[p])
  BY <1>1, NodeIs DEF IsStruct
<1>3. "data" \in Fields
  <2>1. "data" \in root[p].has
    BY <1>1, <1>2, MembersAre
  <2> QED  BY <1>2, <2>1
<1>4. "C_Identifier" \in Freed
  BY DEF Freed
<1>5. /\ Call("C_Identifier", <<"data">>) \in Raw /\ Call("C_Identifier", <<"data">>).do = "call"
      /\ Call("C_Identifier", <<"data">>).what = "C_Identifier"
      /\ p \o Call("C_Identifier", <<"data">>).at = Append(p, "data")
      /\ free(<<"data">>) \in Raw
  BY <1>2, <1>3, <1>4, StepIs
<1>6. body \in Seq(Raw) /\ Len(body) = 2 /\ body[1] = Call("C_Identifier", <<"data">>)
  BY <1>5, TwoOf
<1> HIDE DEF body
<1>7. /\ b \in Seq(Statement) /\ Len(b) = Len(body)
      /\ \A k \in 1 .. Len(body) :
           /\ b[k].do = body[k].do /\ b[k].what = body[k].what
           /\ b[k].of = p /\ b[k].at = p \o body[k].at /\ b[k].len = body[k].len
  BY <1>2, <1>6, PlacedIs
<1> HIDE DEF b
<1>8. b[1].do = "call" /\ b[1].what = "C_Identifier" /\ b[1].at = Append(p, "data")
  <2>1. 1 \in 1 .. Len(body)
    BY <1>6
  <2> QED  BY <1>5, <1>6, <1>7, <2>1
<1>9. FreeBody(root[p].type, root[p]) = body
  BY <1>1, <1>2 DEF FreeBody, C_Lvalue_free, body
<1>10. Len(b) = 2 /\ Reaches(b[1], p)
  BY <1>6, <1>7, <1>8 DEF Reaches
<1> QED  BY <1>9, <1>10 DEF b

(* To each indexed element that is assigned to a statement leads yet.         *)
Pending(T) ==
  \A q \in DOMAIN root : IsIndexed(q) => \E k \in 1 .. Len(T) : Reaches(T[k], q)

LEMMA CallReaches ==
  ASSUME IsTree(root), NEW T, T # <<>>, T \in Seq(Statement), Pending(T),
         Frees(Head(T)), Head(T).do = "call", root[Head(T).at].type = Head(T).what,
         NEW body, body = Placed(FreeBody(Head(T).what, root[Head(T).at]), Head(T).at),
         Pays(body, Head(T).at)
  PROVE  Pending(body \o Tail(T))
<1> DEFINE s == Head(T)
           R == Tail(T)
           U == body \o R
<1>1. /\ R \in Seq(Statement) /\ s = T[1] /\ Len(R) = Len(T) - 1 /\ Len(T) \in Nat
      /\ \A k \in 1 .. Len(R) : k + 1 \in 1 .. Len(T) /\ R[k] = T[k + 1]
  BY TailIs
<1>2. body \in Seq(Statement)
  BY DEF Pays
<1>3. s.at \in DOMAIN root
  BY DEF Frees
<1>4. \A q \in DOMAIN root :
        IsIndexed(q) /\ s.at \in Above(q) \ {q} =>
          \E k \in 1 .. Len(body) : body[k].do = "call" /\ body[k].at \in Above(q)
  BY DEF Pays
<1> HIDE DEF s, R
<1>5. /\ Len(U) = Len(body) + Len(R) /\ Len(body) \in Nat /\ Len(R) \in Nat
      /\ \A k \in 1 .. Len(body) : U[k] = body[k]
      /\ \A k \in 1 .. Len(R) : U[Len(body) + k] = R[k]
  <2>1. body \in Seq(Statement) /\ R \in Seq(Statement)
    BY <1>1, <1>2
  <2>2. Len(body) \in Nat /\ Len(R) \in Nat
    <3> HIDE DEF Statement
    <3> QED  BY <2>1
  <2>3. /\ Len(U) = Len(body) + Len(R)
        /\ \A k \in 1 .. Len(body) : U[k] = body[k]
        /\ \A k \in 1 .. Len(R) : U[Len(body) + k] = R[k]
    BY <2>1, JoinIs
  <2> QED  BY <2>2, <2>3
<1> HIDE DEF U
<1>6. ASSUME NEW q \in DOMAIN root, IsIndexed(q)
      PROVE  \E k \in 1 .. Len(U) : Reaches(U[k], q)
  <2>1. PICK k \in 1 .. Len(T) : Reaches(T[k], q)
    BY <1>6 DEF Pending
  <2>2. CASE k # 1
    <3> DEFINE i == k - 1
    <3>1. i \in 1 .. Len(R) /\ k = i + 1
      BY <1>1, <2>2
    <3> HIDE DEF i
    <3>2. R[i] = T[k]
      BY <1>1, <3>1
    <3>3. Len(body) + i \in 1 .. Len(U)
      BY <1>5, <3>1
    <3>4. U[Len(body) + i] = R[i]
      BY <1>5, <3>1
    <3> QED  BY <2>1, <3>2, <3>3, <3>4
  <2>3. CASE k = 1
    <3>1. Reaches(s, q)
      BY <1>1, <2>1, <2>3
    <3>2. s.at # Append(q, "data") \/ s.what # "C_Identifier"
      <4>1. root[Append(q, "data")].type = "C_ArrayIndex" /\ root[s.at].type = s.what
        BY <1>6 DEF IsIndexed, s
      <4> QED  BY <4>1
    <3>3. s.at \in Above(q)
      BY <3>1, <3>2 DEF Reaches
    <3>4. CASE s.at # q
      <4>1. PICK i \in 1 .. Len(body) : body[i].do = "call" /\ body[i].at \in Above(q)
        BY <1>4, <1>6, <3>3, <3>4
      <4>2. i \in 1 .. Len(U) /\ U[i] = body[i]
        BY <1>5
      <4> QED  BY <4>1, <4>2 DEF Reaches
    <3>5. CASE s.at = q
      <4>1. body = Placed(FreeBody(root[q].type, root[q]), q)
        BY <3>5 DEF s
      <4>2. Len(body) = 2 /\ Reaches(body[1], q)
        BY <1>6, <4>1, LvalueReaches
      <4>3. 1 \in 1 .. Len(body) /\ 1 \in 1 .. Len(U)
        BY <1>5, <4>2
      <4>4. U[1] = body[1]
        BY <1>5, <4>3
      <4> QED  BY <4>2, <4>3, <4>4
    <3> QED  BY <3>4, <3>5
  <2> QED  BY <2>2, <2>3
<1> QED  BY <1>6 DEF Pending, U, R

LEMMA FreeReaches ==
  ASSUME NEW T, T # <<>>, T \in Seq(Statement), Pending(T), Head(T).do # "call"
  PROVE  Pending(Tail(T))
<1>1. /\ Head(T) = T[1] /\ Len(Tail(T)) = Len(T) - 1 /\ Len(T) \in Nat
      /\ \A k \in 1 .. Len(Tail(T)) : k + 1 \in 1 .. Len(T) /\ Tail(T)[k] = T[k + 1]
  BY TailIs
<1>2. ASSUME NEW q \in DOMAIN root, IsIndexed(q)
      PROVE  \E k \in 1 .. Len(Tail(T)) : Reaches(Tail(T)[k], q)
  <2>1. PICK k \in 1 .. Len(T) : Reaches(T[k], q)
    BY <1>2 DEF Pending
  <2>2. k # 1
    BY <1>1, <2>1 DEF Reaches
  <2>3. k - 1 \in 1 .. Len(Tail(T)) /\ k = (k - 1) + 1
    BY <1>1, <2>2
  <2>4. Tail(T)[k - 1] = T[k]
    BY <1>1, <2>3
  <2> QED  BY <2>1, <2>3, <2>4
<1> QED  BY <1>2 DEF Pending

(* A tree that is no array type by itself is freed but for what is lost.       *)
LEMMA RootIs ==
  ASSUME IsTree(root)
  PROVE  /\ <<>> \in DOMAIN root /\ <<>> \in Seq(Fields) /\ Len(<<>>) = 0
         /\ <<>> \notin Blocks(root) /\ ~InType(<<>>) /\ Above(<<>>) = {<<>>}
         /\ \A q \in Blocks(root) : q \in DOMAIN root /\ q \in Seq(Fields)
                                    /\ <<>> \in Above(q) \ {q}
<1>1. <<>> \in DOMAIN root /\ <<>> \notin Blocks(root)
  BY DEF IsTree, Blocks
<1>2. <<>> \in Seq(Fields) /\ Len(<<>>) = 0
  BY NilIsPath
<1>3. ASSUME NEW q \in Above(<<>>) PROVE q = <<>>
  <2>1. q \in Seq(Fields) /\ Len(q) <= 0
    BY <1>2, AboveIs
  <2> QED  BY <1>2, <1>3, <2>1, AboveOrder
<1>4. Above(<<>>) = {<<>>}
  <2>1. <<>> \in Above(<<>>)
    BY <1>2, AboveOrder
  <2> QED  BY <1>3, <2>1
<1>5. ~InType(<<>>)
  BY <1>4 DEF InType
<1>6. ASSUME NEW q \in Blocks(root)
      PROVE  q \in DOMAIN root /\ q \in Seq(Fields) /\ <<>> \in Above(q) \ {q}
  <2>1. q \in DOMAIN root
    BY DEF Blocks
  <2>2. q \in Seq(Fields)
    BY <2>1, NodeIs
  <2>3. <<>> \in Above(q)
    BY <2>2, AboveOrder
  <2> QED  BY <1>1, <2>1, <2>2, <2>3
<1> QED  BY <1>1, <1>2, <1>4, <1>5, <1>6

RootCall == Call(root[<<>>].type, <<>>)

LEMMA RootCallIs ==
  ASSUME root[<<>>].type \in Freed \cup Visited
  PROVE  /\ <<RootCall>> \in Seq(Statement) /\ Len(<<RootCall>>) = 1
         /\ <<RootCall>>[1] = RootCall /\ <<RootCall>> # <<>>
         /\ RootCall.do = "call" /\ RootCall.what = root[<<>>].type
         /\ RootCall.of = <<>> /\ RootCall.at = <<>>
<1> DEFINE t == root[<<>>].type
<1>1. t \in Freed
  BY DEF Freed, Visited
<1> HIDE DEF t
<1>2. Call(t, <<>>) = [do |-> "call", what |-> t, of |-> <<>>, at |-> <<>>, len |-> 0]
  BY DEF Call, Do
<1>3. "call" \in Deeds /\ t \in Subjects
  BY <1>1 DEF Deeds, Subjects
<1>4. Call(t, <<>>) \in Statement
  <2> DEFINE nil == <<>>
  <2>1. nil \in Seq(Fields)
    BY NilIsPath
  <2>2. Call(t, <<>>) = [do |-> "call", what |-> t, of |-> nil, at |-> nil, len |-> 0]
    BY <1>2
  <2> HIDE DEF nil
  <2> QED  BY <1>3, <2>1, <2>2 DEF Statement
<1>5. /\ Call(t, <<>>).do = "call" /\ Call(t, <<>>).what = t
      /\ Call(t, <<>>).of = <<>> /\ Call(t, <<>>).at = <<>>
  BY <1>2
<1> DEFINE s == Call(t, <<>>)
<1> HIDE DEF s
<1>6. <<s>> \in Seq(Statement) /\ Len(<<s>>) = 1 /\ <<s>>[1] = s /\ <<s>> # <<>>
  <2>1. s \in Statement
    BY <1>4 DEF s
  <2> QED  BY <2>1, OneOf
<1> QED  BY <1>5, <1>6 DEF s, t, RootCall

LEMMA RootSettles ==
  ASSUME IsTree(root), root[<<>>].type \in Freed \ {"C_ArrayType"}
  PROVE  Settled(<<RootCall>>, Blocks(root), {}) /\ Pending(<<RootCall>>)
<1> DEFINE T == <<RootCall>>
<1>1. /\ T \in Seq(Statement) /\ Len(T) = 1 /\ T[1] = RootCall
      /\ RootCall.do = "call" /\ RootCall.what = root[<<>>].type
      /\ RootCall.of = <<>> /\ RootCall.at = <<>>
  BY RootCallIs
<1>2. /\ <<>> \in DOMAIN root /\ <<>> \in Seq(Fields) /\ ~InType(<<>>)
      /\ Above(<<>>) = {<<>>}
      /\ \A q \in Blocks(root) : q \in DOMAIN root /\ q \in Seq(Fields)
                                 /\ <<>> \in Above(q) \ {q}
  BY RootIs
<1> HIDE DEF T
<1>3. Frees(RootCall)
  <2>1. Calls(RootCall)
    BY <1>1 DEF Calls
  <2> QED  BY <1>1, <1>2, <2>1 DEF Frees
<1>4. Boxes(RootCall.at) \subseteq Blocks(root)
  BY DEF Boxes
<1>5. InOrder(T)
  BY <1>1 DEF InOrder
<1>6. Debts(T) = Below(<<>>)
  <2>1. 1 .. Len(T) = {1}
    BY <1>1
  <2>2. Owed(RootCall) = Below(<<>>)
    BY <1>1 DEF Owed
  <2> QED  BY <1>1, <2>1, <2>2 DEF Debts
<1>7. Below(<<>>) = Blocks(root) \ LostBlocks
  BY <1>2 DEF Below
<1>8. LostBlocks \subseteq Blocks(root)
  BY DEF LostBlocks
<1>9. Settled(T, Blocks(root), {})
  <2>1. \A k \in 1 .. Len(T) : Frees(T[k]) /\ Boxes(T[k].at) \subseteq Blocks(root)
    BY <1>1, <1>3, <1>4
  <2> QED  BY <1>1, <1>5, <1>6, <1>7, <1>8, <2>1 DEF Settled
<1>10. Pending(T)
  <2>1. ASSUME NEW q \in DOMAIN root PROVE Reaches(RootCall, q)
    <3>1. q \in Seq(Fields)
      BY NodeIs
    <3>2. <<>> \in Above(q)
      BY <3>1, AboveOrder
    <3> QED  BY <1>1, <3>2 DEF Reaches
  <2> QED  BY <1>1, <2>1 DEF Pending
<1> QED  BY <1>9, <1>10 DEF T

(* An array type that is freed by itself: its `inner` is kept, and its `size`  *)
(* is freed a second time in the end.                                        *)
Inner == Append(<<>>, "inner")
Size == Append(<<>>, "size")
FreesAgain(s) == s \in Statement /\ s.do = "free" /\ s.at = Size
Repeats(T, h) ==
  \E R, s : T = R \o <<s>> /\ FreesAgain(s) /\ Settled(R, h, {Inner})

LEMMA ThreeOf ==
  ASSUME NEW S, NEW a \in S, NEW b \in S, NEW c \in S
  PROVE  LET t == <<a, b, c>> IN
         t \in Seq(S) /\ Len(t) = 3 /\ t[1] = a /\ t[2] = b /\ t[3] = c
OBVIOUS

LEMMA FourAre ==
  ASSUME NEW S, NEW b \in Seq(S), Len(b) = 4
  PROVE  b = <<b[1], b[2], b[3]>> \o <<b[4]>>
OBVIOUS

LEMMA ArrayIs ==
  ASSUME IsTree(root), root[<<>>].type = "C_ArrayType"
  PROVE  /\ "size" \in Fields /\ "inner" \in Fields
         /\ Size \in DOMAIN root /\ root[Size].type = "C_Expr" /\ ~InType(Size)
         /\ Size \in Blocks(root) \ LostBlocks /\ Size \in Seq(Fields)
         /\ <<>> \in Above(Size) /\ Size \in Above(Size)
         /\ Inner \in DOMAIN root /\ root[Inner].type = "C_Type" /\ ~InType(Inner)
         /\ Inner \in Blocks(root) \ LostBlocks /\ Inner \in Seq(Fields)
         /\ <<>> \in Above(Inner) /\ Inner \in Above(Inner)
         /\ Size \notin Above(Inner) /\ Inner \notin Above(Size)
<1>1. /\ <<>> \in DOMAIN root /\ <<>> \in Seq(Fields) /\ ~InType(<<>>)
      /\ Above(<<>>) = {<<>>}
      /\ \A q \in Blocks(root) : q \in DOMAIN root /\ q \in Seq(Fields)
                                 /\ <<>> \in Above(q) \ {q}
  BY RootIs
<1>2. /\ root[<<>>].has = {"size", "inner"}
      /\ Members(root[<<>>])["size"] = {"C_Expr"}
      /\ Members(root[<<>>])["inner"] = {"C_Type"}
  <2>1. root[<<>>].has = DOMAIN Members(root[<<>>])
    BY <1>1, HasIs
  <2> QED  BY <2>1, MembersAre
<1>3. "size" \in root[<<>>].has /\ "inner" \in root[<<>>].has /\ "size" # "inner"
  BY <1>2
<1>4. /\ "size" \in Fields /\ "inner" \in Fields /\ Size \in DOMAIN root
      /\ Inner \in DOMAIN root
  BY <1>1, <1>3, NodeIs DEF Size, Inner
<1>5. /\ root[Size].type = "C_Expr" /\ root[Size].boxed
      /\ root[Inner].type = "C_Type" /\ root[Inner].boxed
  <2>1. root[<<>>].type \notin Arrays \cup {"C_Expr"}
    BY DEF Arrays
  <2> QED  BY <1>1, <1>2, <1>3, <2>1, MemberIs DEF Size, Inner
<1>6. /\ ~InType(Size) /\ Size \in Blocks(root) \ LostBlocks
      /\ ~InType(Inner) /\ Inner \in Blocks(root) \ LostBlocks
  <2>1. root[<<>>].type # "C_Type" /\ root[<<>>].type # "C_ArgumentList"
    OBVIOUS
  <2> QED  BY <1>1, <1>3, <1>5, <2>1, BlockIs DEF Size, Inner
<1>7. /\ Size \in Seq(Fields) /\ Inner \in Seq(Fields)
      /\ <<>> \in Above(Size) /\ <<>> \in Above(Inner)
      /\ Size \in Above(Size) /\ Inner \in Above(Inner)
  BY <1>1, <1>6, AboveOrder
<1>8. Size \notin Above(Inner) /\ Inner \notin Above(Size)
  <2>1. ASSUME Size \in Above(Inner) PROVE FALSE
    BY <1>1, <1>3, <1>4, <1>7, <2>1, SameChild DEF Size, Inner
  <2>2. ASSUME Inner \in Above(Size) PROVE FALSE
    BY <1>1, <1>3, <1>4, <1>7, <2>2, SameChild DEF Size, Inner
  <2> QED  BY <2>1, <2>2
<1> QED  BY <1>4, <1>5, <1>6, <1>7, <1>8

LEMMA ArraySettles ==
  ASSUME IsTree(root), root[<<>>].type = "C_ArrayType"
  PROVE  Repeats(Placed(FreeBody("C_ArrayType", root[<<>>]), <<>>), Blocks(root))
<1> DEFINE c1 == Call("C_Expr", <<"size">>)
           c2 == Call("C_Type", <<"inner">>)
           f3 == free(<<"size">>)
           body == <<c1, c2, f3, f3>>
           b == Placed(body, <<>>)
<1>1. /\ <<>> \in DOMAIN root /\ <<>> \in Seq(Fields) /\ ~InType(<<>>)
      /\ Above(<<>>) = {<<>>}
      /\ \A q \in Blocks(root) : q \in DOMAIN root /\ q \in Seq(Fields)
                                 /\ <<>> \in Above(q) \ {q}
  BY RootIs
<1>2. /\ root[<<>>].has = {"size", "inner"}
      /\ Members(root[<<>>])["size"] = {"C_Expr"}
      /\ Members(root[<<>>])["inner"] = {"C_Type"}
  <2>1. root[<<>>].has = DOMAIN Members(root[<<>>])
    BY <1>1, HasIs
  <2> QED  BY <2>1, MembersAre
<1>3. "size" \in root[<<>>].has /\ "inner" \in root[<<>>].has /\ "size" # "inner"
  BY <1>2
<1>4. /\ "size" \in Fields /\ "inner" \in Fields /\ Size \in DOMAIN root
      /\ Inner \in DOMAIN root
  BY ArrayIs
<1>5. root[Size].type = "C_Expr" /\ root[Inner].type = "C_Type"
  BY ArrayIs
<1>6. /\ ~InType(Size) /\ Size \in Blocks(root) \ LostBlocks
      /\ ~InType(Inner) /\ Inner \in Blocks(root) \ LostBlocks
  BY ArrayIs
<1>7. /\ Size \in Seq(Fields) /\ Inner \in Seq(Fields)
      /\ <<>> \in Above(Size) /\ <<>> \in Above(Inner)
      /\ Size \in Above(Size) /\ Inner \in Above(Inner)
  BY ArrayIs
<1>8. Size \notin Above(Inner) /\ Inner \notin Above(Size)
  BY ArrayIs
<1>9. /\ "C_Expr" \in Freed \ {"C_ArrayType"} /\ "C_Type" \in Freed \ {"C_ArrayType"}
      /\ "C_Expr" \in Freed /\ "C_Type" \in Freed
  BY DEF Freed
<1>10. /\ c1 \in Raw /\ c1.do = "call" /\ c1.what = "C_Expr" /\ <<>> \o c1.at = Size
  <2>1. "size" \in Fields /\ "C_Expr" \in Freed
    BY <1>4, <1>9
  <2>2. /\ c1 \in Raw /\ c1.do = "call" /\ c1.what = "C_Expr"
        /\ <<>> \o c1.at = Append(<<>>, "size")
    BY <2>1, StepAtRoot
  <2> QED  BY <2>2 DEF Size
<1>11. /\ c2 \in Raw /\ c2.do = "call" /\ c2.what = "C_Type" /\ <<>> \o c2.at = Inner
  <2>1. "inner" \in Fields /\ "C_Type" \in Freed
    BY <1>4, <1>9
  <2>2. /\ c2 \in Raw /\ c2.do = "call" /\ c2.what = "C_Type"
        /\ <<>> \o c2.at = Append(<<>>, "inner")
    BY <2>1, StepAtRoot
  <2> QED  BY <2>2 DEF Inner
<1>12. f3 \in Raw /\ f3.do = "free" /\ <<>> \o f3.at = Size
  BY <1>1, <1>4, <1>9, StepIs DEF Size
<1>13. FreeBody("C_ArrayType", root[<<>>]) = body
  BY DEF FreeBody, C_ArrayType_free
<1> HIDE DEF c1, c2, f3
<1>14. /\ body \in Seq(Raw) /\ Len(body) = 4 /\ body[1] = c1 /\ body[2] = c2
       /\ body[3] = f3 /\ body[4] = f3
  BY <1>10, <1>11, <1>12, FourOf
<1> HIDE DEF body
<1>15. /\ b \in Seq(Statement) /\ Len(b) = 4
       /\ \A k \in 1 .. 4 : /\ b[k].do = body[k].do /\ b[k].what = body[k].what
                            /\ b[k].of = <<>> /\ b[k].at = <<>> \o body[k].at
  <2>1. /\ b \in Seq(Statement) /\ Len(b) = Len(body)
        /\ \A k \in 1 .. Len(body) :
             /\ b[k].do = body[k].do /\ b[k].what = body[k].what
             /\ b[k].of = <<>> /\ b[k].at = <<>> \o body[k].at /\ b[k].len = body[k].len
    <3>1. body \in Seq(Raw) /\ <<>> \in Seq(Fields)
      BY <1>1, <1>14
    <3> QED  BY <3>1, PlacedIs
  <2> QED  BY <1>14, <2>1
<1> DEFINE s1 == b[1]
           s2 == b[2]
           s3 == b[3]
           s4 == b[4]
           T == <<s1, s2, s3>>
<1>16. /\ s1 \in Statement /\ s2 \in Statement /\ s3 \in Statement /\ s4 \in Statement
       /\ b = T \o <<s4>>
  <2> HIDE DEF b, Statement
  <2>1. 1 \in 1 .. Len(b) /\ 2 \in 1 .. Len(b) /\ 3 \in 1 .. Len(b) /\ 4 \in 1 .. Len(b)
    BY <1>15
  <2> QED  BY <1>15, <2>1, FourAre
<1>17. /\ s1.do = "call" /\ s1.what = "C_Expr" /\ s1.of = <<>> /\ s1.at = Size
       /\ s2.do = "call" /\ s2.what = "C_Type" /\ s2.of = <<>> /\ s2.at = Inner
       /\ s3.do = "free" /\ s3.of = <<>> /\ s3.at = Size
       /\ s4.do = "free" /\ s4.of = <<>> /\ s4.at = Size
  <2>1. 1 \in 1 .. 4 /\ 2 \in 1 .. 4 /\ 3 \in 1 .. 4 /\ 4 \in 1 .. 4
    OBVIOUS
  <2>2. s1.do = "call" /\ s1.what = "C_Expr" /\ s1.of = <<>> /\ s1.at = Size
    BY <1>10, <1>14, <1>15, <2>1
  <2>3. s2.do = "call" /\ s2.what = "C_Type" /\ s2.of = <<>> /\ s2.at = Inner
    BY <1>11, <1>14, <1>15, <2>1
  <2>4. s3.do = "free" /\ s3.of = <<>> /\ s3.at = Size
    BY <1>12, <1>14, <1>15, <2>1
  <2>5. s4.do = "free" /\ s4.of = <<>> /\ s4.at = Size
    BY <1>12, <1>14, <1>15, <2>1
  <2> QED  BY <2>2, <2>3, <2>4, <2>5
<1> HIDE DEF b, s1, s2, s3, s4
<1>18. T \in Seq(Statement) /\ Len(T) = 3 /\ T[1] = s1 /\ T[2] = s2 /\ T[3] = s3
  BY <1>16, ThreeOf
<1> HIDE DEF T
<1>19. Frees(s1) /\ Frees(s2) /\ Frees(s3)
  <2>1. Calls(s1) /\ Calls(s2)
    BY <1>5, <1>17 DEF Calls
  <2>2. Frees(s1)
    BY <1>4, <1>6, <1>7, <1>9, <1>17, <2>1 DEF Frees
  <2>3. Frees(s2)
    BY <1>4, <1>6, <1>7, <1>9, <1>17, <2>1 DEF Frees
  <2>4. Frees(s3)
    BY <1>4, <1>6, <1>7, <1>17 DEF Frees
  <2> QED  BY <2>2, <2>3, <2>4
<1>20. InOrder(T)
  <2>1. Fits(s1, s2)
    BY <1>1, <1>3, <1>4, <1>7, <1>17, <1>19, ApartFits DEF Size, Inner
  <2>2. Fits(s1, s3)
    BY <1>7, <1>17, <1>19, CallFits
  <2>3. Fits(s2, s3)
    BY <1>1, <1>3, <1>4, <1>7, <1>17, <1>19, ApartFits DEF Size, Inner
  <2>4. ASSUME NEW j \in 1 .. Len(T), NEW k \in 1 .. Len(T), j < k PROVE Fits(T[j], T[k])
    <3>1. \/ j = 1 /\ k = 2
          \/ j = 1 /\ k = 3
          \/ j = 2 /\ k = 3
      BY <1>18, <2>4
    <3> QED  BY <1>18, <2>1, <2>2, <2>3, <3>1
  <2> QED  BY <2>4 DEF InOrder
<1>21. Debts(T) = Below(Size) \cup Below(Inner) \cup {Size}
  <2>1. Owed(s1) = Below(Size) /\ Owed(s2) = Below(Inner) /\ Owed(s3) = {Size}
    BY <1>17 DEF Owed
  <2>2. 1 .. Len(T) = {1, 2, 3}
    BY <1>18
  <2> QED  BY <1>18, <2>1, <2>2 DEF Debts
<1>22. Blocks(root) = LostBlocks \cup {Inner} \cup Debts(T)
  <2>1. ASSUME NEW q \in Blocks(root) \ LostBlocks PROVE q \in {Inner} \cup Debts(T)
    <3>1. q \in Below(<<>>)
      BY <1>1, <2>1 DEF Below
    <3>2. PICK f \in root[<<>>].has : q = Append(<<>>, f) \/ q \in Below(Append(<<>>, f))
      BY <1>1, <3>1, BelowIs
    <3>3. f = "size" \/ f = "inner"
      BY <1>2
    <3> QED  BY <1>21, <3>2, <3>3 DEF Size, Inner
  <2>2. /\ LostBlocks \subseteq Blocks(root) /\ Inner \in Blocks(root)
        /\ Size \in Blocks(root)
    BY <1>6 DEF LostBlocks
  <2>3. Below(Size) \subseteq Blocks(root) /\ Below(Inner) \subseteq Blocks(root)
    BY DEF Below
  <2> QED  BY <1>21, <2>1, <2>2, <2>3
<1>23. {Inner} \cap Debts(T) = {}
  <2>1. Inner \notin Below(Size) /\ Inner \notin Below(Inner)
    BY <1>8 DEF Below
  <2>2. Inner # Size
    BY <1>7, <1>8
  <2> QED  BY <1>21, <2>1, <2>2
<1>24. \A k \in 1 .. Len(T) : Frees(T[k]) /\ Boxes(T[k].at) \subseteq Blocks(root)
  <2>1. \A k \in 1 .. Len(T) : Frees(T[k])
    <3>1. 1 .. Len(T) = {1, 2, 3}
      BY <1>18
    <3> QED  BY <1>18, <1>19, <3>1
  <2> QED  BY <2>1 DEF Boxes
<1>25. Settled(T, Blocks(root), {Inner})
  BY <1>18, <1>20, <1>22, <1>23, <1>24 DEF Settled
<1>26. FreesAgain(s4)
  BY <1>16, <1>17 DEF FreesAgain
<1>27. Repeats(b, Blocks(root))
  BY <1>16, <1>25, <1>26 DEF Repeats
<1> QED  BY <1>13, <1>27 DEF b

-----------------------------------------------------------------------------
(* Printing: what a visitor writes, and what it leaves to others.             *)

Naming(s) ==
  s.do = "address" \/ (s.do \in {"write", "writef"} /\ s.what \notin Punctuation)
Opens(s) == s.do = "write" /\ s.what \in Opening
Closes(s) == s.do = "write" /\ s.what = ")"

(* A statement to do while a tree is printed.                                *)
Prints(s) ==
  /\ s.do \in {"call", "write", "writef", "address", "panic"}
  /\ s.do = "call" =>
       /\ s.at \in DOMAIN root /\ ~InType(s.at) /\ s.of \in Above(s.at)
       /\ Calls(s) /\ s.what \in Visited
  /\ s.do = "write" => s.what \in Pieces
  /\ s.do = "writef" => s.what \in Pieces \ Punctuation /\ s.len < AP_WRITEF_MAXSIZE
  /\ s.do = "panic" => Has("C_If")
  /\ Naming(s) =>
       /\ s.of \in Named
       /\ IF s.do = "address" THEN Shown(root[s.of]) = "anything"
          ELSE s.what = Shown(root[s.of])

(* Those of a visitor that is called for p, before they are placed.            *)
Marks(d) == d.do = "write" /\ d.what \in Punctuation
Tells(d, p) ==
  /\ p \in Named
  /\ \/ d.do = "write" /\ d.what = Shown(root[p])
     \/ d.do = "writef" /\ d.what = Shown(root[p]) /\ d.len < AP_WRITEF_MAXSIZE
     \/ d.do = "address" /\ Shown(root[p]) = "anything"
IsAsked(at, p, c) ==
  /\ at \in DOMAIN root /\ ~InType(at) /\ p \in Above(at) \ {at}
  /\ \/ root[at].type = c
     \/ IsIndexed(p) /\ at = Append(p, "data") /\ c = "C_Identifier"
Asks(d, p) == d.do = "call" /\ d.what \in Visited /\ IsAsked(p \o d.at, p, d.what)
GivesUp(d, p) == d.do = "panic" /\ root[p].type = "C_If"
Spoken(p) == {d \in Raw : Marks(d) \/ Tells(d, p) \/ Asks(d, p) \/ GivesUp(d, p)}

LEMMA RootsAre ==
  ASSUME root \in Roots
  PROVE  /\ IsTree(root) /\ root[<<>>].type \in Freed
         /\ Pieces \subseteq Char /\ Punctuation \subseteq Pieces
         /\ "anything" \in Pieces \ Punctuation
         /\ "<a very long string>" \in Pieces \ Punctuation
         /\ \A p \in DOMAIN root :
              /\ root[p].kind = "C_STRING" => TextLen[root[p].val] \in Nat
              /\ root[p].val # "" => Shown(root[p]) \in Pieces \ Punctuation
BY WalkAssumption

LEMMA SpokenPrints ==
  ASSUME root \in Roots, NEW p \in DOMAIN root, ~InType(p), NEW d \in Spoken(p),
         NEW s, s.do = d.do, s.what = d.what, s.of = p, s.at = p \o d.at, s.len = d.len
  PROVE  Prints(s) /\ (s.do = "call" => p \in Above(s.at) \ {s.at})
<1>1. p \in Named => Shown(root[p]) \in Pieces \ Punctuation
  BY RootsAre DEF Named
<1>2. CASE Marks(d)
  <2>1. s.what \in Pieces
    BY <1>2, RootsAre DEF Marks
  <2> QED  BY <1>2, <2>1 DEF Marks, Prints, Naming
<1>3. CASE Tells(d, p)
  BY <1>1, <1>3 DEF Tells, Prints, Naming
<1>4. CASE Asks(d, p)
  <2>1. s.do = "call" /\ s.what \in Visited /\ IsAsked(s.at, p, s.what)
    BY <1>4 DEF Asks
  <2>2. Calls(s)
    BY <2>1 DEF Calls, IsAsked, IsIndexed
  <2> QED  BY <2>1, <2>2 DEF IsAsked, Prints, Naming
<1>5. CASE GivesUp(d, p)
  <2>1. Has("C_If")
    BY <1>5 DEF GivesUp, Has
  <2> QED  BY <1>5, <2>1 DEF GivesUp, Prints, Naming
<1> QED  BY <1>2, <1>3, <1>4, <1>5 DEF Spoken

LEMMA PlacedPrints ==
  ASSUME root \in Roots, NEW p \in DOMAIN root, ~InType(p), NEW body \in Seq(Spoken(p)),
         NEW b, b = Placed(body, p)
  PROVE  /\ b \in Seq(Statement) /\ Len(b) = Len(body)
         /\ \A k \in 1 .. Len(b) :
              /\ Prints(b[k]) /\ b[k].of = p
              /\ b[k].do = "call" => p \in Above(b[k].at) \ {b[k].at}
              /\ b[k].do = body[k].do /\ b[k].what = body[k].what
              /\ b[k].at = p \o body[k].at
<1>1. p \in Seq(Fields)
  BY RootsAre, NodeIs
<1>2. body \in Seq(Raw) /\ \A k \in 1 .. Len(body) : body[k] \in Spoken(p)
  <2>1. Spoken(p) \subseteq Raw
    BY DEF Spoken
  <2> HIDE DEF Raw
  <2> QED  BY <2>1
<1>3. /\ b \in Seq(Statement) /\ Len(b) = Len(body)
      /\ \A k \in 1 .. Len(body) :
           /\ b[k].do = body[k].do /\ b[k].what = body[k].what
           /\ b[k].of = p /\ b[k].at = p \o body[k].at /\ b[k].len = body[k].len
  BY <1>1, <1>2, PlacedIs
<1>4. ASSUME NEW k \in 1 .. Len(body)
      PROVE  Prints(b[k]) /\ (b[k].do = "call" => p \in Above(b[k].at) \ {b[k].at})
  <2> DEFINE d == body[k]
             s == b[k]
  <2>1. /\ d \in Spoken(p) /\ s.do = d.do /\ s.what = d.what /\ s.of = p
        /\ s.at = p \o d.at /\ s.len = d.len
    BY <1>2, <1>3
  <2> HIDE DEF d, s
  <2>2. Prints(s) /\ (s.do = "call" => p \in Above(s.at) \ {s.at})
    BY <2>1, SpokenPrints
  <2> QED  BY <2>2 DEF s
<1> QED  BY <1>3, <1>4

LEMMA WriteIs ==
  ASSUME NEW do \in Deeds, NEW w \in Subjects, NEW n \in Int,
         NEW s, s = [do |-> do, what |-> w, of |-> <<>>, at |-> <<>>, len |-> n]
  PROVE  s \in Raw /\ s.do = do /\ s.what = w /\ s.len = n
<1> DEFINE nil == <<>>
<1>1. nil \in Seq(Fields) /\ nil \in {<<>>}
  BY NilIsPath, NilIs
<1>2. s = [do |-> do, what |-> w, of |-> nil, at |-> nil, len |-> n]
  OBVIOUS
<1> HIDE DEF nil
<1> QED  BY <1>1, <1>2 DEF Raw

LEMMA writeIs ==
  ASSUME NEW w \in Subjects
  PROVE  write(w) \in Raw /\ write(w).do = "write" /\ write(w).what = w
<1>1. "write" \in Deeds
  BY DEF Deeds
<1>2. write(w) = [do |-> "write", what |-> w, of |-> <<>>, at |-> <<>>, len |-> 0]
  BY DEF write, Do
<1> QED  BY <1>1, <1>2, WriteIs

LEMMA writefIs ==
  ASSUME NEW w \in Subjects, NEW n \in Int
  PROVE  /\ writef(w, n) \in Raw /\ writef(w, n).do = "writef"
         /\ writef(w, n).what = w /\ writef(w, n).len = n
<1>1. "writef" \in Deeds
  BY DEF Deeds
<1>2. writef(w, n) = [do |-> "writef", what |-> w, of |-> <<>>, at |-> <<>>, len |-> n]
  BY DEF writef, Do
<1> QED  BY <1>1, <1>2, WriteIs

LEMMA MarkIs ==
  ASSUME root \in Roots, NEW p, NEW w \in Punctuation
  PROVE  /\ write(w) \in Spoken(p) /\ write(w).do = "write" /\ ~Naming(write(w))
         /\ Opens(write(w)) <=> w \in Opening
         /\ Closes(write(w)) <=> w = ")"
<1>1. w \in Subjects
  BY RootsAre DEF Subjects
<1>2. write(w) \in Raw /\ write(w).do = "write" /\ write(w).what = w
  BY <1>1, writeIs
<1> QED  BY <1>2 DEF Spoken, Marks, Naming, Opens, Closes

LEMMA NameIs ==
  ASSUME root \in Roots, NEW p \in Named, Shown(root[p]) = root[p].val
  PROVE  LET w == root[p].val IN
         /\ write(w) \in Spoken(p) /\ write(w).do = "write" /\ Naming(write(w))
         /\ ~Opens(write(w)) /\ ~Closes(write(w))
<1> DEFINE w == root[p].val
<1>1. p \in DOMAIN root
  BY DEF Named
<1>2. w \in Subjects
  BY <1>1 DEF Subjects
<1>3. w \in Pieces \ Punctuation
  BY <1>1, RootsAre DEF Named
<1>4. write(w) \in Raw /\ write(w).do = "write" /\ write(w).what = w
  BY <1>2, writeIs
<1>5. Tells(write(w), p)
  BY <1>4 DEF Tells
<1>6. Naming(write(w)) /\ ~Opens(write(w)) /\ ~Closes(write(w))
  BY <1>3, <1>4 DEF Naming, Opens, Closes, Punctuation
<1> QED  BY <1>4, <1>5, <1>6 DEF Spoken

IsAsk(p, f, c) ==
  /\ root[p].type # "C_Type" /\ f \in root[p].has /\ c \in Visited
  /\ \/ root[Append(p, f)].type = c
     \/ IsIndexed(p) /\ f = "data" /\ c = "C_Identifier"

LEMMA AskIs ==
  ASSUME root \in Roots, NEW p \in DOMAIN root, ~InType(p), NEW f, NEW c, IsAsk(p, f, c)
  PROVE  LET d == Call(c, <<f>>) IN
         /\ d \in Spoken(p) /\ d.do = "call" /\ p \o d.at = Append(p, f)
         /\ ~Naming(d) /\ ~Opens(d) /\ ~Closes(d)
<1> DEFINE a == Append(p, f)
<1>1. IsTree(root) /\ root[p].type # "C_Type" /\ f \in root[p].has /\ c \in Visited
  BY RootsAre DEF IsAsk
<1>2. p \in Seq(Fields) /\ f \in Fields /\ a \in DOMAIN root
  BY <1>1, NodeIs
<1>3. c \in Freed
  BY <1>1 DEF Visited, Freed
<1>4. /\ Call(c, <<f>>) \in Raw /\ Call(c, <<f>>).do = "call"
      /\ Call(c, <<f>>).what = c /\ p \o Call(c, <<f>>).at = a
  BY <1>2, <1>3, StepIs
<1>5. ~InType(a) /\ p \in Above(a) \ {a}
  <2>1. ~InType(a)
    BY <1>1, InTypeIs
  <2>2. p \in Above(p)
    BY <1>2, AboveOrder
  <2>3. Above(a) = Above(p) \cup {a} /\ a # p
    BY <1>2, ChildIs
  <2> QED  BY <2>1, <2>2, <2>3
<1>6. root[a].type = c \/ (IsIndexed(p) /\ a = Append(p, "data") /\ c = "C_Identifier")
  BY DEF IsAsk
<1>7. IsAsked(a, p, c)
  BY <1>2, <1>5, <1>6 DEF IsAsked
<1>8. Asks(Call(c, <<f>>), p)
  BY <1>1, <1>4, <1>7 DEF Asks
<1>9. LET d == Call(c, <<f>>) IN ~Naming(d) /\ ~Opens(d) /\ ~Closes(d)
  BY <1>4 DEF Naming, Opens, Closes
<1> QED  BY <1>4, <1>8, <1>9 DEF Spoken

(* What is written of a node, in its order, is what its visitor names and     *)
(* what it leaves to others.                                                 *)
Zone(s) ==
  IF s.do = "call" THEN {q \in DOMAIN root : s.at \in Above(q)}
  ELSE IF s.do = "panic" THEN {q \in DOMAIN root : s.of \in Above(q)}
  ELSE IF Naming(s) THEN {s.of} ELSE {}
Left(q, r) ==
  \E m \in 1 .. Len(q) :
    /\ m <= Len(r) /\ SubSeq(q, 1, m - 1) = SubSeq(r, 1, m - 1) /\ LeftOf(q[m], r[m])
Pairs(b, j, k) ==
  /\ j < k /\ Opens(b[j]) /\ Closes(b[k])
  /\ \A i \in j + 1 .. k - 1 : ~Opens(b[i]) /\ ~Closes(b[i])
Balanced(b) ==
  \A k \in 1 .. Len(b) :
    /\ Closes(b[k]) => \E j \in 1 .. Len(b) : Pairs(b, j, k)
    /\ Opens(b[k]) => \E j \in 1 .. Len(b) : Pairs(b, k, j)
(* What is said of p: in order, of all below it, and with parentheses that match. *)
Said(b, p) ==
  /\ b \in Seq(Statement) /\ Balanced(b)
  /\ \A k \in 1 .. Len(b) :
       /\ Prints(b[k]) /\ b[k].of = p
       /\ b[k].do = "call" => p \in Above(b[k].at) \ {b[k].at}
  /\ \A j, k \in 1 .. Len(b) :
       j < k => \A q \in Zone(b[j]), r \in Zone(b[k]) : Precedes(q, r)
  /\ \A q \in Named : p \in Above(q) => \E k \in 1 .. Len(b) : q \in Zone(b[k])

(* The same of the statements of a visitor before they are placed.             *)
NamesFirst(body) ==
  /\ \A j, k \in 1 .. Len(body) :
       j < k /\ Naming(body[k]) => body[j].do # "call" /\ ~Naming(body[j])
  /\ \A k \in 1 .. Len(body) : body[k].do = "panic" => Len(body) = 1
AsksInOrder(body, p) ==
  \A j, k \in 1 .. Len(body) :
    j < k /\ body[j].do = "call" /\ body[k].do = "call" =>
      Left(p \o body[j].at, p \o body[k].at)
Covers(body, p) ==
  /\ p \in Named => \E k \in 1 .. Len(body) : Naming(body[k]) \/ body[k].do = "panic"
  /\ \A q \in Named :
       p \in Above(q) \ {q} =>
         \E k \in 1 .. Len(body) :
           \/ body[k].do = "call" /\ p \o body[k].at \in Above(q)
           \/ body[k].do = "panic"
Visits(body, p) ==
  /\ body \in Seq(Spoken(p)) /\ Balanced(body)
  /\ NamesFirst(body) /\ AsksInOrder(body, p) /\ Covers(body, p)

LEMMA AlikeBalanced ==
  ASSUME NEW b, NEW c, Len(b) = Len(c), Len(b) \in Nat, Balanced(c),
         \A k \in 1 .. Len(b) : b[k].do = c[k].do /\ b[k].what = c[k].what
  PROVE  Balanced(b)
<1>1. \A k \in 1 .. Len(b) : (Opens(b[k]) <=> Opens(c[k])) /\ (Closes(b[k]) <=> Closes(c[k]))
  BY DEF Opens, Closes
<1>2. \A j, k \in 1 .. Len(b) : Pairs(c, j, k) => Pairs(b, j, k)
  <2>1. SUFFICES ASSUME NEW j \in 1 .. Len(b), NEW k \in 1 .. Len(b), Pairs(c, j, k)
                 PROVE  Pairs(b, j, k)
    OBVIOUS
  <2>2. \A i \in j + 1 .. k - 1 : i \in 1 .. Len(b)
    OBVIOUS
  <2> QED  BY <1>1, <2>1, <2>2 DEF Pairs
<1>3. ASSUME NEW k \in 1 .. Len(b)
      PROVE  /\ Closes(b[k]) => \E j \in 1 .. Len(b) : Pairs(b, j, k)
             /\ Opens(b[k]) => \E j \in 1 .. Len(b) : Pairs(b, k, j)
  BY <1>1, <1>2, <1>3 DEF Balanced
<1> QED  BY <1>3 DEF Balanced

LEMMA LeftPrecedes ==
  ASSUME NEW a \in Seq(Fields), NEW b \in Seq(Fields), Left(a, b),
         NEW q \in Seq(Fields), NEW r \in Seq(Fields), a \in Above(q), b \in Above(r)
  PROVE  Precedes(q, r)
<1>1. PICK m \in 1 .. Len(a) :
        /\ m <= Len(b) /\ SubSeq(a, 1, m - 1) = SubSeq(b, 1, m - 1) /\ LeftOf(a[m], b[m])
  BY DEF Left
<1>2. /\ Len(a) \in Nat /\ Len(b) \in Nat /\ Len(q) \in Nat /\ Len(r) \in Nat
      /\ Len(a) <= Len(q) /\ \A i \in 1 .. Len(a) : a[i] = q[i]
      /\ Len(b) <= Len(r) /\ \A i \in 1 .. Len(b) : b[i] = r[i]
  BY AboveIs
<1>3. m \in 1 .. Len(q) /\ m <= Len(r) /\ m \in 1 .. Len(b)
  BY <1>1, <1>2
<1>4. LeftOf(q[m], r[m])
  BY <1>1, <1>2, <1>3
<1>5. SubSeq(q, 1, m - 1) = SubSeq(r, 1, m - 1)
  <2>1. SubSeq(q, 1, m - 1) = SubSeq(a, 1, m - 1)
    <3>1. m - 1 \in 0 .. Len(a) /\ m - 1 \in 0 .. Len(q)
      BY <1>2, <1>3
    <3>2. \A i \in 1 .. m - 1 : i \in 1 .. Len(a) /\ a[i] = q[i]
      BY <1>2
    <3> QED  BY <1>2, <3>1, <3>2
  <2>2. SubSeq(r, 1, m - 1) = SubSeq(b, 1, m - 1)
    <3>1. m - 1 \in 0 .. Len(b) /\ m - 1 \in 0 .. Len(r)
      BY <1>2, <1>3
    <3>2. \A i \in 1 .. m - 1 : i \in 1 .. Len(b) /\ b[i] = r[i]
      BY <1>2, <1>3
    <3> QED  BY <1>2, <3>1, <3>2
  <2> QED  BY <1>1, <2>1, <2>2
<1> QED  BY <1>3, <1>4, <1>5 DEF Precedes

LEMMA BelowPrecedes ==
  ASSUME NEW p \in Seq(Fields), NEW a \in Seq(Fields), p \in Above(a) \ {a},
         NEW q \in Seq(Fields), a \in Above(q)
  PROVE  Precedes(p, q)
<1>1. p \in Above(q)
  BY AboveOrder
<1>2. p # q
  <2>1. /\ Len(p) \in Nat /\ Len(a) \in Nat /\ Len(p) <= Len(a) /\ Len(a) <= Len(q)
    BY AboveIs
  <2>2. Len(p) # Len(a)
    BY AboveOrder
  <2> QED  BY <2>1, <2>2
<1> QED  BY <1>1, <1>2 DEF Precedes

LEMMA VisitsSaid ==
  ASSUME root \in Roots, NEW p \in DOMAIN root, ~InType(p), NEW body, Visits(body, p),
         NEW b, b = Placed(body, p)
  PROVE  Said(b, p)
<1>1. /\ body \in Seq(Spoken(p)) /\ Balanced(body)
      /\ NamesFirst(body) /\ AsksInOrder(body, p) /\ Covers(body, p)
  BY DEF Visits
<1>2. /\ b \in Seq(Statement) /\ Len(b) = Len(body)
      /\ \A k \in 1 .. Len(b) :
           /\ Prints(b[k]) /\ b[k].of = p
           /\ b[k].do = "call" => p \in Above(b[k].at) \ {b[k].at}
           /\ b[k].do = body[k].do /\ b[k].what = body[k].what
           /\ b[k].at = p \o body[k].at
  BY <1>1, PlacedPrints
<1>3. Len(b) \in Nat
  BY <1>2
<1>4. Balanced(b)
  BY <1>1, <1>2, <1>3, AlikeBalanced
<1>5. IsTree(root) /\ p \in Seq(Fields) /\ \A q \in DOMAIN root : q \in Seq(Fields)
  BY RootsAre, NodeIs
<1>6. \A k \in 1 .. Len(b) : Naming(b[k]) <=> Naming(body[k])
  BY <1>2 DEF Naming
<1>7. ASSUME NEW j \in 1 .. Len(b), NEW k \in 1 .. Len(b), j < k,
             NEW q \in Zone(b[j]), NEW r \in Zone(b[k])
      PROVE  Precedes(q, r)
  <2> DEFINE s == b[j]
             t == b[k]
  <2>1. /\ s.of = p /\ Prints(s) /\ s.do = body[j].do /\ s.at = p \o body[j].at
        /\ t.of = p /\ Prints(t) /\ t.do = body[k].do /\ t.at = p \o body[k].at
        /\ t.do = "call" => p \in Above(t.at) \ {t.at}
        /\ Naming(s) <=> Naming(body[j])
        /\ Naming(t) <=> Naming(body[k])
    BY <1>2, <1>6
  <2>2. s.do # "panic" /\ t.do # "panic"
    <3>1. Len(b) # 1 /\ j \in 1 .. Len(body) /\ k \in 1 .. Len(body)
      BY <1>2, <1>3, <1>7
    <3> QED  BY <1>1, <1>2, <2>1, <3>1 DEF NamesFirst
  <2>3. Naming(t) => s.do # "call" /\ ~Naming(s)
    <3>1. j \in 1 .. Len(body) /\ k \in 1 .. Len(body)
      BY <1>2
    <3> QED  BY <1>1, <1>7, <2>1, <3>1 DEF NamesFirst
  <2>4. s.do = "call" /\ t.do = "call" => Left(s.at, t.at)
    <3>1. j \in 1 .. Len(body) /\ k \in 1 .. Len(body)
      BY <1>2
    <3> QED  BY <1>1, <1>7, <2>1, <3>1 DEF AsksInOrder
  <2>5. q \in Zone(s) /\ r \in Zone(t)
    BY <1>7
  <2> HIDE DEF s, t
  <2>6. CASE s.do = "call"
    <3>1. ~Naming(t)
      BY <2>3, <2>6
    <3>2. t.do = "call"
      BY <2>2, <2>5, <3>1 DEF Zone
    <3>3. Left(s.at, t.at)
      BY <2>4, <2>6, <3>2
    <3>4. /\ q \in DOMAIN root /\ s.at \in Above(q) /\ r \in DOMAIN root
          /\ t.at \in Above(r)
      BY <2>5, <2>6, <3>2 DEF Zone
    <3>5. s.at \in DOMAIN root /\ t.at \in DOMAIN root
      BY <2>1, <2>6, <3>2 DEF Prints
    <3> QED  BY <1>5, <3>3, <3>4, <3>5, LeftPrecedes
  <2>7. CASE s.do # "call"
    <3>1. Naming(s) /\ q = p
      BY <2>1, <2>2, <2>5, <2>7 DEF Zone
    <3>2. ~Naming(t)
      BY <2>3, <3>1
    <3>3. t.do = "call"
      BY <2>2, <2>5, <3>2 DEF Zone
    <3>4. r \in DOMAIN root /\ t.at \in Above(r) /\ t.at \in DOMAIN root
          /\ p \in Above(t.at) \ {t.at}
      BY <2>1, <2>5, <3>3 DEF Zone, Prints
    <3> QED  BY <1>5, <3>1, <3>4, BelowPrecedes
  <2> QED  BY <2>6, <2>7
<1>8. ASSUME NEW q \in Named, p \in Above(q)
      PROVE  \E k \in 1 .. Len(b) : q \in Zone(b[k])
  <2>1. q \in DOMAIN root
    BY DEF Named
  <2>2. ASSUME NEW k \in 1 .. Len(body), body[k].do = "panic"
        PROVE  q \in Zone(b[k])
    BY <1>2, <1>8, <2>1, <2>2 DEF Zone
  <2>3. CASE q = p
    <3>1. PICK k \in 1 .. Len(body) : Naming(body[k]) \/ body[k].do = "panic"
      BY <1>1, <1>8, <2>3 DEF Covers
    <3>2. CASE Naming(body[k])
      <4>1. Naming(b[k]) /\ b[k].of = p
        BY <1>2, <1>6, <3>2
      <4>2. p \in Zone(b[k])
        BY <4>1 DEF Zone, Naming
      <4> QED  BY <1>2, <2>3, <4>2
    <3> QED  BY <1>2, <2>2, <3>1, <3>2
  <2>4. CASE q # p
    <3>1. PICK k \in 1 .. Len(body) :
            \/ body[k].do = "call" /\ p \o body[k].at \in Above(q)
            \/ body[k].do = "panic"
      BY <1>1, <1>8, <2>4 DEF Covers
    <3>2. CASE body[k].do = "call" /\ p \o body[k].at \in Above(q)
      <4>1. b[k].do = "call" /\ b[k].at \in Above(q)
        BY <1>2, <3>2
      <4> QED  BY <1>2, <2>1, <4>1 DEF Zone
    <3> QED  BY <1>2, <2>2, <3>1, <3>2
  <2> QED  BY <2>3, <2>4
<1> QED  BY <1>2, <1>4, <1>7, <1>8 DEF Said

(* What opens, and what closes, only once.                                   *)
LEMMA OneBalances ==
  ASSUME NEW b, NEW n \in Nat, Len(b) = n, NEW a \in 1 .. n, NEW z \in 1 .. n, a < z,
         Opens(b[a]), Closes(b[z]),
         \A k \in 1 .. n : (Opens(b[k]) => k = a) /\ (Closes(b[k]) => k = z)
  PROVE  Balanced(b)
<1>1. Pairs(b, a, z)
  <2>1. \A i \in a + 1 .. z - 1 : i \in 1 .. n /\ i # a /\ i # z
    OBVIOUS
  <2> QED  BY <2>1 DEF Pairs
<1> QED  BY <1>1 DEF Balanced

LEMMA NoneBalances ==
  ASSUME NEW b, \A k \in 1 .. Len(b) : ~Opens(b[k]) /\ ~Closes(b[k])
  PROVE  Balanced(b)
BY DEF Balanced

LEMMA FiveOf ==
  ASSUME NEW S, NEW a \in S, NEW b \in S, NEW c \in S, NEW d \in S, NEW e \in S
  PROVE  LET t == <<a, b, c, d, e>> IN
         t \in Seq(S) /\ Len(t) = 5 /\ t[1] = a /\ t[2] = b /\ t[3] = c /\ t[4] = d /\ t[5] = e
OBVIOUS

LEMMA SixOf ==
  ASSUME NEW S, NEW a \in S, NEW b \in S, NEW c \in S, NEW d \in S, NEW e \in S, NEW g \in S
  PROVE  LET t == <<a, b, c, d, e, g>> IN
         /\ t \in Seq(S) /\ Len(t) = 6
         /\ t[1] = a /\ t[2] = b /\ t[3] = c /\ t[4] = d /\ t[5] = e /\ t[6] = g
OBVIOUS

(* A node of two members, that are written between parentheses.               *)
Pair(open, f, c, sep, g, d) ==
  <<write(open), Call(c, <<f>>), write(sep), Call(d, <<g>>), write(")")>>

IsPair(p, open, f, c, sep, g, d) ==
  /\ root[p].type # "C_Type" /\ root[p].has = {f, g}
  /\ c \in Visited /\ Members(root[p])[f] = {c}
  /\ d \in Visited /\ Members(root[p])[g] = {d}
  /\ open \in Opening /\ sep \in Punctuation \ (Opening \cup {")"})
  /\ LeftOf(f, g)

LEMMA UpToFive == \A k \in 1 .. 5 : k \in {1, 2, 3, 4, 5}
OBVIOUS

LEMMA UpToSix == \A k \in 1 .. 6 : k \in {1, 2, 3, 4, 5, 6}
OBVIOUS

LEMMA ChildrenAreLeft ==
  ASSUME NEW p \in Seq(Fields), NEW f \in Fields, NEW g \in Fields, LeftOf(f, g)
  PROVE  Left(Append(p, f), Append(p, g))
<1> DEFINE q == Append(p, f)
           r == Append(p, g)
           m == Len(p) + 1
<1>1. /\ q \in Seq(Fields) /\ Len(q) = m /\ q[m] = f
      /\ r \in Seq(Fields) /\ Len(r) = m /\ r[m] = g /\ Len(p) \in Nat
      /\ Owner(q) = p /\ Owner(r) = p
  <2>1. q \in Seq(Fields) /\ Len(q) = m /\ q[m] = f /\ Owner(q) = p
    BY ChildIs
  <2>2. r \in Seq(Fields) /\ Len(r) = m /\ r[m] = g /\ Owner(r) = p
    BY ChildIs
  <2>3. Len(p) \in Nat
    OBVIOUS
  <2> QED  BY <2>1, <2>2, <2>3
<1>2. SubSeq(q, 1, m - 1) = p /\ SubSeq(r, 1, m - 1) = p
  BY <1>1 DEF Owner
<1> HIDE DEF q, r
<1>3. m \in 1 .. Len(q) /\ m <= Len(r)
  BY <1>1
<1> QED  BY <1>1, <1>2, <1>3 DEF Left, q, r

LEMMA PairVisits ==
  ASSUME root \in Roots, NEW p \in DOMAIN root, ~InType(p), p \notin Named,
         NEW open, NEW f, NEW c, NEW sep, NEW g, NEW d, IsPair(p, open, f, c, sep, g, d)
  PROVE  Visits(Pair(open, f, c, sep, g, d), p)
<1> DEFINE b == Pair(open, f, c, sep, g, d)
           s1 == write(open)
           s2 == Call(c, <<f>>)
           s3 == write(sep)
           s4 == Call(d, <<g>>)
           s5 == write(")")
<1>1. IsTree(root) /\ p \in Seq(Fields) /\ root[p].has \subseteq Fields
  BY RootsAre, NodeIs
<1>2. /\ s2 \in Spoken(p) /\ s2.do = "call" /\ p \o s2.at = Append(p, f)
      /\ ~Naming(s2) /\ ~Opens(s2) /\ ~Closes(s2)
  <2>1. IsAsk(p, f, c)
    BY <1>1, MemberIs DEF IsPair, IsAsk
  <2> QED  BY <2>1, AskIs
<1>3. /\ s4 \in Spoken(p) /\ s4.do = "call" /\ p \o s4.at = Append(p, g)
      /\ ~Naming(s4) /\ ~Opens(s4) /\ ~Closes(s4)
  <2>1. IsAsk(p, g, d)
    BY <1>1, MemberIs DEF IsPair, IsAsk
  <2> QED  BY <2>1, AskIs
<1>4. /\ open \in Punctuation /\ sep \in Punctuation /\ ")" \in Punctuation
      /\ open \in Opening /\ open # ")" /\ sep \notin Opening /\ sep # ")"
      /\ ")" \notin Opening
  BY DEF Punctuation, Opening, IsPair
<1>5. s1 \in Spoken(p) /\ s1.do = "write" /\ ~Naming(s1) /\ Opens(s1) /\ ~Closes(s1)
  BY <1>4, MarkIs
<1>6. s3 \in Spoken(p) /\ s3.do = "write" /\ ~Naming(s3) /\ ~Opens(s3) /\ ~Closes(s3)
  BY <1>4, MarkIs
<1>7. s5 \in Spoken(p) /\ s5.do = "write" /\ ~Naming(s5) /\ ~Opens(s5) /\ Closes(s5)
  BY <1>4, MarkIs
<1>8. b = <<s1, s2, s3, s4, s5>>
  BY DEF Pair
<1> HIDE DEF b, s1, s2, s3, s4, s5
<1>9. /\ b \in Seq(Spoken(p)) /\ Len(b) = 5
      /\ b[1] = s1 /\ b[2] = s2 /\ b[3] = s3 /\ b[4] = s4 /\ b[5] = s5
  BY <1>2, <1>3, <1>5, <1>6, <1>7, <1>8, FiveOf
<1>10. ASSUME NEW k \in 1 .. 5
       PROVE  /\ ~Naming(b[k]) /\ b[k].do # "panic"
              /\ b[k].do = "call" => k \in {2, 4}
              /\ (Opens(b[k]) => k = 1) /\ (Closes(b[k]) => k = 5)
  BY <1>2, <1>3, <1>5, <1>6, <1>7, <1>9, UpToFive
<1>11. Balanced(b)
  <2>1. Opens(b[1]) /\ Closes(b[5])
    BY <1>5, <1>7, <1>9
  <2>2. 1 \in 1 .. 5 /\ 5 \in 1 .. 5 /\ 1 < 5 /\ 5 \in Nat
    OBVIOUS
  <2> QED  BY <1>9, <1>10, <2>1, <2>2, OneBalances
<1>12. NamesFirst(b)
  BY <1>9, <1>10 DEF NamesFirst
<1>13. AsksInOrder(b, p)
  <2>1. Left(Append(p, f), Append(p, g))
    BY <1>1, ChildrenAreLeft DEF IsPair
  <2>2. ASSUME NEW j \in 1 .. 5, NEW k \in 1 .. 5, j < k, b[j].do = "call", b[k].do = "call"
        PROVE  Left(p \o b[j].at, p \o b[k].at)
    <3>1. j = 2 /\ k = 4
      BY <1>10, <2>2
    <3> QED  BY <1>2, <1>3, <1>9, <2>1, <3>1
  <2> QED  BY <1>9, <2>2 DEF AsksInOrder
<1>14. Covers(b, p)
  <2>1. ASSUME NEW q \in Named, p \in Above(q) \ {q}
        PROVE  \E k \in 1 .. Len(b) : b[k].do = "call" /\ p \o b[k].at \in Above(q)
    <3>1. q \in DOMAIN root
      BY DEF Named
    <3>2. PICK h \in root[p].has : Append(p, h) \in Above(q)
      BY <1>1, <2>1, <3>1, ChildOnTheWay
    <3>3. CASE h = f
      <4>1. b[2].do = "call" /\ p \o b[2].at \in Above(q)
        BY <1>2, <1>9, <3>2, <3>3
      <4>2. 2 \in 1 .. Len(b)
        BY <1>9
      <4> QED  BY <4>1, <4>2
    <3>4. CASE h = g
      <4>1. b[4].do = "call" /\ p \o b[4].at \in Above(q)
        BY <1>3, <1>9, <3>2, <3>4
      <4>2. 4 \in 1 .. Len(b)
        BY <1>9
      <4> QED  BY <4>1, <4>2
    <3> QED  BY <3>2, <3>3, <3>4 DEF IsPair
  <2> QED  BY <2>1 DEF Covers
<1> QED  BY <1>9, <1>11, <1>12, <1>13, <1>14 DEF Visits, b

LEMMA PairsVisit ==
  ASSUME root \in Roots, NEW p \in DOMAIN root, ~InType(p),
         root[p].type \in {"C_ArrayType", "C_ArrayIndex", "C_FunctionArgument",
                           "C_FnCall", "C_Assign"}
  PROVE  Visits(VisitBody(root[p].type, root[p]), p)
<1>0. p \notin Named
  BY RootsAre, NodeIs DEF IsStruct, Named
<1>1. root[p].has = DOMAIN Members(root[p]) /\ root[p].type # "C_Type"
  BY RootsAre, HasIs
<1>2. CASE root[p].type = "C_ArrayType"
  <2>1. /\ root[p].has = {"size", "inner"}
        /\ Members(root[p])["size"] = {"C_Expr"} /\ Members(root[p])["inner"] = {"C_Type"}
    BY <1>1, <1>2, MembersAre
  <2>2. VisitBody(root[p].type, root[p])
          = Pair("array_type(", "size", "C_Expr", ", ", "inner", "C_Type")
    BY <1>2 DEF VisitBody, ap_visit_array_type, Pair
  <2>3. IsPair(p, "array_type(", "size", "C_Expr", ", ", "inner", "C_Type")
    BY <1>1, <2>1 DEF IsPair, Visited, Opening, Punctuation, LeftOf
  <2> QED  BY <2>2, <2>3, <1>0, PairVisits
<1>3. CASE root[p].type = "C_ArrayIndex"
  <2>1. /\ root[p].has = {"ident", "index"}
        /\ Members(root[p])["ident"] = {"C_Expr"} /\ Members(root[p])["index"] = {"C_Expr"}
    BY <1>1, <1>3, MembersAre
  <2>2. VisitBody(root[p].type, root[p])
          = Pair("array_index(", "ident", "C_Expr", ", ", "index", "C_Expr")
    BY <1>3 DEF VisitBody, ap_visit_array_index, Pair
  <2>3. IsPair(p, "array_index(", "ident", "C_Expr", ", ", "index", "C_Expr")
    BY <1>1, <2>1 DEF IsPair, Visited, Opening, Punctuation, LeftOf
  <2> QED  BY <2>2, <2>3, <1>0, PairVisits
<1>4. CASE root[p].type = "C_FunctionArgument"
  <2>1. /\ root[p].has = {"ident", "type"}
        /\ Members(root[p])["ident"] = {"C_Identifier"}
        /\ Members(root[p])["type"] = {"C_Type"}
    BY <1>1, <1>4, MembersAre
  <2>2. VisitBody(root[p].type, root[p])
          = Pair("(", "ident", "C_Identifier", ": ", "type", "C_Type")
    BY <1>4 DEF VisitBody, ap_visit_fn_argument, Pair
  <2>3. IsPair(p, "(", "ident", "C_Identifier", ": ", "type", "C_Type")
    BY <1>1, <2>1 DEF IsPair, Visited, Opening, Punctuation, LeftOf
  <2> QED  BY <2>2, <2>3, <1>0, PairVisits
<1>5. CASE root[p].type = "C_FnCall"
  <2>1. /\ root[p].has = {"ident", "args"}
        /\ Members(root[p])["ident"] = {"C_Identifier"}
        /\ Members(root[p])["args"] = {"C_ArgumentList"}
    BY <1>1, <1>5, MembersAre
  <2>2. VisitBody(root[p].type, root[p])
          = Pair("fn_call(", "ident", "C_Identifier", ", ", "args", "C_ArgumentList")
    BY <1>5 DEF VisitBody, ap_visit_fn_call, Pair
  <2>3. IsPair(p, "fn_call(", "ident", "C_Identifier", ", ", "args", "C_ArgumentList")
    BY <1>1, <2>1 DEF IsPair, Visited, Opening, Punctuation, LeftOf
  <2> QED  BY <2>2, <2>3, <1>0, PairVisits
<1>6. CASE root[p].type = "C_Assign"
  <2>1. /\ root[p].has = {"lhs", "rhs"}
        /\ Members(root[p])["lhs"] = {"C_Lvalue"} /\ Members(root[p])["rhs"] = {"C_Expr"}
    BY <1>1, <1>6, MembersAre
  <2>2. VisitBody(root[p].type, root[p])
          = Pair("lvalue(", "lhs", "C_Lvalue", ", ", "rhs", "C_Expr")
    BY <1>6 DEF VisitBody, ap_visit_assign, Pair
  <2>3. IsPair(p, "lvalue(", "lhs", "C_Lvalue", ", ", "rhs", "C_Expr")
    BY <1>1, <2>1 DEF IsPair, Visited, Opening, Punctuation, LeftOf
  <2> QED  BY <2>2, <2>3, <1>0, PairVisits
<1> QED  BY <1>2, <1>3, <1>4, <1>5, <1>6

LEMMA ChildBelow ==
  ASSUME root \in Roots, NEW p, NEW q \in Named, p \in Above(q) \ {q}
  PROVE  p \in DOMAIN root /\ \E h \in root[p].has : Append(p, h) \in Above(q)
BY RootsAre, ChildOnTheWay DEF Named

(* An operator with both its sides.                                          *)
Operation(v, open, f, c, sep, g, d) ==
  <<write(v), write(open), Call(c, <<f>>), write(sep), Call(d, <<g>>), write(")")>>

LEMMA OperationVisits ==
  ASSUME root \in Roots, NEW p \in DOMAIN root, ~InType(p), p \in Named,
         NEW v, v = root[p].val, Shown(root[p]) = v,
         NEW open, NEW f, NEW c, NEW sep, NEW g, NEW d, IsPair(p, open, f, c, sep, g, d)
  PROVE  Visits(Operation(v, open, f, c, sep, g, d), p)
<1> DEFINE b == Operation(v, open, f, c, sep, g, d)
           s0 == write(v)
           s1 == write(open)
           s2 == Call(c, <<f>>)
           s3 == write(sep)
           s4 == Call(d, <<g>>)
           s5 == write(")")
<1>1. IsTree(root) /\ p \in Seq(Fields) /\ root[p].has \subseteq Fields
  BY RootsAre, NodeIs
<1>2. /\ s2 \in Spoken(p) /\ s2.do = "call" /\ p \o s2.at = Append(p, f)
      /\ ~Naming(s2) /\ ~Opens(s2) /\ ~Closes(s2)
  <2>1. IsAsk(p, f, c)
    BY <1>1, MemberIs DEF IsPair, IsAsk
  <2> QED  BY <2>1, AskIs
<1>3. /\ s4 \in Spoken(p) /\ s4.do = "call" /\ p \o s4.at = Append(p, g)
      /\ ~Naming(s4) /\ ~Opens(s4) /\ ~Closes(s4)
  <2>1. IsAsk(p, g, d)
    BY <1>1, MemberIs DEF IsPair, IsAsk
  <2> QED  BY <2>1, AskIs
<1>4. /\ open \in Punctuation /\ sep \in Punctuation /\ ")" \in Punctuation
      /\ open \in Opening /\ open # ")" /\ sep \notin Opening /\ sep # ")"
      /\ ")" \notin Opening
  BY DEF Punctuation, Opening, IsPair
<1>5. s1 \in Spoken(p) /\ s1.do = "write" /\ ~Naming(s1) /\ Opens(s1) /\ ~Closes(s1)
  BY <1>4, MarkIs
<1>6. s3 \in Spoken(p) /\ s3.do = "write" /\ ~Naming(s3) /\ ~Opens(s3) /\ ~Closes(s3)
  BY <1>4, MarkIs
<1>7. s5 \in Spoken(p) /\ s5.do = "write" /\ ~Naming(s5) /\ ~Opens(s5) /\ Closes(s5)
  BY <1>4, MarkIs
<1>8. s0 \in Spoken(p) /\ s0.do = "write" /\ Naming(s0) /\ ~Opens(s0) /\ ~Closes(s0)
  BY NameIs
<1>9. b = <<s0, s1, s2, s3, s4, s5>>
  BY DEF Operation
<1> HIDE DEF b, s0, s1, s2, s3, s4, s5
<1>10. /\ b \in Seq(Spoken(p)) /\ Len(b) = 6
       /\ b[1] = s0 /\ b[2] = s1 /\ b[3] = s2 /\ b[4] = s3 /\ b[5] = s4 /\ b[6] = s5
  BY <1>2, <1>3, <1>5, <1>6, <1>7, <1>8, <1>9, SixOf
<1>11. ASSUME NEW k \in 1 .. 6
       PROVE  /\ (Naming(b[k]) => k = 1) /\ b[k].do # "panic"
              /\ b[k].do = "call" => k \in {3, 5}
              /\ (Opens(b[k]) => k = 2) /\ (Closes(b[k]) => k = 6)
  BY <1>2, <1>3, <1>5, <1>6, <1>7, <1>8, <1>10, UpToSix
<1>12. Balanced(b)
  <2>1. Opens(b[2]) /\ Closes(b[6])
    BY <1>5, <1>7, <1>10
  <2>2. 2 \in 1 .. 6 /\ 6 \in 1 .. 6 /\ 2 < 6 /\ 6 \in Nat
    OBVIOUS
  <2> QED  BY <1>10, <1>11, <2>1, <2>2, OneBalances
<1>13. NamesFirst(b)
  <2>1. \A j, k \in 1 .. 6 : ~(j < k /\ k = 1)
    OBVIOUS
  <2> QED  BY <1>10, <1>11, <2>1 DEF NamesFirst
<1>14. AsksInOrder(b, p)
  <2>1. Left(Append(p, f), Append(p, g))
    BY <1>1, ChildrenAreLeft DEF IsPair
  <2>2. ASSUME NEW j \in 1 .. 6, NEW k \in 1 .. 6, j < k, b[j].do = "call", b[k].do = "call"
        PROVE  Left(p \o b[j].at, p \o b[k].at)
    <3>1. j = 3 /\ k = 5
      BY <1>11, <2>2
    <3> QED  BY <1>2, <1>3, <1>10, <2>1, <3>1
  <2> QED  BY <1>10, <2>2 DEF AsksInOrder
<1>15. Covers(b, p)
  <2>1. ASSUME NEW q \in Named, p \in Above(q) \ {q}
        PROVE  \E k \in 1 .. Len(b) : b[k].do = "call" /\ p \o b[k].at \in Above(q)
    <3>1. PICK h \in root[p].has : Append(p, h) \in Above(q)
      BY <2>1, ChildBelow
    <3>2. CASE h = f
      <4>1. b[3].do = "call" /\ p \o b[3].at \in Above(q)
        BY <1>2, <1>10, <3>1, <3>2
      <4>2. 3 \in 1 .. Len(b)
        BY <1>10
      <4> QED  BY <4>1, <4>2
    <3>3. CASE h = g
      <4>1. b[5].do = "call" /\ p \o b[5].at \in Above(q)
        BY <1>3, <1>10, <3>1, <3>3
      <4>2. 5 \in 1 .. Len(b)
        BY <1>10
      <4> QED  BY <4>1, <4>2
    <3> QED  BY <3>1, <3>2, <3>3 DEF IsPair
  <2>2. 1 \in 1 .. Len(b) /\ Naming(b[1])
    <3>1. 1 \in 1 .. Len(b)
      BY <1>10
    <3> QED  BY <1>8, <1>10, <3>1
  <2> QED  BY <2>1, <2>2 DEF Covers
<1> QED  BY <1>10, <1>12, <1>13, <1>14, <1>15 DEF Visits, b

(* An operator with one.                                                     *)
LEMMA UpToFour == \A k \in 1 .. 4 : k \in {1, 2, 3, 4}
OBVIOUS

Prefix(v, f, c) == <<write(v), write("("), Call(c, <<f>>), write(")")>>
IsOnly(p, f, c) == root[p].has = {f} /\ IsAsk(p, f, c)

LEMMA PrefixVisits ==
  ASSUME root \in Roots, NEW p \in DOMAIN root, ~InType(p), p \in Named,
         NEW v, v = root[p].val, Shown(root[p]) = v,
         NEW f, NEW c, IsOnly(p, f, c)
  PROVE  Visits(Prefix(v, f, c), p)
<1> DEFINE b == Prefix(v, f, c)
           s0 == write(v)
           s1 == write("(")
           s2 == Call(c, <<f>>)
           s3 == write(")")
<1>1. root[p].has = {f}
  BY DEF IsOnly
<1>2. /\ s2 \in Spoken(p) /\ s2.do = "call" /\ p \o s2.at = Append(p, f)
      /\ ~Naming(s2) /\ ~Opens(s2) /\ ~Closes(s2)
  BY AskIs DEF IsOnly
<1>3. /\ "(" \in Punctuation /\ "(" \in Opening /\ "(" # ")"
      /\ ")" \in Punctuation /\ ")" \notin Opening
  BY DEF Punctuation, Opening
<1>4. s1 \in Spoken(p) /\ s1.do = "write" /\ ~Naming(s1) /\ Opens(s1) /\ ~Closes(s1)
  BY <1>3, MarkIs
<1>5. s3 \in Spoken(p) /\ s3.do = "write" /\ ~Naming(s3) /\ ~Opens(s3) /\ Closes(s3)
  BY <1>3, MarkIs
<1>6. s0 \in Spoken(p) /\ s0.do = "write" /\ Naming(s0) /\ ~Opens(s0) /\ ~Closes(s0)
  BY NameIs
<1>7. b = <<s0, s1, s2, s3>>
  BY DEF Prefix
<1> HIDE DEF b, s0, s1, s2, s3
<1>8. /\ b \in Seq(Spoken(p)) /\ Len(b) = 4
      /\ b[1] = s0 /\ b[2] = s1 /\ b[3] = s2 /\ b[4] = s3
  BY <1>2, <1>4, <1>5, <1>6, <1>7, FourOf
<1>9. ASSUME NEW k \in 1 .. 4
      PROVE  /\ (Naming(b[k]) => k = 1) /\ b[k].do # "panic"
             /\ b[k].do = "call" => k = 3
             /\ (Opens(b[k]) => k = 2) /\ (Closes(b[k]) => k = 4)
  BY <1>2, <1>4, <1>5, <1>6, <1>8, UpToFour
<1>10. Balanced(b)
  <2>1. Opens(b[2]) /\ Closes(b[4])
    BY <1>4, <1>5, <1>8
  <2>2. 2 \in 1 .. 4 /\ 4 \in 1 .. 4 /\ 2 < 4 /\ 4 \in Nat
    OBVIOUS
  <2> QED  BY <1>8, <1>9, <2>1, <2>2, OneBalances
<1>11. NamesFirst(b)
  <2>1. \A j, k \in 1 .. 4 : ~(j < k /\ k = 1)
    OBVIOUS
  <2> QED  BY <1>8, <1>9, <2>1 DEF NamesFirst
<1>12. AsksInOrder(b, p)
  <2>1. \A j, k \in 1 .. 4 : ~(j < k /\ j = 3 /\ k = 3)
    OBVIOUS
  <2> QED  BY <1>8, <1>9, <2>1 DEF AsksInOrder
<1>13. Covers(b, p)
  <2>1. ASSUME NEW q \in Named, p \in Above(q) \ {q}
        PROVE  \E k \in 1 .. Len(b) : b[k].do = "call" /\ p \o b[k].at \in Above(q)
    <3>1. Append(p, f) \in Above(q)
      BY <1>1, <2>1, ChildBelow
    <3>2. b[3].do = "call" /\ p \o b[3].at \in Above(q)
      BY <1>2, <1>8, <3>1
    <3>3. 3 \in 1 .. Len(b)
      BY <1>8
    <3> QED  BY <3>2, <3>3
  <2>2. 1 \in 1 .. Len(b) /\ Naming(b[1])
    <3>1. 1 \in 1 .. Len(b)
      BY <1>8
    <3> QED  BY <1>6, <1>8, <3>1
  <2> QED  BY <2>1, <2>2 DEF Covers
<1> QED  BY <1>8, <1>10, <1>11, <1>12, <1>13 DEF Visits, b

(* A name in quotes.                                                         *)
IsTip(p) == \A q \in Named : p \notin Above(q) \ {q}
Quoted(v) == <<write("\""), write(v), write("\"")>>

LEMMA UpToThree == \A k \in 1 .. 3 : k \in {1, 2, 3}
OBVIOUS

LEMMA QuotedVisits ==
  ASSUME root \in Roots, NEW p \in Named, IsTip(p),
         NEW v, v = root[p].val, Shown(root[p]) = v
  PROVE  Visits(Quoted(v), p)
<1> DEFINE b == Quoted(v)
           s0 == write(v)
           s1 == write("\"")
<1>1. /\ "\"" \in Punctuation /\ "\"" \notin Opening /\ "\"" # ")"
  BY DEF Punctuation, Opening
<1>2. s1 \in Spoken(p) /\ s1.do = "write" /\ ~Naming(s1) /\ ~Opens(s1) /\ ~Closes(s1)
  BY <1>1, MarkIs
<1>3. s0 \in Spoken(p) /\ s0.do = "write" /\ Naming(s0) /\ ~Opens(s0) /\ ~Closes(s0)
  BY NameIs
<1>4. b = <<s1, s0, s1>>
  BY DEF Quoted
<1> HIDE DEF b, s0, s1
<1>5. b \in Seq(Spoken(p)) /\ Len(b) = 3 /\ b[1] = s1 /\ b[2] = s0 /\ b[3] = s1
  BY <1>2, <1>3, <1>4, ThreeOf
<1>6. ASSUME NEW k \in 1 .. 3
      PROVE  /\ (Naming(b[k]) => k = 2) /\ b[k].do = "write"
             /\ ~Opens(b[k]) /\ ~Closes(b[k])
  BY <1>2, <1>3, <1>5, UpToThree
<1>7. Balanced(b)
  BY <1>5, <1>6, NoneBalances
<1>8. NamesFirst(b)
  <2>1. \A j, k \in 1 .. 3 : ~(j < k /\ j = 2 /\ k = 2)
    OBVIOUS
  <2> QED  BY <1>5, <1>6, <2>1 DEF NamesFirst
<1>9. AsksInOrder(b, p)
  BY <1>5, <1>6 DEF AsksInOrder
<1>10. Covers(b, p)
  <2>1. 2 \in 1 .. Len(b)
    BY <1>5
  <2>2. Naming(b[2])
    BY <1>3, <1>5
  <2> QED  BY <2>1, <2>2 DEF Covers, IsTip
<1> QED  BY <1>5, <1>7, <1>8, <1>9, <1>10 DEF Visits, b

(* One statement, or none.                                                   *)
LEMMA UpToOne == \A k \in 1 .. 1 : k = 1
OBVIOUS

LEMMA OneVisits ==
  ASSUME root \in Roots, NEW p, NEW d \in Spoken(p), ~Opens(d), ~Closes(d),
         Covers(<<d>>, p)
  PROVE  Visits(<<d>>, p)
<1> DEFINE b == <<d>>
<1>1. b \in Seq(Spoken(p)) /\ Len(b) = 1 /\ b[1] = d
  BY OneOf
<1>2. Covers(b, p)
  OBVIOUS
<1> HIDE DEF b
<1>3. \A k \in 1 .. Len(b) : k = 1 /\ b[k] = d
  BY <1>1, UpToOne
<1>4. \A j, k \in 1 .. Len(b) : ~(j < k)
  BY <1>1
<1>5. Balanced(b)
  BY <1>3, NoneBalances
<1>6. NamesFirst(b)
  BY <1>1, <1>4 DEF NamesFirst
<1>7. AsksInOrder(b, p)
  BY <1>4 DEF AsksInOrder
<1> QED  BY <1>1, <1>2, <1>5, <1>6, <1>7 DEF Visits, b

LEMMA TellVisits ==
  ASSUME root \in Roots, NEW p, NEW d \in Spoken(p), Naming(d), ~Opens(d), ~Closes(d), IsTip(p)
  PROVE  Visits(<<d>>, p)
<1> DEFINE b == <<d>>
<1>1. Len(b) = 1 /\ b[1] = d
  OBVIOUS
<1> HIDE DEF b
<1>2. 1 \in 1 .. Len(b) /\ Naming(b[1])
  <2>1. 1 \in 1 .. Len(b)
    BY <1>1
  <2> QED  BY <1>1, <2>1
<1>3. Covers(b, p)
  BY <1>2 DEF Covers, IsTip
<1> QED  BY <1>3, OneVisits DEF b

LEMMA AskVisits ==
  ASSUME root \in Roots, NEW p \in DOMAIN root, ~InType(p), p \notin Named,
         NEW f, NEW c, IsOnly(p, f, c)
  PROVE  Visits(<<Call(c, <<f>>)>>, p)
<1> DEFINE d == Call(c, <<f>>)
           b == <<d>>
<1>1. root[p].has = {f}
  BY DEF IsOnly
<1>2. /\ d \in Spoken(p) /\ d.do = "call" /\ p \o d.at = Append(p, f)
      /\ ~Opens(d) /\ ~Closes(d)
  BY AskIs DEF IsOnly
<1> HIDE DEF d
<1>3. Len(b) = 1 /\ b[1] = d
  OBVIOUS
<1> HIDE DEF b
<1>4. 1 \in 1 .. Len(b)
  BY <1>3
<1>5. ASSUME NEW q \in Named, p \in Above(q) \ {q}
      PROVE  b[1].do = "call" /\ p \o b[1].at \in Above(q)
  <2>1. Append(p, f) \in Above(q)
    BY <1>1, <1>5, ChildBelow
  <2> QED  BY <1>2, <1>3, <2>1
<1>6. Covers(b, p)
  BY <1>4, <1>5 DEF Covers
<1> QED  BY <1>2, <1>6, OneVisits DEF b, d

LEMMA NothingVisits ==
  ASSUME NEW p, p \notin Named, IsTip(p)
  PROVE  Visits(<<>>, p)
<1> DEFINE b == <<>>
<1>1. b \in Seq(Spoken(p)) /\ Len(b) = 0
  OBVIOUS
<1> HIDE DEF b
<1>2. \A k \in 1 .. Len(b) : FALSE
  BY <1>1
<1>3. Balanced(b) /\ NamesFirst(b) /\ AsksInOrder(b, p)
  BY <1>2 DEF Balanced, NamesFirst, AsksInOrder
<1>4. Covers(b, p)
  BY DEF Covers, IsTip
<1> QED  BY <1>1, <1>3, <1>4 DEF Visits, b

LEMMA ShownIsVal ==
  ASSUME root \in Roots, NEW p \in DOMAIN root, root[p].type # "C_Literal"
  PROVE  Shown(root[p]) = root[p].val
<1>1. IsStruct(root[p])
  BY RootsAre, NodeIs
<1>2. root[p].kind \notin {"C_INT", "C_FLOAT", "C_STRING", "C_CHAR", "C_BOOL", "C_NULL"}
  BY <1>1 DEF IsStruct
<1> QED  BY <1>2 DEF Shown

LEMMA NamedIs ==
  ASSUME root \in Roots, NEW p \in DOMAIN root, ~InType(p)
  PROVE  p \in Named <=>
           \/ root[p].type \in {"C_Identifier", "C_UnaryExpr", "C_BinaryExpr", "C_Literal"}
           \/ root[p].type = "C_Type" /\ root[p].has = {}
BY RootsAre, NodeIs DEF IsStruct, Named

LEMMA TypeIsTip ==
  ASSUME root \in Roots, NEW p \in DOMAIN root, root[p].type = "C_Type"
  PROVE  IsTip(p)
BY DEF IsTip, Named, InType

LEMMA TextIsTip ==
  ASSUME root \in Roots, NEW p \in DOMAIN root,
         root[p].type \in {"C_Identifier", "C_Literal"}
  PROVE  IsTip(p)
<1>1. SUFFICES ASSUME NEW q \in Named, p \in Above(q) \ {q} PROVE FALSE
  BY DEF IsTip
<1>2. IsTree(root) /\ q \in DOMAIN root /\ root[q].val # ""
  BY RootsAre DEF Named
<1>3. PICK h \in root[p].has : Append(p, h) \in Above(q)
  BY <1>1, ChildBelow
<1>4. root[Append(p, h)].type = "text"
  <2>1. Members(root[p])[h] = {"text"}
    <3>1. root[p].has = DOMAIN Members(root[p])
      BY <1>2, HasIs
    <3>2. CASE root[p].type = "C_Identifier"
      BY <1>3, <3>1, <3>2, MembersAre
    <3>3. CASE root[p].type = "C_Literal"
      BY <1>3, <3>1, <3>3, MembersAre
    <3> QED  BY <3>2, <3>3
  <2> QED  BY <1>2, <2>1, MemberIs
<1> DEFINE c == Append(p, h)
<1>5. c \in DOMAIN root /\ IsStruct(root[c])
  BY <1>2, NodeIs
<1> HIDE DEF c
<1>6. root[c].type = "text" /\ c \in Above(q)
  BY <1>3, <1>4 DEF c
<1>7. CASE c = q
  BY <1>2, <1>5, <1>6, <1>7 DEF IsStruct
<1>8. CASE c # q
  <2>1. root[c].has # {}
    BY <1>2, <1>6, <1>8, ChildOnTheWay
  <2> QED  BY <1>2, <1>5, <1>6, <2>1, TextHasNone
<1> QED  BY <1>7, <1>8

LEMMA NamesVisit ==
  ASSUME root \in Roots, NEW p \in DOMAIN root, ~InType(p),
         root[p].type \in {"C_Identifier", "C_UnaryExpr", "C_BinaryExpr"}
  PROVE  Visits(VisitBody(root[p].type, root[p]), p)
<1> DEFINE v == root[p].val
<1>1. IsTree(root) /\ p \in Named /\ Shown(root[p]) = v
  BY RootsAre, NamedIs, ShownIsVal
<1>2. root[p].has = DOMAIN Members(root[p])
  BY <1>1, HasIs
<1>3. CASE root[p].type = "C_Identifier"
  <2>1. VisitBody(root[p].type, root[p]) = Quoted(v)
    BY <1>3 DEF VisitBody, ap_visit_identifier, Quoted
  <2>2. IsTip(p)
    BY <1>3, TextIsTip
  <2>3. Visits(Quoted(v), p)
    BY <1>1, <2>2, QuotedVisits
  <2> QED  BY <2>1, <2>3
<1>4. CASE root[p].type = "C_UnaryExpr"
  <2>1. root[p].has = {"inner"} /\ Members(root[p])["inner"] = {"C_Expr"}
    BY <1>2, <1>4, MembersAre
  <2>2. VisitBody(root[p].type, root[p]) = Prefix(v, "inner", "C_Expr")
    BY <1>4 DEF VisitBody, ap_visit_unary, Prefix
  <2>3. IsOnly(p, "inner", "C_Expr")
    <3>1. root[Append(p, "inner")].type = "C_Expr"
      BY <1>1, <2>1, MemberIs
    <3> QED  BY <1>4, <2>1, <3>1 DEF IsOnly, IsAsk, Visited
  <2>4. Visits(Prefix(v, "inner", "C_Expr"), p)
    BY <1>1, <2>3, PrefixVisits
  <2> QED  BY <2>2, <2>4
<1>5. CASE root[p].type = "C_BinaryExpr"
  <2>1. /\ root[p].has = {"lhs", "rhs"}
        /\ Members(root[p])["lhs"] = {"C_Expr"} /\ Members(root[p])["rhs"] = {"C_Expr"}
    BY <1>2, <1>5, MembersAre
  <2>2. VisitBody(root[p].type, root[p])
          = Operation(v, "(", "lhs", "C_Expr", ", ", "rhs", "C_Expr")
    BY <1>5 DEF VisitBody, ap_visit_binary, Operation
  <2>3. IsPair(p, "(", "lhs", "C_Expr", ", ", "rhs", "C_Expr")
    BY <1>5, <2>1 DEF IsPair, Visited, Opening, Punctuation, LeftOf
  <2>4. Visits(Operation(v, "(", "lhs", "C_Expr", ", ", "rhs", "C_Expr"), p)
    BY <1>1, <2>3, OperationVisits
  <2> QED  BY <2>2, <2>4
<1> QED  BY <1>3, <1>4, <1>5

LEMMA HoldersVisit ==
  ASSUME root \in Roots, NEW p \in DOMAIN root, ~InType(p),
         root[p].type \in {"C_Lvalue", "C_Expr"}
  PROVE  Visits(VisitBody(root[p].type, root[p]), p)
<1>1. IsTree(root) /\ p \notin Named /\ IsStruct(root[p])
  BY RootsAre, NodeIs, NamedIs
<1>2. root[p].has = DOMAIN Members(root[p])
  BY <1>1, HasIs
<1>3. CASE root[p].type = "C_Lvalue"
  <2>1. /\ root[p].has = {"data"}
        /\ Members(root[p])["data"] = {"C_Identifier", "C_ArrayIndex"}
    BY <1>2, <1>3, MembersAre
  <2>2. root[p].kind = "C_LV_IDENTIFIER"
    BY <1>1, <1>3 DEF IsStruct
  <2>3. VisitBody(root[p].type, root[p]) = <<Call("C_Identifier", <<"data">>)>>
    BY <1>3, <2>2 DEF VisitBody, ap_visit_lvalue
  <2>4. IsOnly(p, "data", "C_Identifier")
    <3>1. root[Append(p, "data")].type \in {"C_Identifier", "C_ArrayIndex"}
      BY <1>1, <2>1, MemberIs
    <3> QED  BY <1>3, <2>1, <3>1 DEF IsOnly, IsAsk, IsIndexed, Visited
  <2>5. Visits(<<Call("C_Identifier", <<"data">>)>>, p)
    BY <1>1, <2>4, AskVisits
  <2> QED  BY <2>3, <2>5
<1>4. CASE root[p].type = "C_Expr"
  <2> DEFINE c == Holds[root[p].kind]
  <2>1. root[p].kind \in DOMAIN Holds
    BY <1>1, <1>4 DEF IsStruct
  <2>2. root[p].has = {"data"} /\ Members(root[p])["data"] = {c}
    BY <1>2, <1>4, MembersAre
  <2>3. c \in Visited
    BY <2>1 DEF Holds, Visited
  <2>4. VisitBody(root[p].type, root[p]) = <<Call(c, <<"data">>)>>
    <3>1. ap_visit_expr(root[p]) = <<Call(c, <<"data">>)>>
      BY <2>1 DEF ap_visit_expr, Holds
    <3> QED  BY <1>4, <3>1 DEF VisitBody
  <2> HIDE DEF c
  <2>5. IsOnly(p, "data", c)
    <3>1. root[Append(p, "data")].type = c
      BY <1>1, <2>2, MemberIs
    <3> QED  BY <1>4, <2>2, <2>3, <3>1 DEF IsOnly, IsAsk
  <2>6. Visits(<<Call(c, <<"data">>)>>, p)
    BY <1>1, <2>5, AskVisits
  <2> QED  BY <2>4, <2>6
<1> QED  BY <1>3, <1>4

(* A value: written, formatted, or taken for an address.                      *)
LEMMA TellIs ==
  ASSUME root \in Roots, NEW p \in Named, NEW d \in Raw, Tells(d, p)
  PROVE  d \in Spoken(p) /\ Naming(d) /\ ~Opens(d) /\ ~Closes(d)
<1>1. Shown(root[p]) \in Pieces \ Punctuation
  BY RootsAre DEF Named
<1>2. Naming(d) /\ ~Opens(d) /\ ~Closes(d)
  BY <1>1 DEF Tells, Naming, Opens, Closes, Punctuation
<1> QED  BY <1>2 DEF Spoken

LEMMA writeTells ==
  ASSUME root \in Roots, NEW p \in Named, NEW w, w = Shown(root[p]), IsTip(p)
  PROVE  Visits(<<write(w)>>, p)
<1>1. w \in Subjects
  BY RootsAre DEF Subjects, Named
<1> DEFINE d == write(w)
<1>2. d \in Raw /\ d.do = "write" /\ d.what = w
  BY <1>1, writeIs
<1> HIDE DEF d
<1>3. Tells(d, p)
  BY <1>2 DEF Tells
<1>4. d \in Spoken(p) /\ Naming(d) /\ ~Opens(d) /\ ~Closes(d)
  BY <1>2, <1>3, TellIs
<1>5. Visits(<<d>>, p)
  BY <1>4, TellVisits
<1> QED  BY <1>5 DEF d

LEMMA writefTells ==
  ASSUME root \in Roots, NEW p \in Named, NEW w, w = Shown(root[p]), IsTip(p),
         NEW n \in Int, n < AP_WRITEF_MAXSIZE
  PROVE  Visits(<<writef(w, n)>>, p)
<1>1. w \in Subjects
  BY RootsAre DEF Subjects, Named
<1> DEFINE d == writef(w, n)
<1>2. d \in Raw /\ d.do = "writef" /\ d.what = w /\ d.len = n
  BY <1>1, writefIs
<1> HIDE DEF d
<1>3. Tells(d, p)
  BY <1>2 DEF Tells
<1>4. d \in Spoken(p) /\ Naming(d) /\ ~Opens(d) /\ ~Closes(d)
  BY <1>2, <1>3, TellIs
<1>5. Visits(<<d>>, p)
  BY <1>4, TellVisits
<1> QED  BY <1>5 DEF d

LEMMA AddressTells ==
  ASSUME root \in Roots, NEW p \in Named, Shown(root[p]) = "anything", IsTip(p)
  PROVE  Visits(<<Do("address", root[p].val, <<>>)>>, p)
<1> DEFINE v == root[p].val
           d == Do("address", v, <<>>)
<1>1. v \in Subjects /\ "address" \in Deeds
  BY DEF Subjects, Named, Deeds
<1>2. d \in Raw /\ d.do = "address"
  <2>1. d = [do |-> "address", what |-> v, of |-> <<>>, at |-> <<>>, len |-> 0]
    BY DEF Do
  <2> QED  BY <1>1, <2>1, WriteIs
<1> HIDE DEF d
<1>3. Tells(d, p)
  BY <1>2 DEF Tells
<1>4. d \in Spoken(p) /\ Naming(d) /\ ~Opens(d) /\ ~Closes(d)
  BY <1>2, <1>3, TellIs
<1>5. Visits(<<d>>, p)
  BY <1>4, TellVisits
<1> QED  BY <1>5 DEF d

LEMMA ShownFits == ShownMax \in Nat /\ ShownMax + 2 < AP_WRITEF_MAXSIZE
BY WalkAssumption

LEMMA Lengths ==
  /\ AP_WRITEF_MAXSIZE \in Nat
  /\ LongestInt + 5 \in Int /\ LongestInt + 5 < AP_WRITEF_MAXSIZE
  /\ LongestFloat + 7 \in Int /\ LongestFloat + 7 < AP_WRITEF_MAXSIZE
  /\ LongestHex + 6 \in Int /\ LongestHex + 6 < AP_WRITEF_MAXSIZE
BY DEF LongestInt, LongestFloat, LongestHex, AP_WRITEF_MAXSIZE

LEMMA LiteralVisits ==
  ASSUME root \in Roots, NEW p \in DOMAIN root, ~InType(p), root[p].type = "C_Literal"
  PROVE  Visits(VisitBody(root[p].type, root[p]), p)
<1> DEFINE n == root[p]
           v == n.val
<1>1. IsTip(p) /\ p \in Named
  BY TextIsTip, NamedIs
<1>2. n.kind \in {"C_INT", "C_FLOAT", "C_STRING", "C_CHAR", "C_BOOL", "C_NULL"}
  BY RootsAre, NodeIs DEF IsStruct
<1>3. VisitBody(n.type, n) = ap_visit_literal(n)
  BY DEF VisitBody
<1>4. CASE n.kind \in {"C_INT", "C_FLOAT"}
  <2>1. Shown(n) = v
    BY <1>4 DEF Shown
  <2>2. /\ Visits(<<writef(v, LongestInt + 5)>>, p)
        /\ Visits(<<writef(v, LongestFloat + 7)>>, p)
    <3>1. Visits(<<writef(v, LongestInt + 5)>>, p)
      BY <1>1, <2>1, Lengths, writefTells
    <3>2. Visits(<<writef(v, LongestFloat + 7)>>, p)
      BY <1>1, <2>1, Lengths, writefTells
    <3> QED  BY <3>1, <3>2
  <2>3. \/ ap_visit_literal(n) = <<writef(v, LongestInt + 5)>>
        \/ ap_visit_literal(n) = <<writef(v, LongestFloat + 7)>>
    BY <1>4 DEF ap_visit_literal
  <2> QED  BY <1>3, <2>2, <2>3
<1>5. CASE n.kind = "C_STRING" /\ TextLen[v] > ShownMax
  <2>1. Shown(n) = "<a very long string>"
    BY <1>5 DEF Shown
  <2>2. ap_visit_literal(n) = <<write("<a very long string>")>>
    BY <1>5 DEF ap_visit_literal
  <2>3. Visits(<<write("<a very long string>")>>, p)
    BY <1>1, <2>1, writeTells
  <2> QED  BY <1>3, <2>2, <2>3
<1>6. CASE n.kind = "C_STRING" /\ ~(TextLen[v] > ShownMax)
  <2>1. Shown(n) = v
    BY <1>6 DEF Shown
  <2>2. ap_visit_literal(n) = <<writef(v, TextLen[v] + 2)>>
    BY <1>6 DEF ap_visit_literal
  <2>3. TextLen[v] \in Nat
    BY <1>6, RootsAre
  <2>4. TextLen[v] + 2 \in Int /\ TextLen[v] + 2 < AP_WRITEF_MAXSIZE
    <3> DEFINE m == TextLen[v]
    <3>1. /\ ShownMax \in Nat /\ ShownMax + 2 < AP_WRITEF_MAXSIZE
          /\ AP_WRITEF_MAXSIZE \in Nat
      BY ShownFits, Lengths
    <3>2. m \in Nat /\ ~(m > ShownMax)
      BY <1>6, <2>3
    <3> HIDE DEF m
    <3>3. m + 2 \in Int /\ m + 2 < AP_WRITEF_MAXSIZE
      BY <3>1, <3>2
    <3> QED  BY <3>3 DEF m
  <2>5. Visits(<<writef(v, TextLen[v] + 2)>>, p)
    BY <1>1, <2>1, <2>4, writefTells
  <2> QED  BY <1>3, <2>2, <2>5
<1>7. CASE n.kind = "C_CHAR" /\ v \in Printable
  <2>1. Shown(n) = "anything"
    BY <1>7 DEF Shown
  <2>2. ap_visit_literal(n) = <<Do("address", v, <<>>)>>
    BY <1>7 DEF ap_visit_literal
  <2> QED  BY <1>1, <1>3, <2>1, <2>2, AddressTells
<1>8. CASE n.kind = "C_CHAR" /\ v \notin Printable
  <2>1. Shown(n) = v
    BY <1>8 DEF Shown
  <2>2. ap_visit_literal(n) = <<writef(v, LongestHex + 6)>>
    BY <1>8 DEF ap_visit_literal
  <2>3. Visits(<<writef(v, LongestHex + 6)>>, p)
    BY <1>1, <2>1, Lengths, writefTells
  <2> QED  BY <1>3, <2>2, <2>3
<1>9. CASE n.kind \in {"C_BOOL", "C_NULL"}
  <2>1. Shown(n) = v
    BY <1>9 DEF Shown
  <2>2. ap_visit_literal(n) = <<write(v)>>
    BY <1>9 DEF ap_visit_literal
  <2>3. Visits(<<write(v)>>, p)
    BY <1>1, <2>1, writeTells
  <2> QED  BY <1>3, <2>2, <2>3
<1> QED  BY <1>2, <1>4, <1>5, <1>6, <1>7, <1>8, <1>9

LEMMA IfVisits ==
  ASSUME root \in Roots, NEW p \in DOMAIN root, root[p].type = "C_If"
  PROVE  Visits(VisitBody(root[p].type, root[p]), p)
<1> DEFINE d == Do("panic", "not implemented", <<>>)
<1>1. VisitBody(root[p].type, root[p]) = <<d>>
  BY DEF VisitBody, ap_visit_if
<1>2. d \in Raw /\ d.do = "panic"
  <2>1. d = [do |-> "panic", what |-> "not implemented", of |-> <<>>, at |-> <<>>, len |-> 0]
    BY DEF Do
  <2>2. "not implemented" \in Subjects /\ "panic" \in Deeds /\ 0 \in Int
    BY DEF Subjects, Deeds
  <2> DEFINE w == "not implemented"
             x == "panic"
  <2>3. /\ d = [do |-> x, what |-> w, of |-> <<>>, at |-> <<>>, len |-> 0]
        /\ w \in Subjects /\ x \in Deeds
    BY <2>1, <2>2
  <2> HIDE DEF w, x, d
  <2>4. ASSUME NEW a \in Deeds, NEW b \in Subjects
        PROVE  LET e == [do |-> a, what |-> b, of |-> <<>>, at |-> <<>>, len |-> 0] IN
               e \in Raw /\ e.do = a
    BY WriteIs
  <2>5. d \in Raw /\ d.do = x
    BY <2>3, <2>4
  <2> QED  BY <2>5 DEF x
<1> HIDE DEF d
<1>3. d \in Spoken(p) /\ ~Opens(d) /\ ~Closes(d)
  BY <1>2 DEF Spoken, GivesUp, Opens, Closes
<1>4. Covers(<<d>>, p)
  <2> DEFINE b == <<d>>
  <2>1. Len(b) = 1 /\ b[1] = d
    OBVIOUS
  <2> HIDE DEF b
  <2>2. 1 \in 1 .. Len(b)
    BY <2>1
  <2>3. b[1].do = "panic"
    BY <1>2, <2>1
  <2>4. Covers(b, p)
    BY <2>2, <2>3 DEF Covers
  <2> QED  BY <2>4 DEF b
<1> QED  BY <1>1, <1>3, <1>4, OneVisits

LEMMA TypeVisits ==
  ASSUME root \in Roots, NEW p \in DOMAIN root, ~InType(p), root[p].type = "C_Type"
  PROVE  Visits(VisitBody(root[p].type, root[p]), p)
<1> DEFINE v == root[p].val
<1>1. IsStruct(root[p]) /\ IsTip(p)
  BY RootsAre, NodeIs, TypeIsTip
<1>2. root[p].kind = "C_TYPE_PRIMITIVE"
  BY <1>1 DEF IsStruct
<1>3. VisitBody(root[p].type, root[p]) = IF v = "" THEN <<>> ELSE <<write(v)>>
  BY <1>2 DEF VisitBody, ap_visit_type, ap_visit_primitive_type
<1>4. p \in Named <=> v # ""
  BY DEF Named
<1>5. CASE v = ""
  <2>1. p \notin Named /\ IsTip(p)
    BY <1>1, <1>4, <1>5
  <2>2. Visits(<<>>, p)
    BY <2>1, NothingVisits
  <2> QED  BY <1>3, <1>5, <2>2
<1>6. CASE v # ""
  <2>1. Shown(root[p]) = v
    BY ShownIsVal
  <2>2. Visits(<<write(v)>>, p)
    BY <1>1, <1>4, <1>6, <2>1, writeTells
  <2> QED  BY <1>3, <1>6, <2>2
<1> QED  BY <1>5, <1>6

(* The arguments, and the commas between them.                                *)
LEMMA Halves ==
  ASSUME NEW k \in Nat, k % 2 # 0
  PROVE  2 * ((k + 1) \div 2) = k + 1
OBVIOUS

LEMMA OddHalves ==
  ASSUME NEW j \in Nat \ {0}
  PROVE  (2 * j - 1) % 2 # 0 /\ (2 * j) \div 2 = j
OBVIOUS

LEMMA AboveBoth ==
  ASSUME NEW p \in Seq(Fields), NEW a \in Seq(Fields), p \in Above(a) \ {a},
         NEW q \in Seq(Fields), a \in Above(q)
  PROVE  p \in Above(q) \ {q}
<1>1. p \in Above(q)
  BY AboveOrder
<1>2. /\ Len(p) \in Nat /\ Len(a) \in Nat /\ Len(p) <= Len(a) /\ Len(a) <= Len(q)
  BY AboveIs
<1>3. Len(p) # Len(a)
  BY AboveOrder
<1> QED  BY <1>1, <1>2, <1>3

Argument(p, j) == Append(Append(p, "args"), Nth[j])

LEMMA ArgumentIs ==
  ASSUME root \in Roots, NEW p \in DOMAIN root, ~InType(p),
         root[p].type = "C_ArgumentList", NEW j \in 1 .. root[p].len,
         NEW d, d = Call("C_FunctionArgument", <<"args", Nth[j]>>)
  PROVE  /\ d \in Spoken(p) /\ d.do = "call" /\ p \o d.at = Argument(p, j)
         /\ ~Naming(d) /\ ~Opens(d) /\ ~Closes(d)
<1> DEFINE a == Append(p, "args")
           c == "C_FunctionArgument"
           n == root[p].len
           e == Append(a, Nth[j])
<1>1. IsTree(root) /\ p \in Seq(Fields)
  BY RootsAre, NodeIs
<1>2. root[p].has = {"args"} /\ Members(root[p])["args"] = {"C_FunctionArgument[]"}
  <2>1. root[p].has = DOMAIN Members(root[p])
    BY <1>1, HasIs
  <2> QED  BY <2>1, MembersAre
<1>3. /\ a \in DOMAIN root /\ a \in Seq(Fields) /\ "args" \in Fields
      /\ root[a].type = "C_FunctionArgument[]"
      /\ ~InType(a) /\ p \in Above(a) \ {a}
  <2>1. "args" \in root[p].has
    BY <1>2
  <2>2. a \in DOMAIN root /\ "args" \in Fields
    BY <1>1, <2>1, NodeIs
  <2>3. root[a].type = "C_FunctionArgument[]"
    BY <1>1, <1>2, <2>1, MemberIs
  <2>4. ~InType(a)
    BY <1>1, <2>1, InTypeIs
  <2>5. p \in Above(p)
    BY <1>1, AboveOrder
  <2>6. Above(a) = Above(p) \cup {a} /\ a # p /\ a \in Seq(Fields)
    BY <1>1, <2>2, ChildIs
  <2> QED  BY <2>2, <2>3, <2>4, <2>5, <2>6
<1>4. root[a].len = n
  <2>1. IsMember(root[a], root[p], "args")
    BY <1>1, <1>2, NodeIs
  <2> QED  BY <1>3, <2>1 DEF IsMember, Arrays
<1>5. /\ e \in DOMAIN root /\ e \in Seq(Fields) /\ Nth[j] \in Fields /\ ~InType(e)
      /\ a \in Above(e)
  <2>1. root[a].type \in Arrays /\ j \in 1 .. root[a].len
    BY <1>3, <1>4 DEF Arrays
  <2> HIDE DEF a
  <2> QED  BY <1>1, <1>3, <2>1, ElementIs
<1>6. root[e].type = c
  <2>1. root[a].has = Elements(root[a].len)
    <3>1. root[a].has = DOMAIN Members(root[a])
      BY <1>1, <1>3, HasIs
    <3>2. root[a].type \in Arrays
      BY <1>3 DEF Arrays
    <3> QED  BY <3>1, <3>2, MembersAre
  <2>2. Nth[j] \in root[a].has
    BY <1>4, <2>1 DEF Elements
  <2>3. Members(root[a])[Nth[j]] = {c}
    <3>1. root[a].type \in Arrays
      BY <1>3 DEF Arrays
    <3> DEFINE m == root[a]
    <3>2. /\ m.type = "C_FunctionArgument[]" /\ m.type \in Arrays
          /\ Nth[j] \in Elements(m.len)
      BY <1>3, <2>1, <2>2, <3>1
    <3> HIDE DEF m
    <3>3. Members(m)[Nth[j]] = {c}
      BY <3>2, MembersAre
    <3> QED  BY <3>3 DEF m
  <2> HIDE DEF a
  <2> QED  BY <1>1, <1>3, <2>2, <2>3, MemberIs
<1>7. p \in Above(e) \ {e}
  <2>1. /\ p \in Seq(Fields) /\ a \in Seq(Fields) /\ e \in Seq(Fields)
        /\ p \in Above(a) \ {a} /\ a \in Above(e)
    BY <1>1, <1>3, <1>5
  <2> HIDE DEF a, e
  <2> QED  BY <2>1, AboveBoth
<1>8. /\ d \in Raw /\ d.do = "call" /\ d.what = c /\ p \o d.at = e
  <2> DEFINE f == "args"
             g == Nth[j]
             way == <<f, g>>
  <2>1. f \in Fields /\ g \in Fields
    BY <1>3, <1>5
  <2>2. way \in Seq(Fields)
    BY <2>1, TwoOf
  <2>3. p \o way = Append(Append(p, f), g)
    <3> DEFINE S == Fields
    <3>1. p \in Seq(S) /\ f \in S /\ g \in S
      BY <1>1, <2>1
    <3> HIDE DEF S, f, g
    <3> QED  BY <3>1
  <2>4. d = Call(c, way) /\ e = Append(Append(p, f), g)
    OBVIOUS
  <2>5. c \in Freed
    BY DEF Freed
  <2> HIDE DEF f, g, way, c, e
  <2>6. /\ Call(c, way) \in Raw /\ Call(c, way).do = "call"
        /\ Call(c, way).what = c /\ Call(c, way).at = way
    BY <2>2, <2>5, CallIs
  <2> QED  BY <2>3, <2>4, <2>6
<1>9. IsAsked(e, p, c)
  BY <1>5, <1>6, <1>7 DEF IsAsked
<1>10. d \in Spoken(p)
  BY <1>8, <1>9 DEF Spoken, Asks, Visited
<1>11. ~Naming(d) /\ ~Opens(d) /\ ~Closes(d)
  BY <1>8 DEF Naming, Opens, Closes
<1> QED  BY <1>8, <1>10, <1>11 DEF Argument

LEMMA ArgumentBelow ==
  ASSUME root \in Roots, NEW p \in DOMAIN root, ~InType(p),
         root[p].type = "C_ArgumentList", NEW q \in Named, p \in Above(q) \ {q}
  PROVE  \E j \in 1 .. root[p].len : Argument(p, j) \in Above(q)
<1> DEFINE a == Append(p, "args")
<1>1. /\ IsTree(root) /\ p \in Seq(Fields) /\ q \in DOMAIN root /\ ~InType(q)
      /\ q \in Seq(Fields)
  BY RootsAre, NodeIs DEF Named
<1>2. root[p].has = {"args"} /\ Members(root[p])["args"] = {"C_FunctionArgument[]"}
  <2>1. root[p].has = DOMAIN Members(root[p])
    BY <1>1, HasIs
  <2> QED  BY <2>1, MembersAre
<1>3. a \in Above(q)
  <2>1. PICK h \in root[p].has : Append(p, h) \in Above(q)
    BY ChildBelow
  <2> QED  BY <1>2, <2>1
<1>4. /\ a \in DOMAIN root /\ root[a].type = "C_FunctionArgument[]"
      /\ IsMember(root[a], root[p], "args")
  BY <1>1, <1>2, NodeIs, MemberIs
<1>5. root[a].len = root[p].len
  BY <1>4 DEF IsMember, Arrays
<1>6. a # q
  BY <1>1, <1>4, NamedIs
<1>7. root[a].has = Elements(root[a].len)
  <2>1. root[a].has = DOMAIN Members(root[a])
    BY <1>1, <1>4, HasIs
  <2>2. root[a].type \in Arrays
    BY <1>4 DEF Arrays
  <2> QED  BY <2>1, <2>2, MembersAre
<1>8. PICK h \in root[a].has : Append(a, h) \in Above(q)
  <2> HIDE DEF a
  <2> QED  BY <1>3, <1>6, ChildBelow
<1>9. PICK j \in 1 .. root[p].len : h = Nth[j]
  BY <1>5, <1>7 DEF Elements
<1> QED  BY <1>8, <1>9 DEF Argument

(* One after the other, with something between the two.                       *)
Middle(n) ==
  [k \in (1 .. 2 * n) \ {2 * n} |->
     IF k % 2 = 0 THEN write(", ")
     ELSE Call("C_FunctionArgument", <<"args", Nth[(k + 1) \div 2]>>)]
Number(k) == (k + 1) \div 2
Between(n) == IF n = 0 THEN 0 ELSE 2 * n - 1

LEMMA BetweenIs ==
  ASSUME NEW n \in Nat
  PROVE  (1 .. 2 * n) \ {2 * n} = 1 .. Between(n) /\ Between(n) \in Nat
BY DEF Between

LEMMA NumberIs ==
  ASSUME NEW n \in Nat, NEW k \in 1 .. Between(n), k % 2 # 0
  PROVE  Number(k) \in 1 .. n /\ 2 * Number(k) = k + 1
<1>1. k \in Nat /\ k >= 1 /\ k <= 2 * n - 1
  BY DEF Between
<1>2. 2 * Number(k) = k + 1
  BY <1>1, Halves DEF Number
<1>3. Number(k) \in Int
  BY <1>1 DEF Number
<1> QED  BY <1>1, <1>2, <1>3

LEMMA NumberOf ==
  ASSUME NEW n \in Nat, NEW j \in 1 .. n
  PROVE  /\ 2 * j - 1 \in 1 .. Between(n) /\ (2 * j - 1) % 2 # 0
         /\ Number(2 * j - 1) = j
<1>1. 2 * j - 1 \in 1 .. Between(n)
  BY DEF Between
<1>2. (2 * j - 1) % 2 # 0 /\ (2 * j) \div 2 = j
  BY OddHalves
<1>3. (2 * j - 1) + 1 = 2 * j
  OBVIOUS
<1> QED  BY <1>1, <1>2, <1>3 DEF Number

LEMMA MiddleIs ==
  ASSUME root \in Roots, NEW p \in DOMAIN root, ~InType(p),
         root[p].type = "C_ArgumentList", NEW n, n = root[p].len, NEW c, c = Middle(n)
  PROVE  /\ n \in Nat /\ c \in Seq(Spoken(p)) /\ Len(c) = Between(n)
         /\ \A k \in 1 .. Between(n) :
              /\ ~Naming(c[k]) /\ ~Opens(c[k]) /\ ~Closes(c[k]) /\ c[k].do # "panic"
              /\ k % 2 = 0 => c[k].do # "call"
              /\ k % 2 # 0 => c[k].do = "call" /\ p \o c[k].at = Argument(p, Number(k))
<1>1. n \in Nat
  <2>1. n \in 0 .. Len(Nth)
    BY RootsAre, NodeIs DEF IsStruct
  <2> QED  BY <2>1
<1> DEFINE m == Between(n)
<1>2. (1 .. 2 * n) \ {2 * n} = 1 .. m /\ m \in Nat
  BY <1>1, BetweenIs
<1> DEFINE d(k) == Call("C_FunctionArgument", <<"args", Nth[Number(k)]>>)
<1>3. c = [k \in 1 .. m |-> IF k % 2 = 0 THEN write(", ") ELSE d(k)]
  BY <1>2 DEF Middle, Number
<1> HIDE DEF m, d
<1>4. ASSUME NEW k \in 1 .. m
      PROVE  /\ c[k] \in Spoken(p)
             /\ ~Naming(c[k]) /\ ~Opens(c[k]) /\ ~Closes(c[k]) /\ c[k].do # "panic"
             /\ k % 2 = 0 => c[k].do # "call"
             /\ k % 2 # 0 => c[k].do = "call" /\ p \o c[k].at = Argument(p, Number(k))
  <2>1. CASE k % 2 = 0
    <3>1. ", " \in Punctuation /\ ", " \notin Opening /\ ", " # ")"
      BY DEF Punctuation, Opening
    <3> DEFINE s == write(", ")
    <3>2. s \in Spoken(p) /\ s.do = "write" /\ ~Naming(s) /\ ~Opens(s) /\ ~Closes(s)
      BY <3>1, MarkIs
    <3>3. c[k] = s
      BY <1>3, <2>1
    <3> HIDE DEF s
    <3> QED  BY <2>1, <3>2, <3>3
  <2>2. CASE k % 2 # 0
    <3>1. Number(k) \in 1 .. root[p].len
      BY <1>1, <2>2, NumberIs DEF m
    <3>2. d(k) = Call("C_FunctionArgument", <<"args", Nth[Number(k)]>>)
      BY DEF d
    <3> DEFINE s == d(k)
               j == Number(k)
    <3>3. j \in 1 .. root[p].len /\ s = Call("C_FunctionArgument", <<"args", Nth[j]>>)
      BY <3>1, <3>2
    <3>4. c[k] = s
      BY <1>3, <2>2
    <3> HIDE DEF s, j
    <3>5. /\ s \in Spoken(p) /\ s.do = "call" /\ p \o s.at = Argument(p, j)
          /\ ~Naming(s) /\ ~Opens(s) /\ ~Closes(s)
      BY <3>3, ArgumentIs
    <3> QED  BY <2>2, <3>4, <3>5 DEF j
  <2> QED  BY <2>1, <2>2
<1>5. c \in [1 .. m -> Spoken(p)]
  BY <1>3, <1>4
<1>6. c \in Seq(Spoken(p)) /\ Len(c) = m
  BY <1>2, <1>5
<1> QED  BY <1>1, <1>4, <1>6 DEF m

LEMMA FrameIs ==
  ASSUME NEW S, NEW s \in S, NEW t \in S, NEW c \in Seq(S)
  PROVE  LET b == <<s>> \o c \o <<t>> IN
         /\ b \in Seq(S) /\ Len(b) = Len(c) + 2 /\ b[1] = s /\ b[Len(c) + 2] = t
         /\ \A k \in 1 .. Len(c) : b[k + 1] = c[k]
OBVIOUS

LEMMA ArgumentsAreLeft ==
  ASSUME root \in Roots, NEW p \in DOMAIN root, root[p].type = "C_ArgumentList",
         NEW j \in 1 .. root[p].len, NEW k \in 1 .. root[p].len, j < k
  PROVE  Left(Argument(p, j), Argument(p, k))
<1>1. /\ p \in Seq(Fields) /\ root[p].len \in 0 .. Len(Nth) /\ "args" \in root[p].has
      /\ root[p].has \subseteq Fields
  <2>1. IsTree(root)
    BY RootsAre
  <2>2. root[p].has = {"args"}
    BY <2>1, HasIs, MembersAre
  <2> QED  BY <2>1, <2>2, NodeIs DEF IsStruct
<1>2. j \in 1 .. Len(Nth) /\ k \in 1 .. Len(Nth)
  BY <1>1
<1>3. Nth[j] \in Fields /\ Nth[k] \in Fields /\ LeftOf(Nth[j], Nth[k])
  <2>1. Nth[j] \in Fields /\ Nth[k] \in Fields
    BY <1>2, ElementIsField
  <2> QED  BY <1>2, <2>1 DEF LeftOf
<1>4. Append(p, "args") \in Seq(Fields)
  BY <1>1, ChildIs
<1> QED  BY <1>3, <1>4, ChildrenAreLeft DEF Argument

LEMMA ArgumentsVisit ==
  ASSUME root \in Roots, NEW p \in DOMAIN root, ~InType(p),
         root[p].type = "C_ArgumentList"
  PROVE  Visits(VisitBody(root[p].type, root[p]), p)
<1> DEFINE n == root[p].len
           c == Middle(n)
           m == Between(n)
           s == write("args(")
           t == write(")")
           b == <<s>> \o c \o <<t>>
<1>1. VisitBody(root[p].type, root[p]) = b
  BY DEF VisitBody, ap_visit_argument_list, Middle
<1>2. /\ n \in Nat /\ c \in Seq(Spoken(p)) /\ Len(c) = m
      /\ \A k \in 1 .. m :
           /\ ~Naming(c[k]) /\ ~Opens(c[k]) /\ ~Closes(c[k]) /\ c[k].do # "panic"
           /\ k % 2 = 0 => c[k].do # "call"
           /\ k % 2 # 0 => c[k].do = "call" /\ p \o c[k].at = Argument(p, Number(k))
  BY MiddleIs
<1>3. m \in Nat
  BY <1>2, BetweenIs
<1>4. /\ "args(" \in Punctuation /\ "args(" \in Opening /\ "args(" # ")"
      /\ ")" \in Punctuation /\ ")" \notin Opening
  BY DEF Punctuation, Opening
<1>5. s \in Spoken(p) /\ s.do = "write" /\ ~Naming(s) /\ Opens(s) /\ ~Closes(s)
  BY <1>4, MarkIs
<1>6. t \in Spoken(p) /\ t.do = "write" /\ ~Naming(t) /\ ~Opens(t) /\ Closes(t)
  BY <1>4, MarkIs
<1> HIDE DEF c, s, t, m
<1>7. /\ b \in Seq(Spoken(p)) /\ Len(b) = m + 2 /\ b[1] = s /\ b[m + 2] = t
      /\ \A k \in 1 .. m : b[k + 1] = c[k]
  BY <1>2, <1>5, <1>6, FrameIs
<1> HIDE DEF b
<1>8. ASSUME NEW k \in 1 .. m + 2
      PROVE  \/ k = 1 /\ b[k] = s
             \/ k = m + 2 /\ b[k] = t
             \/ k - 1 \in 1 .. m /\ b[k] = c[k - 1]
  <2>1. k = 1 \/ k = m + 2 \/ k - 1 \in 1 .. m
    BY <1>3
  <2>2. ASSUME k - 1 \in 1 .. m PROVE b[k] = c[k - 1]
    <3>1. k = (k - 1) + 1
      OBVIOUS
    <3> QED  BY <1>7, <2>2, <3>1
  <2> QED  BY <1>7, <2>1, <2>2
<1>9. ASSUME NEW k \in 1 .. m + 2
      PROVE  /\ ~Naming(b[k]) /\ b[k].do # "panic"
             /\ (Opens(b[k]) => k = 1) /\ (Closes(b[k]) => k = m + 2)
  <2>1. CASE k - 1 \in 1 .. m /\ b[k] = c[k - 1]
    BY <1>2, <2>1
  <2>2. CASE k = 1 /\ b[k] = s
    BY <1>5, <2>2
  <2>3. CASE k = m + 2 /\ b[k] = t
    BY <1>6, <2>3
  <2> QED  BY <1>8, <2>1, <2>2, <2>3
<1>10. ASSUME NEW k \in 1 .. m + 2, b[k].do = "call"
       PROVE  /\ k - 1 \in 1 .. m /\ (k - 1) % 2 # 0
              /\ p \o b[k].at = Argument(p, Number(k - 1))
  <2>1. CASE k - 1 \in 1 .. m /\ b[k] = c[k - 1]
    <3> DEFINE i == k - 1
    <3>1. i \in 1 .. m /\ c[i].do = "call" /\ b[k] = c[i]
      BY <1>10, <2>1
    <3> HIDE DEF i
    <3>2. i % 2 = 0 \/ i % 2 # 0
      OBVIOUS
    <3>3. i % 2 # 0 /\ p \o c[i].at = Argument(p, Number(i))
      BY <1>2, <3>1, <3>2
    <3> QED  BY <3>1, <3>3 DEF i
  <2>2. CASE k = 1 /\ b[k] = s
    BY <1>5, <1>10, <2>2
  <2>3. CASE k = m + 2 /\ b[k] = t
    BY <1>6, <1>10, <2>3
  <2> QED  BY <1>8, <2>1, <2>2, <2>3
<1>11. Balanced(b)
  <2>1. Opens(b[1]) /\ Closes(b[m + 2])
    BY <1>5, <1>6, <1>7
  <2>2. 1 \in 1 .. m + 2 /\ m + 2 \in 1 .. m + 2 /\ 1 < m + 2 /\ m + 2 \in Nat
    BY <1>3
  <2> QED  BY <1>7, <1>9, <2>1, <2>2, OneBalances
<1>12. NamesFirst(b)
  BY <1>7, <1>9 DEF NamesFirst
<1>13. AsksInOrder(b, p)
  <2>1. ASSUME NEW j \in 1 .. m + 2, NEW k \in 1 .. m + 2, j < k,
               b[j].do = "call", b[k].do = "call"
        PROVE  Left(p \o b[j].at, p \o b[k].at)
    <3>1. /\ j - 1 \in 1 .. m /\ (j - 1) % 2 # 0
          /\ p \o b[j].at = Argument(p, Number(j - 1))
      BY <1>10, <2>1
    <3>2. /\ k - 1 \in 1 .. m /\ (k - 1) % 2 # 0
          /\ p \o b[k].at = Argument(p, Number(k - 1))
      BY <1>10, <2>1
    <3> DEFINE x == Number(j - 1)
               y == Number(k - 1)
    <3>3. x \in 1 .. n /\ 2 * x = (j - 1) + 1
      BY <1>2, <3>1, NumberIs DEF m
    <3>4. y \in 1 .. n /\ 2 * y = (k - 1) + 1
      BY <1>2, <3>2, NumberIs DEF m
    <3>5. x < y
      <4> HIDE DEF x, y
      <4> QED  BY <1>3, <2>1, <3>3, <3>4
    <3>6. x \in 1 .. root[p].len /\ y \in 1 .. root[p].len
      BY <3>3, <3>4
    <3>7. p \o b[j].at = Argument(p, x) /\ p \o b[k].at = Argument(p, y)
      BY <3>1, <3>2
    <3> HIDE DEF x, y
    <3> QED  BY <3>5, <3>6, <3>7, ArgumentsAreLeft
  <2> QED  BY <1>7, <2>1 DEF AsksInOrder
<1>14. Covers(b, p)
  <2>1. p \notin Named
    BY NamedIs
  <2>2. ASSUME NEW q \in Named, p \in Above(q) \ {q}
        PROVE  \E k \in 1 .. Len(b) : b[k].do = "call" /\ p \o b[k].at \in Above(q)
    <3>1. PICK j \in 1 .. n : Argument(p, j) \in Above(q)
      BY <2>2, ArgumentBelow
    <3> DEFINE i == 2 * j - 1
    <3>2. i \in 1 .. m /\ i % 2 # 0 /\ Number(i) = j
      BY <1>2, NumberOf DEF m
    <3> HIDE DEF i
    <3>3. b[i + 1] = c[i] /\ c[i].do = "call" /\ p \o c[i].at = Argument(p, j)
      BY <1>2, <1>7, <3>2
    <3>4. i + 1 \in 1 .. Len(b)
      BY <1>3, <1>7, <3>2
    <3> QED  BY <3>1, <3>3, <3>4
  <2> QED  BY <2>1, <2>2 DEF Covers
<1>15. Visits(b, p)
  BY <1>7, <1>11, <1>12, <1>13, <1>14 DEF Visits
<1> QED  BY <1>1, <1>15

(* Every visitor.                                                            *)
LEMMA BodyVisits ==
  ASSUME root \in Roots, NEW p \in DOMAIN root, ~InType(p), root[p].type \in Visited
  PROVE  Visits(VisitBody(root[p].type, root[p]), p)
BY PairsVisit, NamesVisit, HoldersVisit, LiteralVisits, IfVisits, TypeVisits, ArgumentsVisit
   DEF Visited

LEMMA BodySaid ==
  ASSUME root \in Roots, NEW p \in DOMAIN root, ~InType(p), root[p].type \in Visited
  PROVE  Said(Placed(VisitBody(root[p].type, root[p]), p), p)
BY BodyVisits, VisitsSaid

-----------------------------------------------------------------------------
(* Printing: what is written, and what is left, tell the whole tree.          *)

Ordered(Z) ==
  \A j, k \in 1 .. Len(Z) :
    j < k => \A q \in Zone(Z[j]), r \in Zone(Z[k]) : Precedes(q, r)
Covered(Z) == \A q \in Named : \E k \in 1 .. Len(Z) : q \in Zone(Z[k])

(* A statement between two parentheses of another node is below that node.    *)
Inside(s, t) ==
  IF t.do = "call" THEN s.of \in Above(t.at) \ {t.at}
  ELSE s.of \in Above(t.of) /\ (t.of = s.of => ~Opens(t) /\ ~Closes(t))
Meets(Z, j, k) ==
  /\ j < k /\ Opens(Z[j]) /\ Closes(Z[k]) /\ Z[k].of = Z[j].of
  /\ \A i \in j + 1 .. k - 1 : Inside(Z[j], Z[i])
Matched(Z) ==
  \A k \in 1 .. Len(Z) :
    /\ Closes(Z[k]) => \E j \in 1 .. Len(Z) : Meets(Z, j, k)
    /\ Opens(Z[k]) => \E j \in 1 .. Len(Z) : Meets(Z, k, j)
(* The statements write, or lead to, the whole tree, from left to right.      *)
Told(Z) ==
  /\ Z \in Seq(Statement) /\ \A k \in 1 .. Len(Z) : Prints(Z[k])
  /\ Ordered(Z) /\ Covered(Z) /\ Matched(Z)

(* Statements that may take the place of one.                                 *)
Stands(B, s) ==
  /\ B \in Seq(Statement) /\ \A k \in 1 .. Len(B) : Prints(B[k])
  /\ Ordered(B) /\ Matched(B)
  /\ \A k \in 1 .. Len(B) : Zone(B[k]) \subseteq Zone(s)
  /\ \A q \in Named \cap Zone(s) : \E k \in 1 .. Len(B) : q \in Zone(B[k])
  /\ \A t \in Statement, k \in 1 .. Len(B) : Inside(t, s) => Inside(t, B[k])

(* Where a statement of the new sequence was, or the one it stands for.       *)
Place(i, a, b) == IF i <= a THEN i ELSE IF i <= a + b THEN a + 1 ELSE i - b + 1

LEMMA PlaceIs ==
  ASSUME NEW a \in Nat, NEW b \in Nat, NEW r \in Nat, NEW i \in 1 .. a + (b + r)
  PROVE  /\ Place(i, a, b) \in 1 .. a + (1 + r)
         /\ Place(i, a, b) = a + 1 => i - a \in 1 .. b
         /\ i <= a => Place(i, a, b) = i
         /\ i > a + b => Place(i, a, b) = i - b + 1
BY DEF Place

LEMMA PlaceOrder ==
  ASSUME NEW a \in Nat, NEW b \in Nat, NEW i \in Nat, NEW j \in Nat, i < j
  PROVE  /\ \/ Place(i, a, b) < Place(j, a, b)
            \/ Place(i, a, b) = a + 1 /\ Place(j, a, b) = a + 1
BY DEF Place

LEMMA PlaceOf ==
  ASSUME NEW a \in Nat, NEW b \in Nat, NEW r \in Nat,
         NEW k \in 1 .. a + (1 + r), k # a + 1
  PROVE  \E i \in 1 .. a + (b + r) : Place(i, a, b) = k
<1>1. CASE k <= a
  BY <1>1 DEF Place
<1>2. CASE k > a
  <2>1. k + b - 1 \in 1 .. a + (b + r) /\ Place(k + b - 1, a, b) = k
    BY <1>2 DEF Place
  <2> QED  BY <2>1
<1> QED  BY <1>1, <1>2

LEMMA BaseIs ==
  ASSUME NEW S, NEW A \in Seq(S), NEW T \in Seq(S), T # <<>>, NEW B \in Seq(S)
  PROVE  /\ Tail(T) \in Seq(S) /\ Head(T) = T[1] /\ Len(T) = 1 + Len(Tail(T))
         /\ Len(A) \in Nat /\ Len(B) \in Nat /\ Len(Tail(T)) \in Nat
         /\ \A k \in 1 .. Len(Tail(T)) : Tail(T)[k] = T[k + 1]
<1>1. /\ Tail(T) \in Seq(S) /\ Head(T) = T[1] /\ Len(T) \in Nat
      /\ Len(Tail(T)) = Len(T) - 1
      /\ \A k \in 1 .. Len(Tail(T)) : Tail(T)[k] = T[k + 1]
  BY TailIs
<1>2. Len(Tail(T)) \in Nat /\ Len(A) \in Nat /\ Len(B) \in Nat
  BY <1>1
<1> QED  BY <1>1, <1>2

LEMMA ThreeAre ==
  ASSUME NEW S, NEW A \in Seq(S), NEW B \in Seq(S), NEW R \in Seq(S)
  PROVE  /\ A \o (B \o R) \in Seq(S)
         /\ Len(A \o (B \o R)) = Len(A) + (Len(B) + Len(R))
         /\ \A k \in 1 .. Len(A) : (A \o (B \o R))[k] = A[k]
         /\ \A k \in 1 .. Len(B) : (A \o (B \o R))[Len(A) + k] = B[k]
         /\ \A k \in 1 .. Len(R) : (A \o (B \o R))[Len(A) + (Len(B) + k)] = R[k]
<1> DEFINE V == B \o R
<1>1. /\ V \in Seq(S) /\ Len(V) = Len(B) + Len(R)
      /\ \A k \in 1 .. Len(B) : V[k] = B[k]
      /\ \A k \in 1 .. Len(R) : V[Len(B) + k] = R[k]
      /\ Len(B) \in Nat /\ Len(R) \in Nat
  BY JoinIs
<1>a. V \in Seq(S)
  BY <1>1
<1> HIDE DEF V
<1>2. /\ A \o V \in Seq(S) /\ Len(A \o V) = Len(A) + Len(V)
      /\ \A k \in 1 .. Len(A) : (A \o V)[k] = A[k]
      /\ \A k \in 1 .. Len(V) : (A \o V)[Len(A) + k] = V[k]
  BY <1>a, JoinIs
<1>3. ASSUME NEW k \in 1 .. Len(B) PROVE (A \o V)[Len(A) + k] = B[k]
  <2>1. k \in 1 .. Len(V)
    BY <1>1
  <2> QED  BY <1>1, <1>2, <2>1
<1>4. ASSUME NEW k \in 1 .. Len(R) PROVE (A \o V)[Len(A) + (Len(B) + k)] = R[k]
  <2>1. Len(B) + k \in 1 .. Len(V)
    BY <1>1
  <2> QED  BY <1>1, <1>2, <2>1
<1> QED  BY <1>1, <1>2, <1>3, <1>4 DEF V

(* U is Z with B in the place of its statement after the first a.             *)
Replaces(U, Z, B, a, b, r) ==
  /\ a \in Nat /\ b \in Nat /\ r \in Nat
  /\ U \in Seq(Statement) /\ Z \in Seq(Statement)
  /\ Len(U) = a + (b + r) /\ Len(Z) = a + (1 + r) /\ Len(B) = b
  /\ \A k \in 1 .. a : U[k] = Z[k]
  /\ \A k \in 1 .. b : U[a + k] = B[k]
  /\ \A k \in 1 .. r : U[a + (b + k)] = Z[a + (k + 1)]

LEMMA PlacedOne ==
  ASSUME NEW a, NEW b, NEW r, NEW U, NEW Z, NEW B, Replaces(U, Z, B, a, b, r),
         NEW i \in 1 .. Len(U), NEW k, k = Place(i, a, b)
  PROVE  /\ k \in 1 .. Len(Z) /\ i \in 1 .. a + (b + r) /\ i \in Nat /\ k \in Nat
         /\ k = a + 1 => i - a \in 1 .. b /\ U[i] = B[i - a]
         /\ k # a + 1 => U[i] = Z[k]
<1>0. /\ a \in Nat /\ b \in Nat /\ r \in Nat
      /\ Len(U) = a + (b + r) /\ Len(Z) = a + (1 + r) /\ i \in 1 .. a + (b + r)
  BY DEF Replaces
<1>1. /\ k \in 1 .. a + (1 + r)
      /\ k = a + 1 => i - a \in 1 .. b
      /\ i <= a => k = i
      /\ i > a + b => k = i - b + 1
  BY <1>0, PlaceIs
<1>2. ASSUME k = a + 1 PROVE i - a \in 1 .. b /\ U[i] = B[i - a]
  <2>1. i - a \in 1 .. b /\ i = a + (i - a)
    BY <1>0, <1>1, <1>2
  <2> QED  BY <2>1 DEF Replaces
<1>3. ASSUME i <= a PROVE U[i] = Z[k]
  <2>1. i \in 1 .. a /\ k = i
    BY <1>0, <1>1, <1>3
  <2> QED  BY <2>1 DEF Replaces
<1>4. ASSUME i > a + b PROVE U[i] = Z[k]
  <2> DEFINE m == i - (a + b)
  <2>1. m \in 1 .. r /\ i = a + (b + m) /\ k = a + (m + 1)
    BY <1>0, <1>1, <1>4
  <2> HIDE DEF m
  <2>2. U[a + (b + m)] = Z[a + (m + 1)]
    BY <2>1 DEF Replaces
  <2> QED  BY <2>1, <2>2
<1>5. k = a + 1 \/ i <= a \/ i > a + b
  BY <1>0 DEF Place
<1> QED  BY <1>0, <1>1, <1>2, <1>3, <1>4, <1>5

LEMMA PlacedBefore ==
  ASSUME NEW a, NEW b, NEW r, NEW U, NEW Z, NEW B, Replaces(U, Z, B, a, b, r),
         NEW i \in 1 .. Len(U), NEW j \in 1 .. Len(U), i < j,
         NEW x, x = Place(i, a, b), NEW y, y = Place(j, a, b)
  PROVE  x < y \/ (x = a + 1 /\ y = a + 1)
<1>1. a \in Nat /\ b \in Nat /\ i \in Nat /\ j \in Nat
  BY DEF Replaces
<1> QED  BY <1>1, PlaceOrder

LEMMA PlacedFrom ==
  ASSUME NEW a, NEW b, NEW r, NEW U, NEW Z, NEW B, Replaces(U, Z, B, a, b, r),
         NEW k \in 1 .. Len(Z), k # a + 1
  PROVE  \E i \in 1 .. Len(U) : Place(i, a, b) = k /\ U[i] = Z[k]
<1>1. /\ a \in Nat /\ b \in Nat /\ r \in Nat /\ k \in 1 .. a + (1 + r)
      /\ Len(U) = a + (b + r)
  BY DEF Replaces
<1>2. PICK i \in 1 .. a + (b + r) : Place(i, a, b) = k
  BY <1>1, PlaceOf
<1>3. i \in 1 .. Len(U)
  BY <1>1
<1>4. U[i] = Z[k]
  BY <1>2, <1>3, PlacedOne
<1> QED  BY <1>2, <1>3, <1>4

LEMMA PlacedBody ==
  ASSUME NEW a, NEW b, NEW r, NEW U, NEW Z, NEW B, Replaces(U, Z, B, a, b, r),
         NEW k \in 1 .. Len(B)
  PROVE  a + k \in 1 .. Len(U) /\ U[a + k] = B[k]
<1>1. a \in Nat /\ b \in Nat /\ r \in Nat /\ k \in 1 .. b /\ Len(U) = a + (b + r)
  BY DEF Replaces
<1>2. a + k \in 1 .. Len(U)
  BY <1>1
<1> QED  BY <1>1, <1>2 DEF Replaces

IsPut(U, Z, A, B, T) ==
  /\ A \in Seq(Statement) /\ B \in Seq(Statement) /\ T \in Seq(Statement) /\ T # <<>>
  /\ Z = A \o T /\ U = A \o (B \o Tail(T))

LEMMA PlacedAre ==
  ASSUME NEW U, NEW Z, NEW A, NEW B, NEW T, IsPut(U, Z, A, B, T)
  PROVE  /\ Replaces(U, Z, B, Len(A), Len(B), Len(Tail(T)))
         /\ Z[Len(A) + 1] = Head(T)
<1>1. /\ A \in Seq(Statement) /\ B \in Seq(Statement) /\ T \in Seq(Statement) /\ T # <<>>
      /\ Z = A \o T /\ U = A \o (B \o Tail(T))
  BY DEF IsPut
<1> DEFINE R == Tail(T)
           a == Len(A)
           b == Len(B)
           r == Len(R)
<1>2. /\ R \in Seq(Statement) /\ Head(T) = T[1] /\ Len(T) = 1 + r
      /\ a \in Nat /\ b \in Nat /\ r \in Nat
      /\ \A k \in 1 .. r : R[k] = T[k + 1]
  BY <1>1, BaseIs
<1>3. U = A \o (B \o R) /\ Z = A \o T
  BY <1>1
<1> HIDE DEF R
<1>a. R \in Seq(Statement)
  BY <1>2
<1>b. /\ A \o (B \o R) \in Seq(Statement)
      /\ Len(A \o (B \o R)) = Len(A) + (Len(B) + Len(R))
      /\ \A k \in 1 .. Len(A) : (A \o (B \o R))[k] = A[k]
      /\ \A k \in 1 .. Len(B) : (A \o (B \o R))[Len(A) + k] = B[k]
      /\ \A k \in 1 .. Len(R) : (A \o (B \o R))[Len(A) + (Len(B) + k)] = R[k]
  BY <1>1, <1>a, ThreeAre
<1>4. /\ U \in Seq(Statement) /\ Len(U) = a + (b + r)
      /\ \A k \in 1 .. a : U[k] = A[k]
      /\ \A k \in 1 .. b : U[a + k] = B[k]
      /\ \A k \in 1 .. r : U[a + (b + k)] = R[k]
  BY <1>3, <1>b
<1>c. /\ A \o T \in Seq(Statement) /\ Len(A \o T) = Len(A) + Len(T)
      /\ \A k \in 1 .. Len(A) : (A \o T)[k] = A[k]
      /\ \A k \in 1 .. Len(T) : (A \o T)[Len(A) + k] = T[k]
  BY <1>1, JoinIs
<1>5. /\ Z \in Seq(Statement) /\ Len(Z) = a + (1 + r)
      /\ \A k \in 1 .. a : Z[k] = A[k]
      /\ \A k \in 1 .. 1 + r : Z[a + k] = T[k]
  BY <1>2, <1>3, <1>c
<1> HIDE DEF a, b, r
<1>6. ASSUME NEW k \in 1 .. r PROVE U[a + (b + k)] = Z[a + (k + 1)]
  <2>1. k + 1 \in 1 .. 1 + r
    BY <1>2
  <2> QED  BY <1>2, <1>4, <1>5, <2>1
<1>7. Z[a + 1] = Head(T)
  <2>1. 1 \in 1 .. 1 + r
    BY <1>2
  <2> QED  BY <1>2, <1>5, <2>1
<1>8. Len(B) = b
  BY DEF b
<1>9. Replaces(U, Z, B, a, b, r)
  BY <1>2, <1>4, <1>5, <1>6, <1>8 DEF Replaces
<1> QED  BY <1>7, <1>9 DEF a, b, r, R

(* The parentheses around the statement that is replaced, or beside it.       *)
LEMMA MeetsAround ==
  ASSUME NEW a, NEW b, NEW r, NEW U, NEW Z, NEW B, Replaces(U, Z, B, a, b, r),
         Stands(B, Z[a + 1]),
         NEW i \in 1 .. Len(U), NEW j \in 1 .. Len(U),
         NEW x, x = Place(i, a, b), x # a + 1, NEW y, y = Place(j, a, b), y # a + 1,
         Meets(Z, x, y)
  PROVE  Meets(U, i, j)
<1>0. /\ Len(B) = b /\ \A k \in 1 .. Len(Z) : Z[k] \in Statement
      /\ a \in Nat /\ b \in Nat /\ r \in Nat
  BY DEF Replaces
<1>1. U[i] = Z[x] /\ x \in 1 .. Len(Z) /\ i \in Nat /\ x \in Nat
  BY PlacedOne
<1>a. U[j] = Z[y] /\ y \in 1 .. Len(Z) /\ j \in Nat /\ y \in Nat
  BY PlacedOne
<1>2. x < y
  BY DEF Meets
<1>3. i < j
  <2>1. ~(j < i)
    <3>1. ASSUME j < i PROVE y < x
      BY <3>1, PlacedBefore
    <3> QED  BY <1>1, <1>a, <1>2, <3>1
  <2> QED  BY <1>1, <1>a, <1>2, <2>1
<1>4. ASSUME NEW n \in i + 1 .. j - 1 PROVE Inside(U[i], U[n])
  <2>1. n \in 1 .. Len(U) /\ i < n /\ n < j
    BY <1>1, <1>a
  <2> DEFINE m == Place(n, a, b)
  <2>2. /\ m \in 1 .. Len(Z) /\ m \in Nat
        /\ m = a + 1 => n - a \in 1 .. b /\ U[n] = B[n - a]
        /\ m # a + 1 => U[n] = Z[m]
    BY <2>1, PlacedOne
  <2>3. x < m /\ m < y
    <3>1. x < m
      BY <2>1, PlacedBefore
    <3>2. m < y
      BY <2>1, PlacedBefore
    <3> QED  BY <3>1, <3>2
  <2> HIDE DEF m
  <2>4. m \in x + 1 .. y - 1
    BY <1>1, <1>a, <2>2, <2>3
  <2>5. Inside(Z[x], Z[m])
    BY <2>4 DEF Meets
  <2>7. CASE m = a + 1
    <3>1. Inside(Z[x], Z[a + 1]) /\ n - a \in 1 .. Len(B) /\ Z[x] \in Statement
      BY <1>0, <1>1, <2>2, <2>5, <2>7
    <3>2. Inside(Z[x], B[n - a])
      BY <3>1 DEF Stands
    <3> QED  BY <1>1, <2>2, <2>7, <3>2
  <2> QED  BY <1>1, <2>2, <2>5, <2>7
<1>5. Opens(U[i]) /\ Closes(U[j]) /\ U[j].of = U[i].of
  BY <1>1, <1>a DEF Meets
<1> QED  BY <1>3, <1>4, <1>5 DEF Meets

(* The parentheses in what replaces it.                                       *)
LEMMA MeetsWithin ==
  ASSUME NEW a, NEW b, NEW r, NEW U, NEW Z, NEW B, Replaces(U, Z, B, a, b, r),
         NEW x \in 1 .. Len(B), NEW y \in 1 .. Len(B), Meets(B, x, y)
  PROVE  Meets(U, a + x, a + y)
<1>0. a \in Nat /\ x \in Nat /\ y \in Nat
  BY DEF Replaces
<1>1. x < y /\ Opens(B[x]) /\ Closes(B[y]) /\ B[y].of = B[x].of
  BY DEF Meets
<1>2. U[a + x] = B[x] /\ U[a + y] = B[y]
  BY PlacedBody
<1>3. ASSUME NEW n \in (a + x) + 1 .. (a + y) - 1 PROVE Inside(U[a + x], U[n])
  <2> DEFINE m == n - a
  <2>1. m \in x + 1 .. y - 1 /\ m \in 1 .. Len(B) /\ n = a + m
    BY <1>0
  <2> HIDE DEF m
  <2>2. U[n] = B[m]
    BY <2>1, PlacedBody
  <2>3. Inside(B[x], B[m])
    BY <2>1 DEF Meets
  <2> QED  BY <1>2, <2>2, <2>3
<1>4. a + x < a + y
  BY <1>0, <1>1
<1> QED  BY <1>1, <1>2, <1>3, <1>4 DEF Meets

LEMMA MatchedPlaced ==
  ASSUME NEW a, NEW b, NEW r, NEW U, NEW Z, NEW B, Replaces(U, Z, B, a, b, r),
         NEW s, s = Z[a + 1], Matched(Z), ~Opens(s), ~Closes(s), Stands(B, s)
  PROVE  Matched(U)
<1>0. Len(B) = b /\ a \in Nat
  BY DEF Replaces
<1>a. Stands(B, Z[a + 1]) /\ ~Opens(Z[a + 1]) /\ ~Closes(Z[a + 1])
  OBVIOUS
<1>b. Matched(B)
  BY DEF Stands
<1>1. ASSUME NEW i \in 1 .. Len(U), Closes(U[i])
      PROVE  \E j \in 1 .. Len(U) : Meets(U, j, i)
  <2> DEFINE y == Place(i, a, b)
             v == i - a
  <2>1. /\ y \in 1 .. Len(Z) /\ i \in Nat
        /\ y = a + 1 => v \in 1 .. b /\ U[i] = B[v]
        /\ y # a + 1 => U[i] = Z[y]
    BY PlacedOne
  <2>2. CASE y = a + 1
    <3>1. v \in 1 .. Len(B) /\ U[i] = B[v] /\ i = a + v
      BY <1>0, <2>1, <2>2
    <3> HIDE DEF v, y
    <3>2. PICK x \in 1 .. Len(B) : Meets(B, x, v)
      BY <1>1, <1>b, <3>1 DEF Matched
    <3>3. Meets(U, a + x, i)
      BY <3>1, <3>2, MeetsWithin
    <3>4. a + x \in 1 .. Len(U)
      BY PlacedBody
    <3> QED  BY <3>3, <3>4
  <2>3. CASE y # a + 1
    <3>a. y \in 1 .. Len(Z) /\ Closes(Z[y])
      BY <1>1, <2>1, <2>3
    <3> HIDE DEF y
    <3>1. PICK x \in 1 .. Len(Z) : Meets(Z, x, y)
      BY <3>a DEF Matched
    <3>2. x # a + 1
      BY <1>a, <3>1 DEF Meets
    <3>3. PICK j \in 1 .. Len(U) : Place(j, a, b) = x
      BY <3>2, PlacedFrom
    <3>4. Meets(U, j, i)
      BY <1>a, <2>3, <3>1, <3>2, <3>3, MeetsAround DEF y
    <3> QED  BY <3>4
  <2> QED  BY <2>2, <2>3
<1>2. ASSUME NEW i \in 1 .. Len(U), Opens(U[i])
      PROVE  \E j \in 1 .. Len(U) : Meets(U, i, j)
  <2> DEFINE x == Place(i, a, b)
             v == i - a
  <2>1. /\ x \in 1 .. Len(Z) /\ i \in Nat
        /\ x = a + 1 => v \in 1 .. b /\ U[i] = B[v]
        /\ x # a + 1 => U[i] = Z[x]
    BY PlacedOne
  <2>2. CASE x = a + 1
    <3>1. v \in 1 .. Len(B) /\ U[i] = B[v] /\ i = a + v
      BY <1>0, <2>1, <2>2
    <3> HIDE DEF v, x
    <3>2. PICK y \in 1 .. Len(B) : Meets(B, v, y)
      BY <1>2, <1>b, <3>1 DEF Matched
    <3>3. Meets(U, i, a + y)
      BY <3>1, <3>2, MeetsWithin
    <3>4. a + y \in 1 .. Len(U)
      BY PlacedBody
    <3> QED  BY <3>3, <3>4
  <2>3. CASE x # a + 1
    <3>a. x \in 1 .. Len(Z) /\ Opens(Z[x])
      BY <1>2, <2>1, <2>3
    <3> HIDE DEF x
    <3>1. PICK y \in 1 .. Len(Z) : Meets(Z, x, y)
      BY <3>a DEF Matched
    <3>2. y # a + 1
      BY <1>a, <3>1 DEF Meets
    <3>3. PICK j \in 1 .. Len(U) : Place(j, a, b) = y
      BY <3>2, PlacedFrom
    <3>4. Meets(U, i, j)
      BY <1>a, <2>3, <3>1, <3>2, <3>3, MeetsAround DEF x
    <3> QED  BY <3>4
  <2> QED  BY <2>2, <2>3
<1> QED  BY <1>1, <1>2 DEF Matched

(* A statement that is replaced by those that stand for it.                   *)
LEMMA Replaced ==
  ASSUME NEW a, NEW b, NEW r, NEW U, NEW Z, NEW B, Replaces(U, Z, B, a, b, r),
         Told(Z), NEW s, s = Z[a + 1], ~Opens(s), ~Closes(s), Stands(B, s)
  PROVE  Told(U)
<1>1. Len(B) = b /\ a \in Nat /\ U \in Seq(Statement)
  BY DEF Replaces
<1>2. ASSUME NEW i \in 1 .. Len(U), NEW k, k = Place(i, a, b)
      PROVE  Prints(U[i]) /\ Zone(U[i]) \subseteq Zone(Z[k])
  <2>1. /\ k \in 1 .. Len(Z)
        /\ k = a + 1 => i - a \in 1 .. b /\ U[i] = B[i - a]
        /\ k # a + 1 => U[i] = Z[k]
    BY <1>2, PlacedOne
  <2>2. CASE k = a + 1
    <3>1. i - a \in 1 .. Len(B) /\ U[i] = B[i - a] /\ Z[k] = s
      BY <1>1, <2>1, <2>2
    <3>2. Prints(B[i - a]) /\ Zone(B[i - a]) \subseteq Zone(s)
      BY <3>1 DEF Stands
    <3> QED  BY <3>1, <3>2
  <2>3. CASE k # a + 1
    BY <2>1, <2>3 DEF Told
  <2> QED  BY <2>2, <2>3
<1>5. Ordered(U)
  <2> SUFFICES ASSUME NEW i \in 1 .. Len(U), NEW j \in 1 .. Len(U), i < j,
                      NEW q \in Zone(U[i]), NEW t \in Zone(U[j])
               PROVE  Precedes(q, t)
    BY DEF Ordered
  <2> DEFINE x == Place(i, a, b)
             y == Place(j, a, b)
  <2>1. x < y \/ (x = a + 1 /\ y = a + 1)
    BY PlacedBefore
  <2>2. q \in Zone(Z[x]) /\ t \in Zone(Z[y])
    BY <1>2
  <2>3. x \in 1 .. Len(Z) /\ i \in Nat /\ (x = a + 1 => i - a \in 1 .. b /\ U[i] = B[i - a])
    BY PlacedOne
  <2>4. y \in 1 .. Len(Z) /\ j \in Nat /\ (y = a + 1 => j - a \in 1 .. b /\ U[j] = B[j - a])
    BY PlacedOne
  <2> HIDE DEF x, y
  <2>5. CASE x < y
    BY <2>2, <2>3, <2>4, <2>5 DEF Told, Ordered
  <2>6. CASE x = a + 1 /\ y = a + 1
    <3>1. i - a \in 1 .. Len(B) /\ j - a \in 1 .. Len(B) /\ i - a < j - a
      BY <1>1, <2>3, <2>4, <2>6
    <3>2. Ordered(B)
      BY DEF Stands
    <3>3. q \in Zone(B[i - a]) /\ t \in Zone(B[j - a])
      BY <2>3, <2>4, <2>6
    <3> QED  BY <3>1, <3>2, <3>3 DEF Ordered
  <2> QED  BY <2>1, <2>5, <2>6
<1>6. Covered(U)
  <2> SUFFICES ASSUME NEW q \in Named
               PROVE  \E i \in 1 .. Len(U) : q \in Zone(U[i])
    BY DEF Covered
  <2>1. PICK k \in 1 .. Len(Z) : q \in Zone(Z[k])
    BY DEF Told, Covered
  <2>2. CASE k = a + 1
    <3>1. q \in Zone(s)
      BY <2>1, <2>2
    <3>2. PICK j \in 1 .. Len(B) : q \in Zone(B[j])
      BY <3>1 DEF Stands
    <3>3. a + j \in 1 .. Len(U) /\ U[a + j] = B[j]
      BY PlacedBody
    <3> QED  BY <3>2, <3>3
  <2>3. CASE k # a + 1
    <3>1. PICK i \in 1 .. Len(U) : U[i] = Z[k]
      BY <2>3, PlacedFrom
    <3> QED  BY <2>1, <3>1
  <2> QED  BY <2>2, <2>3
<1>7. Matched(U)
  <2>1. Matched(Z)
    BY DEF Told
  <2> QED  BY <2>1, MatchedPlaced
<1> QED  BY <1>1, <1>2, <1>5, <1>6, <1>7 DEF Told

(* What a visitor does stands for its call.                                   *)
LEMMA SaidStands ==
  ASSUME root \in Roots, NEW p \in DOMAIN root, NEW b, Said(b, p),
         NEW s, s.do = "call", s.at = p
  PROVE  Stands(b, s)
<1>0. IsTree(root) /\ p \in Seq(Fields)
  BY RootsAre, NodeIs
<1>1. p \in Above(p)
  BY <1>0, AboveOrder
<1>2. ASSUME NEW k \in 1 .. Len(b) PROVE Prints(b[k]) /\ b[k].of = p
  BY DEF Said
<1>3. ASSUME NEW k \in 1 .. Len(b), b[k].do = "call"
      PROVE  /\ p \in Above(b[k].at) \ {b[k].at} /\ b[k].at \in DOMAIN root
             /\ b[k].at \in Seq(Fields)
  <2>1. p \in Above(b[k].at) \ {b[k].at}
    BY <1>3 DEF Said
  <2>2. b[k].at \in DOMAIN root
    BY <1>2, <1>3 DEF Prints
  <2> QED  BY <1>0, <2>1, <2>2, NodeIs
<1>4. Ordered(b)
  BY DEF Said, Ordered
<1>5. Matched(b)
  <2>1. ASSUME NEW j \in 1 .. Len(b), NEW k \in 1 .. Len(b), Pairs(b, j, k)
        PROVE  Meets(b, j, k)
    <3>1. ASSUME NEW i \in j + 1 .. k - 1 PROVE Inside(b[j], b[i])
      <4>1. i \in 1 .. Len(b) /\ ~Opens(b[i]) /\ ~Closes(b[i])
        BY <2>1 DEF Pairs
      <4>2. b[j].of = p /\ b[i].of = p
        BY <1>2, <4>1
      <4>3. CASE b[i].do = "call"
        BY <1>3, <4>1, <4>2, <4>3 DEF Inside
      <4>4. CASE b[i].do # "call"
        BY <1>1, <4>1, <4>2, <4>4 DEF Inside
      <4> QED  BY <4>3, <4>4
    <3>2. b[k].of = b[j].of
      BY <1>2
    <3>3. j < k /\ Opens(b[j]) /\ Closes(b[k])
      BY <2>1 DEF Pairs
    <3> QED  BY <3>1, <3>2, <3>3 DEF Meets
  <2>2. Balanced(b)
    BY DEF Said
  <2> QED  BY <2>1, <2>2 DEF Balanced, Matched
<1>6. ASSUME NEW k \in 1 .. Len(b), NEW q \in Zone(b[k]) PROVE q \in Zone(s)
  <2>1. CASE b[k].do = "call"
    <3>1. q \in DOMAIN root /\ b[k].at \in Above(q)
      BY <2>1 DEF Zone
    <3>2. q \in Seq(Fields)
      BY <1>0, <3>1, NodeIs
    <3>3. p \in Above(q) \ {q}
      BY <1>0, <1>3, <2>1, <3>1, <3>2, AboveBoth
    <3> QED  BY <3>1, <3>3 DEF Zone
  <2>2. CASE b[k].do # "call"
    BY <1>1, <1>2, <2>2 DEF Zone
  <2> QED  BY <2>1, <2>2
<1>7. ASSUME NEW q \in Named \cap Zone(s)
      PROVE  \E k \in 1 .. Len(b) : q \in Zone(b[k])
  <2>1. p \in Above(q)
    BY DEF Zone
  <2> QED  BY <2>1 DEF Said
<1>8. ASSUME NEW t \in Statement, NEW k \in 1 .. Len(b), Inside(t, s)
      PROVE  Inside(t, b[k])
  <2>1. t.of \in Above(p) \ {p}
    BY <1>8 DEF Inside
  <2>2. CASE b[k].do = "call"
    <3>1. t.of \in Seq(Fields)
      BY DEF Statement
    <3>2. t.of \in Above(b[k].at) \ {b[k].at}
      BY <1>0, <1>3, <2>1, <2>2, <3>1, AboveBoth
    <3> QED  BY <2>2, <3>2 DEF Inside
  <2>3. CASE b[k].do # "call"
    BY <1>2, <2>1, <2>3 DEF Inside
  <2> QED  BY <2>2, <2>3
<1>9. b \in Seq(Statement)
  BY DEF Said
<1> QED  BY <1>2, <1>4, <1>5, <1>6, <1>7, <1>8, <1>9 DEF Stands

(* Whatever is read at an address stands for the character.                   *)
LEMMA AddressStands ==
  ASSUME root \in Roots, NEW s \in Statement, s.do = "address", Prints(s),
         NEW b, b = <<[s EXCEPT !.what = "anything"]>>
  PROVE  Stands(b, s)
<1> DEFINE t == [s EXCEPT !.what = "anything"]
<1>1. "anything" \in Subjects
  BY RootsAre DEF Subjects
<1>2. /\ t \in Statement /\ t.do = "address" /\ t.what = "anything" /\ t.of = s.of
      /\ t.at = s.at /\ t.len = s.len
  BY <1>1 DEF Statement
<1>3. b = <<t>>
  OBVIOUS
<1> HIDE DEF t
<1>4. b \in Seq(Statement) /\ Len(b) = 1 /\ b[1] = t
  BY <1>2, <1>3, OneOf
<1>5. Naming(s) /\ Naming(t) /\ ~Opens(t) /\ ~Closes(t)
  BY <1>2 DEF Naming, Opens, Closes
<1>6. Prints(t)
  BY <1>2, <1>5 DEF Prints
<1>7. Zone(t) = Zone(s)
  BY <1>2, <1>5 DEF Zone
<1>8. ASSUME NEW u \in Statement, Inside(u, s) PROVE Inside(u, t)
  BY <1>2, <1>5, <1>8 DEF Inside
<1>9. Ordered(b)
  BY <1>4 DEF Ordered
<1>10. Matched(b)
  BY <1>4, <1>5 DEF Matched
<1> QED  BY <1>4, <1>6, <1>7, <1>8, <1>9, <1>10 DEF Stands

LEMMA RootTold ==
  ASSUME root \in Roots, root[<<>>].type \in Visited
  PROVE  Told(<<RootCall>>)
<1> DEFINE s == RootCall
           b == <<s>>
<1>1. /\ b \in Seq(Statement) /\ Len(b) = 1 /\ b[1] = s
      /\ s.do = "call" /\ s.what = root[<<>>].type /\ s.of = <<>> /\ s.at = <<>>
  BY RootCallIs
<1> HIDE DEF b, s
<1>2. IsTree(root)
  BY RootsAre
<1>3. /\ <<>> \in DOMAIN root /\ <<>> \in Seq(Fields) /\ ~InType(<<>>)
      /\ Above(<<>>) = {<<>>}
  BY <1>2, RootIs
<1>4. Prints(s)
  BY <1>1, <1>3 DEF Prints, Calls, Naming
<1>5. Ordered(b)
  BY <1>1 DEF Ordered
<1>6. ASSUME NEW q \in Named PROVE q \in Zone(s)
  <2>1. q \in DOMAIN root
    BY DEF Named
  <2>2. q \in Seq(Fields)
    BY <1>2, <2>1, NodeIs
  <2>3. <<>> \in Above(q)
    BY <2>2, AboveOrder
  <2> QED  BY <1>1, <2>1, <2>3 DEF Zone
<1>7. Matched(b)
  BY <1>1 DEF Matched, Opens, Closes
<1>8. Covered(b)
  BY <1>1, <1>6 DEF Covered
<1> QED  BY <1>1, <1>4, <1>5, <1>7, <1>8 DEF Told, b, s

-----------------------------------------------------------------------------
(* The string writer.                                                        *)

(* The first piece has a NUL behind it, and the next goes behind the length.  *)
Held ==
  /\ buf \in AStrings /\ Cap(buf) \in Nat \ {0} /\ buf.len = 2 * Len(out)
  /\ out # <<>> =>
       Cap(buf) >= 2 /\ buf.data[1] = out[1].what /\ buf.data[2] = NUL

(* The length grows by two with a piece, and what there was stays.           *)
LEMMA PieceIsHeld ==
  ASSUME NEW s \in AStrings, Cap(s) \in Nat \ {0}, NEW c \in Char,
         NEW t, t = as_append_cstr(s, <<c>>), NEW n, n = s.len
  PROVE  /\ t \in AStrings /\ Cap(t) \in Nat \ {0} /\ t.len = n + 2 /\ n + 2 <= Cap(t)
         /\ \A i \in 1 .. n : i <= Cap(s) => t.data[i] = s.data[i]
         /\ t.data[n + 1] = c /\ t.data[n + 2] = NUL
<1> DEFINE need == n + 2
           u == IF need > Cap(s) THEN as_reserve(s, Doubled(Cap(s), need)) ELSE s
           w == Append(<<c>>, NUL)
           d == Overwrite(u.data, n, w)
<1>1. n \in Nat /\ need \in Nat /\ Cap(s) \in Nat
  BY Parts
<1>2. /\ u \in AStrings /\ Cap(u) \in Nat /\ need <= Cap(u) /\ Cap(s) <= Cap(u)
      /\ \A i \in 1 .. Cap(s) : u.data[i] = s.data[i]
  <2>1. CASE need > Cap(s)
    <3> DEFINE m == Doubled(Cap(s), need)
    <3>1. m \in Nat /\ m >= need
      BY <1>1, DoubledSuffices
    <3> HIDE DEF m
    <3>2. /\ as_reserve(s, m) \in AStrings /\ Cap(as_reserve(s, m)) = m
          /\ \A i \in 1 .. m : i <= Cap(s) => as_reserve(s, m).data[i] = s.data[i]
      BY <3>1, reserveGood
    <3>3. u = as_reserve(s, m)
      BY <2>1 DEF m
    <3>4. Cap(s) <= m /\ \A i \in 1 .. Cap(s) : i \in 1 .. m /\ i <= Cap(s)
      BY <1>1, <2>1, <3>1
    <3> HIDE DEF u
    <3> QED  BY <3>1, <3>2, <3>3, <3>4
  <2>2. CASE ~(need > Cap(s))
    BY <1>1, <2>2
  <2> QED  BY <2>1, <2>2
<1>3. t = [data |-> d, len |-> n + 2]
  <2>1. Len(<<c>>) = 1
    OBVIOUS
  <2>2. s.len + 1 + 1 = need /\ s.len + 2 * 1 = n + 2
    BY <1>1
  <2> QED  BY <2>1, <2>2 DEF as_append_cstr
<1> HIDE DEF u
<1>4. u.data \in Seq(Cell) /\ Len(u.data) = Cap(u)
  BY <1>2, Parts
<1>5. w \in Seq(Cell) /\ Len(w) = 2 /\ w[1] = c /\ w[2] = NUL
  <2>1. c \in Cell /\ NUL \in Cell
    BY CharIsCell
  <2>2. <<c>> \in Seq(Cell) /\ Len(<<c>>) = 1 /\ <<c>>[1] = c
    BY <2>1, OneOf
  <2> QED  BY <2>1, <2>2, AppendProperties
<1> HIDE DEF w
<1>6. /\ d \in Seq(Cell) /\ Len(d) = Len(u.data)
      /\ \A i \in 1 .. Len(u.data) :
           d[i] = IF i \in n + 1 .. n + Len(w) THEN w[i - n] ELSE u.data[i]
  <2>1. n \in Nat /\ u.data \in Seq(Cell) /\ w \in Seq(Cell)
    BY <1>1, <1>4, <1>5
  <2> QED  BY <2>1, OverwriteCells
<1> HIDE DEF d
<1>7. d[n + 1] = c
  <2>1. n + 1 \in 1 .. Len(u.data) /\ n + 1 \in n + 1 .. n + 2 /\ (n + 1) - n = 1
    BY <1>1, <1>2, <1>4
  <2> QED  BY <1>5, <1>6, <2>1
<1>8. d[n + 2] = NUL
  <2>1. n + 2 \in 1 .. Len(u.data) /\ n + 2 \in n + 1 .. n + 2 /\ (n + 2) - n = 2
    BY <1>1, <1>2, <1>4
  <2> QED  BY <1>5, <1>6, <2>1
<1>9. ASSUME NEW i \in 1 .. n, i <= Cap(s) PROVE d[i] = s.data[i]
  <2>1. i \in 1 .. Cap(s) /\ i \in 1 .. Len(u.data) /\ ~(i \in n + 1 .. n + 2)
    BY <1>1, <1>2, <1>4, <1>9
  <2> QED  BY <1>2, <1>5, <1>6, <2>1
<1>10. t \in AStrings /\ t.data = d /\ t.len = n + 2
  BY <1>1, <1>3, <1>6 DEF AStrings
<1>11. Cap(t) = Cap(u) /\ n + 2 <= Cap(u) /\ Cap(u) \in Nat \ {0}
  BY <1>1, <1>2, <1>4, <1>6, <1>10 DEF Cap
<1> QED  BY <1>7, <1>8, <1>9, <1>10, <1>11

LEMMA WritingHolds ==
  ASSUME Held, NEW S, out \in Seq(S), NEW s \in S, s.what \in Char,
         out' = Append(out, s), buf' = as_append_cstr(buf, <<s.what>>)
  PROVE  Held'
<1> DEFINE n == buf.len
<1>1. buf \in AStrings /\ Cap(buf) \in Nat \ {0} /\ n = 2 * Len(out)
  BY DEF Held
<1>2. /\ buf' \in AStrings /\ Cap(buf') \in Nat \ {0} /\ buf'.len = n + 2 /\ n + 2 <= Cap(buf')
      /\ \A i \in 1 .. n : i <= Cap(buf) => buf'.data[i] = buf.data[i]
      /\ buf'.data[n + 1] = s.what /\ buf'.data[n + 2] = NUL
  BY <1>1, PieceIsHeld
<1>3. /\ Len(out) \in Nat /\ Len(out') = Len(out) + 1 /\ out'[Len(out) + 1] = s
      /\ \A i \in 1 .. Len(out) : out'[i] = out[i]
  BY AppendProperties
<1>4. buf'.len = 2 * Len(out')
  BY <1>1, <1>2, <1>3
<1>5. Cap(buf') >= 2
  BY <1>1, <1>2, <1>3
<1>6. buf'.data[1] = out'[1].what /\ buf'.data[2] = NUL
  <2>1. CASE out = <<>>
    <3>1. Len(out) = 0 /\ n = 0
      BY <1>1, <2>1
    <3> QED  BY <1>2, <1>3, <3>1
  <2>2. CASE out # <<>>
    <3>1. Len(out) >= 1
      BY <1>3, <2>2
    <3>2. 1 \in 1 .. Len(out) /\ 1 \in 1 .. n /\ 2 \in 1 .. n
      BY <1>1, <1>3, <3>1
    <3>3. Cap(buf) >= 2 /\ buf.data[1] = out[1].what /\ buf.data[2] = NUL
      BY <2>2 DEF Held
    <3>4. 1 <= Cap(buf) /\ 2 <= Cap(buf)
      BY <1>1, <3>3
    <3> QED  BY <1>2, <1>3, <3>2, <3>3, <3>4
  <2> QED  BY <2>1, <2>2
<1> QED  BY <1>2, <1>4, <1>5, <1>6 DEF Held

LEMMA FirstOf ==
  ASSUME NEW S, NEW d \in Seq(S), Len(d) >= 1
  PROVE  SubSeq(d, 1, 1) = <<d[1]>>
<1>1. 1 \in 1 .. Len(d) /\ d[1] \in S
  BY LenProperties
<1>2. <<d[1]>> \in Seq(S) /\ Len(<<d[1]>>) = 1 /\ <<d[1]>>[1] = d[1]
  BY <1>1
<1>3. /\ SubSeq(d, 1, 1) \in Seq(S) /\ Len(SubSeq(d, 1, 1)) = 1
      /\ SubSeq(d, 1, 1)[1] = d[1]
  BY <1>1, SubSeqProperties
<1> DEFINE x == SubSeq(d, 1, 1)
           y == <<d[1]>>
<1> HIDE DEF x, y
<1>4. x \in Seq(S) /\ y \in Seq(S) /\ Len(x) = Len(y)
  BY <1>2, <1>3 DEF x, y
<1>5. \A i \in 1 .. Len(x) : x[i] = y[i]
  BY <1>2, <1>3 DEF x, y
<1>6. x = y
  BY <1>4, <1>5, SeqEqual
<1> QED  BY <1>6 DEF x, y

LEMMA WriterStops ==
  ASSUME Held, out # <<>> => out[1].what \in Char
  PROVE  StringWriterStopsEarly
<1> SUFFICES ASSUME out # <<>>
             PROVE  SubSeq(buf.data, 1, strlen(buf.data)) = <<out[1].what>>
  BY DEF StringWriterStopsEarly, Held
<1> DEFINE d == buf.data
<1>1. /\ buf \in AStrings /\ Cap(buf) \in Nat /\ Cap(buf) >= 2
      /\ d[1] = out[1].what /\ d[2] = NUL
  BY DEF Held
<1>2. d \in Seq(Cell) /\ Len(d) >= 2 /\ Len(d) \in Nat
  BY <1>1, Parts
<1> HIDE DEF d
<1>3. d[1] # NUL
  BY <1>1, AStringAssumption
<1>4. strlen(d) = 1
  <2>1. 1 \in 0 .. Len(d) - 1 /\ d[1 + 1] = NUL /\ \A j \in 1 .. 1 : d[j] # NUL
    BY <1>1, <1>2, <1>3
  <2> QED  BY <1>2, <2>1, strlenIs
<1>5. SubSeq(d, 1, 1) = <<d[1]>>
  BY <1>2, FirstOf
<1> QED  BY <1>1, <1>4, <1>5 DEF d

-----------------------------------------------------------------------------
(* All of this is about the tree, and the tree stays.                         *)

LEMMA TypesStay ==
  ASSUME root' = root
  PROVE  /\ \A p : InType(p)' <=> InType(p)
         /\ \A p : IsIndexed(p)' <=> IsIndexed(p)
         /\ \A p : Boxes(p)' = Boxes(p)
         /\ LostBlocks' = LostBlocks /\ Statement' = Statement /\ Named' = Named
         /\ RootCall' = RootCall
<1>1. \A p : InType(p)' <=> InType(p)
  BY DEF InType
<1>2. \A p : IsIndexed(p)' <=> IsIndexed(p)
  BY <1>1 DEF IsIndexed
<1>3. \A p : Boxes(p)' = Boxes(p)
  BY DEF Boxes
<1>4. LostBlocks' = LostBlocks
  BY <1>1 DEF LostBlocks
<1>5. Statement' = Statement
  BY DEF Statement, Subjects
<1>6. Named' = Named
  BY <1>1 DEF Named
<1>7. RootCall' = RootCall
  BY DEF RootCall
<1> QED  BY <1>1, <1>2, <1>3, <1>4, <1>5, <1>6, <1>7

LEMMA FreesStay ==
  ASSUME root' = root
  PROVE  /\ \A s : Calls(s)' <=> Calls(s)
         /\ \A s : Frees(s)' <=> Frees(s)
         /\ \A T : Debts(T)' = Debts(T)
         /\ \A T : InOrder(T)' <=> InOrder(T)
         /\ \A s, q : Reaches(s, q)' <=> Reaches(s, q)
<1>1. \A s : Calls(s)' <=> Calls(s)
  BY TypesStay DEF Calls
<1>2. \A s : Frees(s)' <=> Frees(s)
  BY <1>1, TypesStay DEF Frees
<1>3. \A p : Below(p)' = Below(p)
  BY TypesStay DEF Below
<1>4. \A s : Owed(s)' = Owed(s)
  BY <1>3 DEF Owed
<1>5. \A T : Debts(T)' = Debts(T)
  BY <1>4 DEF Debts
<1>6. \A s, t : Fits(s, t)' <=> Fits(s, t)
  BY <1>4 DEF Fits
<1>7. \A T : InOrder(T)' <=> InOrder(T)
  BY <1>6 DEF InOrder
<1>8. \A s, q : Reaches(s, q)' <=> Reaches(s, q)
  BY DEF Reaches
<1> QED  BY <1>1, <1>2, <1>5, <1>7, <1>8

LEMMA SettledStays ==
  ASSUME root' = root
  PROVE  /\ \A T, h, kept : Settled(T, h, kept) => Settled(T, h, kept)'
         /\ \A T : Pending(T) => Pending(T)'
         /\ \A T, h : Repeats(T, h) => Repeats(T, h)'
<1>1. \A T, h, kept : Settled(T, h, kept) => Settled(T, h, kept)'
  BY TypesStay, FreesStay DEF Settled
<1>2. \A T : Pending(T) => Pending(T)'
  BY TypesStay, FreesStay DEF Pending
<1>3. \A s : FreesAgain(s)' <=> FreesAgain(s)
  BY TypesStay DEF FreesAgain
<1>4. \A T, h : Repeats(T, h) => Repeats(T, h)'
  BY <1>1, <1>3 DEF Repeats
<1> QED  BY <1>1, <1>2, <1>4

LEMMA ToldStays ==
  ASSUME root' = root
  PROVE  \A Z : Told(Z) => Told(Z)'
<1>1. \A s : Prints(s)' <=> Prints(s)
  BY TypesStay, FreesStay DEF Prints, Has
<1>2. \A s : Zone(s)' = Zone(s)
  BY DEF Zone
<1>3. \A Z : Ordered(Z)' <=> Ordered(Z)
  BY <1>2 DEF Ordered
<1>4. \A Z : Covered(Z)' <=> Covered(Z)
  BY <1>2, TypesStay DEF Covered
<1>5. \A Z : Matched(Z)' <=> Matched(Z)
  BY DEF Matched
<1> QED  BY <1>1, <1>3, <1>4, <1>5, TypesStay DEF Told

-----------------------------------------------------------------------------
(* Freeing: what is left to do, when a statement is done.                     *)

Unfreed(T, h) ==
  IF root[<<>>].type # "C_ArrayType" THEN Settled(T, h, {}) /\ Pending(T)
  ELSE (T = <<RootCall>> /\ h = Blocks(root)) \/ Repeats(T, h)

LEMMA LastAre ==
  ASSUME NEW S, NEW R \in Seq(S), NEW s \in S
  PROVE  /\ R \o <<s>> \in Seq(S) /\ R \o <<s>> # <<>>
         /\ R # <<>> => Head(R \o <<s>>) = Head(R) /\ Tail(R \o <<s>>) = Tail(R) \o <<s>>
         /\ R = <<>> => Head(R \o <<s>>) = s
<1>1. R \o <<s>> \in Seq(S) /\ R \o <<s>> # <<>>
  OBVIOUS
<1>2. R # <<>> => Head(R \o <<s>>) = Head(R) /\ Tail(R \o <<s>>) = Tail(R) \o <<s>>
  OBVIOUS
<1>3. R = <<>> => Head(R \o <<s>>) = s
  OBVIOUS
<1> QED  BY <1>1, <1>2, <1>3

LEMMA Associate ==
  ASSUME NEW S, NEW A \in Seq(S), NEW B \in Seq(S), NEW C \in Seq(S)
  PROVE  (A \o B) \o C = A \o (B \o C)
OBVIOUS

LEMMA DebtsOfNone == Debts(<<>>) = {}
BY DEF Debts

RepeatsBy(T, h, R, s) ==
  /\ R \in Seq(Statement) /\ s \in Statement /\ T = R \o <<s>>
  /\ FreesAgain(s) /\ Settled(R, h, {Inner})
  /\ T \in Seq(Statement) /\ T # <<>> /\ Inner \in h
  /\ R # <<>> => Head(T) = Head(R) /\ Tail(T) = Tail(R) \o <<s>>
  /\ R = <<>> => Head(T) = s /\ h = LostBlocks \cup {Inner}

LEMMA RepeatsIs ==
  ASSUME NEW T, NEW h, Repeats(T, h)
  PROVE  \E R, s : RepeatsBy(T, h, R, s)
<1>1. PICK R, s : T = R \o <<s>> /\ FreesAgain(s) /\ Settled(R, h, {Inner})
  BY DEF Repeats
<1>2. R \in Seq(Statement) /\ h = LostBlocks \cup {Inner} \cup Debts(R)
  BY <1>1 DEF Settled
<1>3. s \in Statement
  BY <1>1 DEF FreesAgain
<1>4. /\ T \in Seq(Statement) /\ T # <<>>
      /\ R # <<>> => Head(T) = Head(R) /\ Tail(T) = Tail(R) \o <<s>>
      /\ R = <<>> => Head(T) = s
  <2> HIDE DEF Statement
  <2> QED  BY <1>1, <1>2, <1>3, LastAre
<1>5. R = <<>> => h = LostBlocks \cup {Inner}
  BY <1>2, DebtsOfNone
<1>6. RepeatsBy(T, h, R, s)
  BY <1>1, <1>2, <1>3, <1>4, <1>5 DEF RepeatsBy
<1> QED  BY <1>6

(* A statement that is left calls or frees, and an array type keeps a block.  *)
LEMMA UnfreedIs ==
  ASSUME IsTree(root), root[<<>>].type \in Freed, NEW T, NEW h, Unfreed(T, h)
  PROVE  /\ T \in Seq(Statement)
         /\ T # <<>> =>
              /\ Head(T) \in Statement /\ Head(T).do \in {"call", "free"}
              /\ Head(T).do = "call" => Calls(Head(T))
         /\ root[<<>>].type = "C_ArrayType" => T # <<>> /\ h # {}
<1>1. CASE root[<<>>].type # "C_ArrayType"
  <2>1. Settled(T, h, {})
    BY <1>1 DEF Unfreed
  <2>2. T \in Seq(Statement)
    BY <2>1 DEF Settled
  <2>3. ASSUME T # <<>> PROVE Frees(Head(T)) /\ Head(T) \in Statement
    BY <2>1, <2>3, SettledIs
  <2> QED  BY <1>1, <2>2, <2>3 DEF Frees
<1>2. CASE T = <<RootCall>> /\ h = Blocks(root) /\ root[<<>>].type = "C_ArrayType"
  <2>1. /\ <<RootCall>> \in Seq(Statement) /\ <<RootCall>> # <<>> /\ Len(<<RootCall>>) = 1
        /\ <<RootCall>>[1] = RootCall /\ RootCall.do = "call"
        /\ RootCall.what = root[<<>>].type /\ RootCall.at = <<>>
    BY RootCallIs
  <2>2. Head(T) = RootCall
    BY <1>2
  <2>3. Head(T) \in Statement
    <3> HIDE DEF Statement
    <3> QED  BY <1>2, <2>1, TailIs
  <2>4. Calls(Head(T))
    BY <2>1, <2>2 DEF Calls
  <2>5. h # {}
    BY <1>2, ArrayIs
  <2> QED  BY <1>2, <2>1, <2>2, <2>3, <2>4, <2>5
<1>3. CASE Repeats(T, h) /\ root[<<>>].type = "C_ArrayType"
  <2>0. PICK R, s : RepeatsBy(T, h, R, s)
    BY <1>3, RepeatsIs
  <2>1. /\ R \in Seq(Statement) /\ s \in Statement /\ T = R \o <<s>>
        /\ FreesAgain(s) /\ Settled(R, h, {Inner})
        /\ T \in Seq(Statement) /\ T # <<>> /\ Inner \in h
        /\ R # <<>> => Head(T) = Head(R) /\ Tail(T) = Tail(R) \o <<s>>
        /\ R = <<>> => Head(T) = s /\ h = LostBlocks \cup {Inner}
    BY <2>0 DEF RepeatsBy
  <2>2. ASSUME R # <<>> PROVE Frees(Head(T)) /\ Head(T) \in Statement
    BY <2>1, <2>2, SettledIs
  <2>3. ASSUME R = <<>> PROVE Head(T) \in Statement /\ Head(T).do = "free"
    BY <2>1, <2>3 DEF FreesAgain
  <2>4. h # {}
    BY <2>1
  <2> QED  BY <1>3, <2>1, <2>2, <2>3, <2>4 DEF Frees
<1> QED  BY <1>1, <1>2, <1>3 DEF Unfreed

LEMMA UnfreedCall ==
  ASSUME IsTree(root), root[<<>>].type \in Freed, NEW T, NEW h, Unfreed(T, h), T # <<>>,
         NEW s, s = Head(T), s.do = "call", root[s.at].type = s.what,
         NEW body, body = Placed(FreeBody(s.what, root[s.at]), s.at)
  PROVE  Unfreed(body \o Tail(T), h) /\ body \o Tail(T) \in Seq(Statement)
<1>1. ASSUME NEW R, NEW kept, Settled(R, h, kept), R # <<>>, Head(R) = s
      PROVE  Pays(body, s.at) /\ body \in Seq(Statement) /\ Frees(s)
  <2>1. Frees(s)
    BY <1>1, SettledIs
  <2>2. s.at \in DOMAIN root /\ ~InType(s.at) /\ s.what \in Freed \ {"C_ArrayType"}
    BY <2>1 DEF Frees
  <2>3. Pays(body, s.at)
    BY <2>2, FreePays
  <2> QED  BY <2>1, <2>3 DEF Pays
<1>2. CASE root[<<>>].type # "C_ArrayType"
  <2>1. Settled(T, h, {}) /\ Pending(T)
    BY <1>2 DEF Unfreed
  <2>2. T \in Seq(Statement)
    BY <2>1 DEF Settled
  <2>3. Pays(body, s.at) /\ body \in Seq(Statement) /\ Frees(s)
    BY <1>1, <2>1
  <2>4. Settled(body \o Tail(T), h, {})
    BY <2>1, <2>3, CallSettles
  <2>5. Pending(body \o Tail(T))
    BY <2>1, <2>2, <2>3, CallReaches
  <2> QED  BY <1>2, <2>4, <2>5 DEF Unfreed, Settled
<1>3. CASE T = <<RootCall>> /\ h = Blocks(root) /\ root[<<>>].type = "C_ArrayType"
  <2>1. RootCall.do = "call" /\ RootCall.what = root[<<>>].type /\ RootCall.at = <<>>
    BY RootCallIs
  <2>2. s = RootCall /\ Tail(T) = <<>>
    BY <1>3
  <2>3. body = Placed(FreeBody("C_ArrayType", root[<<>>]), <<>>)
    BY <1>3, <2>1, <2>2
  <2>4. Repeats(body, h)
    BY <1>3, <2>3, ArraySettles
  <2>5. body \in Seq(Statement)
    BY <2>4, RepeatsIs DEF RepeatsBy
  <2>6. body \o Tail(T) = body
    <3> HIDE DEF Statement
    <3> QED  BY <2>2, <2>5
  <2> QED  BY <1>3, <2>4, <2>5, <2>6 DEF Unfreed
<1>4. CASE Repeats(T, h) /\ root[<<>>].type = "C_ArrayType"
  <2>0. PICK R, u : RepeatsBy(T, h, R, u)
    BY <1>4, RepeatsIs
  <2>1. /\ R \in Seq(Statement) /\ u \in Statement /\ T = R \o <<u>>
        /\ FreesAgain(u) /\ Settled(R, h, {Inner})
        /\ T \in Seq(Statement) /\ T # <<>> /\ Inner \in h
        /\ R # <<>> => Head(T) = Head(R) /\ Tail(T) = Tail(R) \o <<u>>
        /\ R = <<>> => Head(T) = u /\ h = LostBlocks \cup {Inner}
    BY <2>0 DEF RepeatsBy
  <2>2. R # <<>>
    BY <2>1 DEF FreesAgain
  <2>3. Pays(body, s.at) /\ body \in Seq(Statement) /\ Head(R) = s
    BY <1>1, <2>1, <2>2
  <2>4. Settled(body \o Tail(R), h, {Inner})
    BY <2>1, <2>2, <2>3, CallSettles
  <2>5. body \o Tail(T) = (body \o Tail(R)) \o <<u>>
    <3> HIDE DEF Statement
    <3>1. Tail(R) \in Seq(Statement)
      BY <2>1, <2>2, TailIs
    <3>2. <<u>> \in Seq(Statement)
      BY <2>1, OneOf
    <3> DEFINE V == Tail(R)
               l == <<u>>
    <3>3. Tail(T) = V \o l
      BY <2>1, <2>2
    <3> HIDE DEF V, l
    <3>4. V \in Seq(Statement) /\ l \in Seq(Statement) /\ body \in Seq(Statement)
      BY <2>3, <3>1, <3>2 DEF V, l
    <3>5. (body \o V) \o l = body \o (V \o l)
      BY <3>4, Associate
    <3> QED  BY <3>3, <3>5 DEF V, l
  <2>6. Repeats(body \o Tail(T), h)
    BY <2>1, <2>4, <2>5 DEF Repeats
  <2>7. body \o Tail(T) \in Seq(Statement)
    BY <2>6, RepeatsIs DEF RepeatsBy
  <2> QED  BY <1>4, <2>6, <2>7 DEF Unfreed
<1> QED  BY <1>2, <1>3, <1>4 DEF Unfreed

LEMMA AboveInner ==
  ASSUME NEW p \in Above(Inner), "inner" \in Fields
  PROVE  p = Inner \/ p = <<>>
<1>1. <<>> \in Seq(Fields) /\ Len(<<>>) = 0
  OBVIOUS
<1>2. Inner \in Seq(Fields) /\ Len(Inner) = 1
  BY <1>1 DEF Inner
<1> HIDE DEF Inner
<1>3. p \in Seq(Fields) /\ Len(p) <= 1 /\ Len(p) \in Nat
  BY <1>2, AboveIs
<1>4. ASSUME Len(p) = 1 PROVE p = Inner
  BY <1>2, <1>4, AboveOrder
<1>5. ASSUME Len(p) = 0 PROVE p = <<>>
  BY <1>3, <1>5
<1>6. Len(p) = 1 \/ Len(p) = 0
  <2> DEFINE n == Len(p)
  <2>1. n <= 1 /\ n \in Nat
    BY <1>3
  <2> HIDE DEF n
  <2>2. n = 1 \/ n = 0
    BY <2>1
  <2> QED  BY <2>2 DEF n
<1> QED  BY <1>4, <1>5, <1>6

LEMMA UnfreedFree ==
  ASSUME IsTree(root), root[<<>>].type \in Freed, NEW T, NEW h, Unfreed(T, h), T # <<>>,
         NEW s, s = Head(T), s.do = "free", s.at \in h, h \subseteq Blocks(root)
  PROVE  /\ Unfreed(Tail(T), h \ {s.at}) /\ Tail(T) \in Seq(Statement)
         /\ \A q \in h \ {s.at} : s.at \in Above(q) => q \in LostBlocks
<1>1. CASE root[<<>>].type # "C_ArrayType"
  <2>1. Settled(T, h, {}) /\ Pending(T)
    BY <1>1 DEF Unfreed
  <2>2. T \in Seq(Statement)
    BY <2>1 DEF Settled
  <2>3. /\ Settled(Tail(T), h \ {s.at}, {})
        /\ \A q \in h \ {s.at} : s.at \in Above(q) => q \in LostBlocks \cup {}
    BY <2>1, FreeSettles
  <2>4. Pending(Tail(T))
    BY <2>1, <2>2, FreeReaches
  <2> QED  BY <1>1, <2>3, <2>4 DEF Unfreed, Settled
<1>2. CASE T = <<RootCall>> /\ root[<<>>].type = "C_ArrayType"
  <2>1. RootCall.do = "call"
    BY RootCallIs
  <2>2. s = RootCall
    BY <1>2
  <2> QED  BY <2>1, <2>2
<1>3. CASE Repeats(T, h) /\ root[<<>>].type = "C_ArrayType"
  <2>0. PICK R, u : RepeatsBy(T, h, R, u)
    BY <1>3, RepeatsIs
  <2>1. /\ R \in Seq(Statement) /\ u \in Statement /\ T = R \o <<u>>
        /\ FreesAgain(u) /\ Settled(R, h, {Inner})
        /\ T \in Seq(Statement) /\ T # <<>> /\ Inner \in h
        /\ R # <<>> => Head(T) = Head(R) /\ Tail(T) = Tail(R) \o <<u>>
        /\ R = <<>> => Head(T) = u /\ h = LostBlocks \cup {Inner}
    BY <2>0 DEF RepeatsBy
  <2>2. /\ Size \in Blocks(root) \ LostBlocks /\ Inner \in Seq(Fields) /\ Inner \in Above(Inner)
        /\ Size \notin Above(Inner)
    BY <1>3, ArrayIs
  <2>3. R # <<>>
    <3>1. ASSUME R = <<>> PROVE FALSE
      <4>1. s.at = Size /\ h = LostBlocks \cup {Inner}
        BY <2>1, <3>1 DEF FreesAgain
      <4> QED  BY <2>2, <4>1
    <3> QED  BY <3>1
  <2>4. Head(R) = s /\ Tail(T) = Tail(R) \o <<u>>
    BY <2>1, <2>3
  <2>5. /\ Settled(Tail(R), h \ {s.at}, {Inner})
        /\ \A q \in h \ {s.at} : s.at \in Above(q) => q \in LostBlocks \cup {Inner}
    BY <2>1, <2>3, <2>4, FreeSettles
  <2>6. Repeats(Tail(T), h \ {s.at})
    BY <2>1, <2>4, <2>5 DEF Repeats
  <2>7. Tail(T) \in Seq(Statement)
    BY <2>6, RepeatsIs DEF RepeatsBy
  <2>8. ASSUME NEW q \in h \ {s.at}, s.at \in Above(q) PROVE q \in LostBlocks
    <3>1. s.at \in Above(Inner) => s.at = Inner \/ s.at = <<>>
      BY <1>3, ArrayIs, AboveInner
    <3>2. s.at # <<>>
      BY RootIs
    <3> QED  BY <2>5, <2>8, <3>1, <3>2
  <2> QED  BY <1>3, <2>6, <2>7, <2>8 DEF Unfreed
<1> QED  BY <1>1, <1>2, <1>3 DEF Unfreed

-----------------------------------------------------------------------------
(* What the walk keeps.                                                      *)

Written(s) ==
  s.do \in {"write", "writef", "address"} /\ (s.do = "address" => s.what = "anything")

(* What is written, and T that was left, tell the tree.                       *)
Telling(T) ==
  /\ T \in Seq(Statement)
  /\ out # <<>> \/ stage = "print" => Told(out \o T)
  /\ stage = "print" => T = todo
  /\ stage \in {"free", "freed"} => T = <<>>
Tale ==
  /\ out \in Seq(Statement) /\ \A k \in 1 .. Len(out) : Written(out[k])
  /\ \E T : Telling(T)

(* The inductive invariant.                                                  *)
Inv ==
  /\ root \in Roots /\ stage \in {"print", "free"} \cup Ended /\ heap \subseteq Blocks(root)
  /\ todo \in Seq(Statement) /\ Tale /\ Held
  /\ stage = "print" => heap = Blocks(root)
  /\ stage = "free" => Unfreed(todo, heap)
  /\ AllIsFreed /\ MisusesAreKnown /\ FormatsFit

LEMMA RootsAreTrees ==
  ASSUME root \in Roots
  PROVE  IsTree(root) /\ root[<<>>].type \in Freed
BY RootsAre

(* The statement to print next.                                              *)
LEMMA PrintingIs ==
  ASSUME Inv, stage = "print"
  PROVE  /\ Told(out \o todo) /\ out \in Seq(Statement) /\ todo \in Seq(Statement)
         /\ todo # <<>> => Prints(First) /\ First \in Statement
         /\ heap = Blocks(root) /\ \A p : Alive(p)
<1>1. PICK T : Telling(T)
  BY DEF Inv, Tale
<1>2. Told(out \o todo)
  BY <1>1 DEF Telling
<1>3. out \in Seq(Statement) /\ todo \in Seq(Statement)
  BY DEF Inv, Tale
<1>4. ASSUME todo # <<>> PROVE Prints(First) /\ First \in Statement
  <2> HIDE DEF Statement
  <2>1. First = todo[1] /\ 1 \in 1 .. Len(todo)
    BY <1>3, <1>4, TailIs DEF First
  <2>2. Len(out) + 1 \in 1 .. Len(out \o todo) /\ (out \o todo)[Len(out) + 1] = todo[1]
    <3>1. /\ Len(out \o todo) = Len(out) + Len(todo) /\ Len(out) \in Nat /\ Len(todo) \in Nat
          /\ \A k \in 1 .. Len(todo) : (out \o todo)[Len(out) + k] = todo[k]
      BY <1>3, JoinIs
    <3>2. Len(todo) >= 1
      BY <2>1
    <3>3. Len(out) + 1 \in 1 .. Len(out \o todo)
      BY <3>1, <3>2
    <3> QED  BY <2>1, <3>1, <3>3
  <2>3. Prints((out \o todo)[Len(out) + 1])
    BY <1>2, <2>2 DEF Told
  <2>4. todo[1] \in Statement
    BY <1>3, <2>1
  <2> QED  BY <2>1, <2>2, <2>3, <2>4
<1>5. heap = Blocks(root)
  BY DEF Inv
<1>6. \A p : Alive(p)
  BY <1>5 DEF Alive, Boxes
<1> QED  BY <1>2, <1>3, <1>4, <1>5, <1>6

(* The statement to free next.                                               *)
LEMMA FreeingIs ==
  ASSUME Inv, stage = "free"
  PROVE  /\ todo # <<>> =>
              /\ First \in Statement /\ First.do \in {"call", "free"}
              /\ First.do = "call" => Calls(First)
         /\ root[<<>>].type = "C_ArrayType" => todo # <<>> /\ heap # {}
<1>1. IsTree(root) /\ root[<<>>].type \in Freed /\ Unfreed(todo, heap)
  BY RootsAreTrees DEF Inv
<1> QED  BY <1>1, UnfreedIs DEF First

LEMMA Confused ==
  ASSUME NEW s, Calls(s), root[s.at].type # s.what
  PROVE  HasIndexedLvalue
BY DEF Calls, IsIndexed, HasIndexedLvalue

(* The process ends here, or the tree is freed.                               *)
LEMMA GotoKeeps ==
  ASSUME Inv, NEW s \in Ended \ {"freed"}, Goto(s), MisusesAreKnown'
  PROVE  Inv'
<1>1. stage' = s /\ UNCHANGED <<root, todo, heap, out, buf>>
  BY DEF Goto
<1>2. s \notin {"print", "free", "freed"}
  BY DEF Ended
<1>3. Tale'
  <2>1. PICK T : Telling(T)
    BY DEF Inv, Tale
  <2>2. ASSUME Told(out \o T) PROVE Told(out \o T)'
    <3>1. Told(out' \o T)
      BY <1>1, <2>2
    <3> QED  BY <1>1, <3>1, ToldStays
  <2>3. Telling(T)'
    <3>1. T \in Seq(Statement')
      BY <1>1, <2>1, TypesStay DEF Telling
    <3> QED  BY <1>1, <1>2, <2>1, <2>2, <3>1 DEF Telling
  <2>4. out' \in Seq(Statement') /\ \A k \in 1 .. Len(out') : Written(out'[k])
    BY <1>1, TypesStay DEF Inv, Tale
  <2> QED  BY <2>3, <2>4 DEF Tale, Written
<1>4. Held'
  BY <1>1 DEF Inv, Held
<1>5. todo' \in Seq(Statement')
  BY <1>1, TypesStay DEF Inv
<1>6. FormatsFit'
  BY <1>1 DEF Inv, FormatsFit, First
<1>7. AllIsFreed'
  BY <1>1, <1>2 DEF AllIsFreed
<1>8. root' \in Roots /\ stage' \in Ended /\ heap' \subseteq Blocks(root')
  BY <1>1 DEF Inv
<1> QED  BY <1>1, <1>2, <1>3, <1>4, <1>5, <1>6, <1>7, <1>8 DEF Inv

(* A statement of the printer is done.                                       *)
LEMMA PrintKeeps ==
  ASSUME Inv, stage' = "print", root' = root, heap' = heap, heap = Blocks(root), Held',
         NEW o \in Seq(Statement), out' = o, \A k \in 1 .. Len(o) : Written(o[k]),
         NEW t \in Seq(Statement), todo' = t, Told(o \o t)
  PROVE  Inv'
<1>1. Told(out \o todo)'
  <2>1. Told(out' \o todo')
    OBVIOUS
  <2> QED  BY <2>1, ToldStays
<1>2. Tale'
  <2>1. Telling(todo)'
    <3>1. todo' \in Seq(Statement')
      BY TypesStay
    <3> QED  BY <1>1, <3>1 DEF Telling
  <2>2. out' \in Seq(Statement') /\ \A k \in 1 .. Len(out') : Written(out'[k])
    BY TypesStay
  <2> QED  BY <2>1, <2>2 DEF Tale, Written
<1>3. FormatsFit'
  <2>1. ASSUME t # <<>>, Head(t).do = "writef" PROVE Head(t).len < AP_WRITEF_MAXSIZE
    <3> HIDE DEF Statement
    <3>1. Head(t) = t[1] /\ 1 \in 1 .. Len(t)
      BY <2>1, TailIs
    <3>2. /\ Len(o \o t) = Len(o) + Len(t) /\ Len(o) \in Nat /\ Len(t) \in Nat
          /\ \A k \in 1 .. Len(t) : (o \o t)[Len(o) + k] = t[k]
      BY JoinIs
    <3>3. Len(o) + 1 \in 1 .. Len(o \o t) /\ (o \o t)[Len(o) + 1] = t[1]
      BY <3>1, <3>2
    <3>4. Prints(t[1])
      BY <3>3 DEF Told
    <3> QED  BY <2>1, <3>1, <3>4 DEF Prints
  <2> QED  BY <2>1 DEF FormatsFit, First
<1>4. root' \in Roots /\ heap' = Blocks(root') /\ todo' \in Seq(Statement')
  BY TypesStay DEF Inv, Blocks
<1>5. AllIsFreed' /\ MisusesAreKnown'
  BY DEF AllIsFreed, MisusesAreKnown
<1> QED  BY <1>2, <1>3, <1>4, <1>5 DEF Inv

(* A statement that frees is done, or freeing begins.                        *)
LEMMA FreeKeeps ==
  ASSUME Inv, stage' = "free", root' = root, out' = out, buf' = buf,
         out # <<>> => Told(out \o <<>>),
         NEW t, todo' = t, NEW h, heap' = h, h \subseteq Blocks(root), Unfreed(t, h)
  PROVE  Inv'
<1>1. IsTree(root) /\ root[<<>>].type \in Freed
  BY RootsAreTrees DEF Inv
<1>2. Unfreed(todo, heap)'
  <2>1. Unfreed(todo', heap')
    OBVIOUS
  <2>2. CASE root[<<>>].type # "C_ArrayType"
    <3>1. Settled(todo', heap', {}) /\ Pending(todo')
      BY <2>1, <2>2 DEF Unfreed
    <3>2. Settled(todo, heap, {})' /\ Pending(todo)'
      BY <3>1, SettledStays
    <3> QED  BY <2>2, <3>2 DEF Unfreed
  <2>3. CASE root[<<>>].type = "C_ArrayType"
    <3>1. (todo' = <<RootCall>> /\ heap' = Blocks(root)) \/ Repeats(todo', heap')
      BY <2>1, <2>3 DEF Unfreed
    <3>2. CASE Repeats(todo', heap')
      <4>1. Repeats(todo, heap)'
        BY <3>2, SettledStays
      <4> QED  BY <2>3, <4>1 DEF Unfreed
    <3>3. CASE todo' = <<RootCall>> /\ heap' = Blocks(root)
      BY <2>3, <3>3, TypesStay DEF Unfreed, Blocks
    <3> QED  BY <3>1, <3>2, <3>3
  <2> QED  BY <2>2, <2>3
<1>3. /\ t \in Seq(Statement)
      /\ t # <<>> => Head(t).do \in {"call", "free"}
  BY <1>1, UnfreedIs
<1>4. Tale'
  <2>1. ASSUME out' # <<>> PROVE Told(out \o <<>>)'
    <3>1. Told(out' \o <<>>)
      BY <2>1
    <3> QED  BY <3>1, ToldStays
  <2>2. Telling(<<>>)'
    <3>1. <<>> \in Seq(Statement')
      OBVIOUS
    <3> QED  BY <2>1, <3>1 DEF Telling
  <2>3. out' \in Seq(Statement') /\ \A k \in 1 .. Len(out') : Written(out'[k])
    BY TypesStay DEF Inv, Tale
  <2> QED  BY <2>2, <2>3 DEF Tale, Written
<1>5. FormatsFit'
  BY <1>3 DEF FormatsFit, First
<1>6. root' \in Roots /\ heap' \subseteq Blocks(root') /\ todo' \in Seq(Statement')
  BY <1>3, TypesStay DEF Inv
<1>7. AllIsFreed' /\ MisusesAreKnown'
  BY DEF AllIsFreed, MisusesAreKnown
<1>8. Held'
  BY DEF Inv, Held
<1> QED  BY <1>2, <1>4, <1>5, <1>6, <1>7, <1>8 DEF Inv

LEMMA LenInNat ==
  ASSUME NEW S, NEW A \in Seq(S) PROVE Len(A) \in Nat
OBVIOUS

LEMMA AppendIs ==
  ASSUME NEW S, NEW A \in Seq(S), NEW s \in S, NEW R \in Seq(S)
  PROVE  /\ <<s>> \in Seq(S) /\ Append(A, s) \in Seq(S) /\ Append(A, s) = A \o <<s>>
         /\ Len(Append(A, s)) = Len(A) + 1 /\ Append(A, s)[Len(A) + 1] = s
         /\ \A k \in 1 .. Len(A) : Append(A, s)[k] = A[k]
         /\ Append(A, s) \o R = A \o (<<s>> \o R)
<1>1. <<s>> \in Seq(S) /\ Append(A, s) \in Seq(S) /\ Append(A, s) = A \o <<s>>
  OBVIOUS
<1>2. (A \o <<s>>) \o R = A \o (<<s>> \o R)
  BY <1>1, Associate
<1> QED  BY <1>1, <1>2

LEMMA HeadAndTail ==
  ASSUME NEW S, NEW T \in Seq(S), T # <<>>
  PROVE  Head(T) \in S /\ Tail(T) \in Seq(S) /\ <<Head(T)>> \o Tail(T) = T
OBVIOUS

(* The statement s writes the piece that the first statement left makes of it.   *)
Makes(s, piece) ==
  s = [First EXCEPT !.what = piece] /\ s.what = piece /\ Writing(piece)

(* A piece is written.                                                       *)
LEMMA WritingKeeps ==
  ASSUME Inv, stage = "print", todo # <<>>, NEW piece \in Pieces,
         NEW s \in Statement, Makes(s, piece), Written(s),
         Told(out \o (<<s>> \o Tail(todo)))
  PROVE  Inv'
<1> HIDE DEF Statement
<1>1. out \in Seq(Statement) /\ todo \in Seq(Statement) /\ heap = Blocks(root)
  BY PrintingIs
<1>2. /\ out' = Append(out, s) /\ buf' = as_append_cstr(buf, <<s.what>>)
      /\ todo' = Tail(todo) /\ UNCHANGED <<root, stage, heap>>
  BY DEF Makes, Writing, ap_write_string
<1>3. Tail(todo) \in Seq(Statement)
  BY <1>1, TailIs
<1> DEFINE o == Append(out, s)
<1>4. /\ o \in Seq(Statement) /\ o \o Tail(todo) = out \o (<<s>> \o Tail(todo))
      /\ Len(o) = Len(out) + 1 /\ o[Len(out) + 1] = s /\ Len(out) \in Nat
      /\ \A k \in 1 .. Len(out) : o[k] = out[k]
  <2>1. out \in Seq(Statement) /\ s \in Statement /\ Tail(todo) \in Seq(Statement)
    BY <1>1, <1>3
  <2>2. Len(out) \in Nat
    BY <2>1, LenInNat
  <2>3. /\ o \in Seq(Statement) /\ o \o Tail(todo) = out \o (<<s>> \o Tail(todo))
        /\ Len(o) = Len(out) + 1 /\ o[Len(out) + 1] = s
        /\ \A k \in 1 .. Len(out) : o[k] = out[k]
    BY <2>1, AppendIs
  <2> QED  BY <2>2, <2>3
<1>5. out' = o
  BY <1>2
<1> HIDE DEF o
<1>6. \A k \in 1 .. Len(out) : Written(out[k])
  BY DEF Inv, Tale
<1>7. \A k \in 1 .. Len(o) : Written(o[k])
  <2> TAKE k \in 1 .. Len(o)
  <2>1. CASE k = Len(out) + 1
    BY <1>4, <2>1
  <2>2. CASE k # Len(out) + 1
    <3>1. k \in 1 .. Len(out)
      BY <1>4, <2>2
    <3> QED  BY <1>4, <1>6, <3>1
  <2> QED  BY <2>1, <2>2
<1>8. Held'
  <2>1. s.what \in Char
    BY RootsAre DEF Inv, Makes
  <2>2. Held
    BY DEF Inv
  <2> QED  BY <1>1, <1>2, <2>1, <2>2, WritingHolds
<1>9. Told(o \o Tail(todo))
  BY <1>4
<1>10. stage' = "print" /\ root' = root /\ heap' = heap /\ todo' = Tail(todo)
  BY <1>2
<1> QED  BY <1>1, <1>3, <1>4, <1>5, <1>7, <1>8, <1>9, <1>10, PrintKeeps

LEMMA PrintEnters ==
  ASSUME Inv, stage = "print", Enter
  PROVE  Inv'
<1> DEFINE s == First
           p == s.at
           b == Placed(VisitBody(root[p].type, root[p]), p)
<1> HIDE DEF Statement
<1>1. /\ todo # <<>> /\ s.do = "call" /\ root[p].type = s.what
      /\ todo' = b \o Tail(todo) /\ UNCHANGED <<root, stage, heap, out, buf>>
  BY DEF Enter, Doing, Body
<1>2. /\ Told(out \o todo) /\ out \in Seq(Statement) /\ todo \in Seq(Statement)
      /\ Prints(s) /\ s \in Statement /\ heap = Blocks(root)
  BY <1>1, PrintingIs
<1>3. p \in DOMAIN root /\ ~InType(p) /\ s.what \in Visited /\ root \in Roots
  BY <1>1, <1>2 DEF Prints, Inv
<1>4. Said(b, p)
  BY <1>1, <1>3, BodySaid
<1>5. Stands(b, s)
  BY <1>1, <1>3, <1>4, SaidStands
<1>6. b \in Seq(Statement)
  BY <1>4 DEF Said
<1>7. ~Opens(s) /\ ~Closes(s)
  BY <1>1 DEF Opens, Closes
<1>8. s = Head(todo)
  BY DEF First
<1> HIDE DEF b, s
<1> DEFINE U == out \o (b \o Tail(todo))
           Z == out \o todo
<1>9. /\ Replaces(U, Z, b, Len(out), Len(b), Len(Tail(todo)))
      /\ Z[Len(out) + 1] = s
  <2>1. /\ out \in Seq(Statement) /\ b \in Seq(Statement) /\ todo \in Seq(Statement)
        /\ todo # <<>>
    BY <1>1, <1>2, <1>6
  <2>2. IsPut(U, Z, out, b, todo)
    BY <2>1 DEF IsPut
  <2> HIDE DEF Z, U
  <2>3. /\ Replaces(U, Z, b, Len(out), Len(b), Len(Tail(todo)))
        /\ Z[Len(out) + 1] = Head(todo)
    BY <2>2, PlacedAre
  <2> QED  BY <1>8, <2>3
<1>10. Told(Z)
  BY <1>2
<1> HIDE DEF U, Z
<1>11. Told(U)
  BY <1>5, <1>7, <1>9, <1>10, Replaced
<1>12. Tail(todo) \in Seq(Statement)
  BY <1>1, <1>2, TailIs
<1>13. b \o Tail(todo) \in Seq(Statement)
  BY <1>6, <1>12, JoinIs
<1>14. Told(out \o (b \o Tail(todo)))
  BY <1>11 DEF U
<1>15. Held' /\ \A k \in 1 .. Len(out) : Written(out[k])
  BY <1>1 DEF Inv, Held, Tale
<1> QED  BY <1>1, <1>2, <1>13, <1>14, <1>15, PrintKeeps

LEMMA PrintWrites ==
  ASSUME Inv, stage = "print", Write
  PROVE  Inv'
<1> DEFINE s == First
<1> HIDE DEF Statement
<1>1. todo # <<>> /\ s.do \in {"write", "writef"} /\ Writing(s.what)
  BY DEF Write, Doing
<1>2. /\ Told(out \o todo) /\ todo \in Seq(Statement) /\ Prints(s) /\ s \in Statement
  BY <1>1, PrintingIs
<1>3. s.what \in Pieces
  BY <1>1, <1>2 DEF Prints
<1>4. <<s>> \o Tail(todo) = todo
  BY <1>1, <1>2, HeadAndTail DEF First
<1>5. s = [First EXCEPT !.what = s.what]
  BY <1>2 DEF Statement
<1>6. Written(s)
  BY <1>1 DEF Written
<1>7. Told(out \o (<<s>> \o Tail(todo)))
  BY <1>2, <1>4
<1> HIDE DEF s
<1> DEFINE w == s.what
<1>8. s.what = w
  OBVIOUS
<1>9. Makes(s, w)
  BY <1>1, <1>5, <1>8 DEF Makes
<1> HIDE DEF w
<1> QED  BY <1>1, <1>2, <1>3, <1>6, <1>7, <1>8, <1>9, WritingKeeps

LEMMA PrintWritesAddress ==
  ASSUME Inv, stage = "print", WriteAddress
  PROVE  Inv'
<1> DEFINE s == First
           c == [s EXCEPT !.what = "anything"]
           b == <<c>>
<1> HIDE DEF Statement
<1>1. todo # <<>> /\ s.do = "address" /\ (Goto("crash") \/ Writing("anything"))
  BY DEF WriteAddress, Doing
<1>2. CASE Goto("crash")
  <2>1. "crash" \in Ended \ {"freed"}
    BY DEF Ended
  <2>2. MisusesAreKnown'
    BY <1>2 DEF Goto, MisusesAreKnown
  <2> QED  BY <1>2, <2>1, <2>2, GotoKeeps
<1>3. CASE Writing("anything")
  <2>1. /\ Told(out \o todo) /\ out \in Seq(Statement) /\ todo \in Seq(Statement)
        /\ Prints(s) /\ s \in Statement
    BY <1>1, PrintingIs
  <2>2. s = Head(todo) /\ root \in Roots
    BY DEF First, Inv
  <2>3. Stands(b, s)
    BY <1>1, <2>1, <2>2, AddressStands
  <2>4. b \in Seq(Statement)
    BY <2>3 DEF Stands
  <2>5. c \in Statement /\ c.what = "anything" /\ c.do = "address"
    <3>1. s \in Statement /\ s.do = "address"
      BY <1>1, <2>1
    <3>2. "anything" \in Subjects
      BY <2>2, RootsAre DEF Subjects
    <3> QED  BY <3>1, <3>2 DEF Statement
  <2>6. ~Opens(s) /\ ~Closes(s)
    BY <1>1 DEF Opens, Closes
  <2>7. Written(c)
    BY <2>5 DEF Written
  <2>8. c = [First EXCEPT !.what = "anything"]
    OBVIOUS
  <2> HIDE DEF b
  <2> DEFINE U == out \o (b \o Tail(todo))
             Z == out \o todo
  <2>9. IsPut(U, Z, out, b, todo)
    BY <1>1, <2>1, <2>4 DEF IsPut
  <2>10. Told(Z)
    BY <2>1
  <2> HIDE DEF U, Z, s
  <2>11. /\ Replaces(U, Z, b, Len(out), Len(b), Len(Tail(todo)))
         /\ Z[Len(out) + 1] = s
    BY <2>2, <2>9, PlacedAre
  <2>12. Told(U)
    BY <2>3, <2>6, <2>10, <2>11, Replaced
  <2>13. Told(out \o (<<c>> \o Tail(todo)))
    BY <2>12 DEF U, b
  <2>14. "anything" \in Pieces
    BY <2>2, RootsAre
  <2> HIDE DEF c
  <2>15. Makes(c, "anything")
    BY <1>3, <2>5, <2>7, <2>8 DEF Makes
  <2> QED  BY <1>1, <2>5, <2>7, <2>8, <2>13, <2>14, <2>15, WritingKeeps
<1> QED  BY <1>1, <1>2, <1>3

(* No statement of the printer is about a node that is gone.                  *)
LEMMA PrintStep ==
  ASSUME Inv, stage = "print", Next
  PROVE  Inv'
<1>1. /\ todo # <<>> => Prints(First) /\ First \in Statement
      /\ heap = Blocks(root) /\ \A p : Alive(p)
  BY PrintingIs
<1>2. CASE Enter
  BY <1>2, PrintEnters
<1>3. CASE Confuse
  <2>1. Goto("confused") /\ Calls(First) /\ root[First.at].type # First.what
    BY <1>1, <1>3 DEF Confuse, Doing, Prints
  <2>2. HasIndexedLvalue
    BY <2>1, Confused
  <2>3. MisusesAreKnown'
    BY <2>1, <2>2, TypesStay DEF Goto, MisusesAreKnown, HasIndexedLvalue
  <2>4. "confused" \in Ended \ {"freed"}
    BY DEF Ended
  <2> QED  BY <2>1, <2>3, <2>4, GotoKeeps
<1>4. CASE Write
  BY <1>4, PrintWrites
<1>5. CASE WriteAddress
  BY <1>5, PrintWritesAddress
<1>6. CASE Panic
  <2>1. Goto("panic") /\ Has("C_If")
    BY <1>1, <1>6 DEF Panic, Doing, Prints
  <2>2. MisusesAreKnown'
    BY <2>1, TypesStay DEF Goto, MisusesAreKnown, Has
  <2>3. "panic" \in Ended \ {"freed"}
    BY DEF Ended
  <2> QED  BY <2>1, <2>2, <2>3, GotoKeeps
<1>7. CASE Free
  BY <1>1, <1>7 DEF Free, Doing, Prints
<1>8. CASE UseAfterFree
  BY <1>1, <1>8 DEF UseAfterFree
<1>9. CASE EndPrint
  <2>1. /\ todo = <<>> /\ stage' = "free" /\ todo' = <<RootCall>>
        /\ UNCHANGED <<root, heap, out, buf>>
    BY <1>9 DEF EndPrint, RootCall
  <2>2. Told(out \o <<>>)
    BY <2>1, PrintingIs
  <2>3. IsTree(root) /\ root[<<>>].type \in Freed
    BY RootsAreTrees DEF Inv
  <2>4. Unfreed(<<RootCall>>, Blocks(root))
    BY <2>3, RootSettles DEF Unfreed
  <2>5. heap' = Blocks(root)
    BY <1>1, <2>1
  <2> HIDE DEF RootCall
  <2> QED  BY <2>1, <2>2, <2>4, <2>5, FreeKeeps
<1>10. CASE EndFree
  BY <1>10 DEF EndFree
<1> QED  BY <1>2, <1>3, <1>4, <1>5, <1>6, <1>7, <1>8, <1>9, <1>10 DEF Next

LEMMA FreeStep ==
  ASSUME Inv, stage = "free", Next
  PROVE  /\ Inv'
         /\ heap' # heap =>
              Free /\ \A q \in heap \ {First.at} : First.at \in Above(q) => q \in LostBlocks
<1>1. /\ IsTree(root) /\ root[<<>>].type \in Freed
      /\ Unfreed(todo, heap) /\ heap \subseteq Blocks(root)
  BY RootsAreTrees DEF Inv
<1>2. /\ todo # <<>> =>
           /\ First \in Statement /\ First.do \in {"call", "free"}
           /\ First.do = "call" => Calls(First)
      /\ root[<<>>].type = "C_ArrayType" => todo # <<>> /\ heap # {}
  BY FreeingIs
<1>3. out # <<>> => Told(out \o <<>>)
  <2>1. PICK T : Telling(T)
    BY DEF Inv, Tale
  <2> QED  BY <2>1 DEF Telling
<1>4. CASE Enter
  <2> DEFINE s == First
             b == Placed(FreeBody(s.what, root[s.at]), s.at)
  <2>1. /\ todo # <<>> /\ s.do = "call" /\ root[s.at].type = s.what
        /\ todo' = b \o Tail(todo) /\ UNCHANGED <<root, stage, heap, out, buf>>
    BY <1>4 DEF Enter, Doing, Body
  <2>2. s = Head(todo)
    BY DEF First
  <2> HIDE DEF s
  <2>3. b = Placed(FreeBody(s.what, root[s.at]), s.at)
    OBVIOUS
  <2> HIDE DEF b
  <2>4. Unfreed(b \o Tail(todo), heap)
    BY <1>1, <2>1, <2>2, <2>3, UnfreedCall
  <2>5. Inv'
    BY <1>1, <1>3, <2>1, <2>4, FreeKeeps
  <2> QED  BY <2>1, <2>5
<1>5. CASE Confuse
  <2>1. Goto("confused") /\ Calls(First) /\ root[First.at].type # First.what
    BY <1>2, <1>5 DEF Confuse, Doing
  <2>2. HasIndexedLvalue
    BY <2>1, Confused
  <2>3. MisusesAreKnown'
    BY <2>1, <2>2, TypesStay DEF Goto, MisusesAreKnown, HasIndexedLvalue
  <2>4. "confused" \in Ended \ {"freed"}
    BY DEF Ended
  <2>5. Inv'
    BY <2>1, <2>3, <2>4, GotoKeeps
  <2> QED  BY <2>1, <2>5 DEF Goto
<1>6. CASE Write \/ WriteAddress \/ Panic
  BY <1>2, <1>6 DEF Write, WriteAddress, Panic, Doing
<1>7. CASE Free
  <2> DEFINE s == First
  <2>1. /\ todo # <<>> /\ s.do = "free" /\ s.at \in heap
        /\ heap' = heap \ {s.at} /\ todo' = Tail(todo) /\ UNCHANGED <<root, stage, out, buf>>
    BY <1>7 DEF Free, Doing
  <2>2. s = Head(todo)
    BY DEF First
  <2> HIDE DEF s
  <2>3. /\ Unfreed(Tail(todo), heap \ {s.at})
        /\ \A q \in heap \ {s.at} : s.at \in Above(q) => q \in LostBlocks
    BY <1>1, <2>1, <2>2, UnfreedFree
  <2>4. heap \ {s.at} \subseteq Blocks(root)
    BY <1>1
  <2>5. Inv'
    BY <1>3, <2>1, <2>3, <2>4, FreeKeeps
  <2> QED  BY <1>7, <2>3, <2>5 DEF s
<1>8. CASE UseAfterFree
  <2>1. todo # <<>> /\ Goto("misused") /\ \E p \in Touched : ~Alive(p)
    BY <1>8 DEF UseAfterFree
  <2>2. root[<<>>].type = "C_ArrayType"
    <3> SUFFICES ASSUME root[<<>>].type # "C_ArrayType" PROVE FALSE
      OBVIOUS
    <3>1. Settled(todo, heap, {})
      BY <1>1 DEF Unfreed
    <3>2. Alive(First.of) /\ Alive(First.at)
      BY <1>1, <2>1, <3>1, SettledLives DEF First
    <3> QED  BY <2>1, <3>2 DEF Touched
  <2>3. MisusesAreKnown'
    BY <1>2, <2>1, <2>2 DEF Goto, MisusesAreKnown
  <2>4. "misused" \in Ended \ {"freed"}
    BY DEF Ended
  <2>5. Inv'
    BY <2>1, <2>3, <2>4, GotoKeeps
  <2> QED  BY <2>1, <2>5 DEF Goto
<1>9. CASE EndPrint
  BY <1>9 DEF EndPrint
<1>10. CASE EndFree
  <2>1. todo = <<>> /\ Goto("freed")
    BY <1>10 DEF EndFree
  <2>2. stage' = "freed" /\ UNCHANGED <<root, todo, heap, out, buf>>
    BY <2>1 DEF Goto
  <2>3. root[<<>>].type # "C_ArrayType"
    BY <1>2, <2>1
  <2>4. Settled(<<>>, heap, {}) /\ Pending(<<>>)
    BY <1>1, <2>1, <2>3 DEF Unfreed
  <2>5. heap = LostBlocks
    BY <2>4, DebtsOfNone DEF Settled
  <2>6. ~HasIndexedLvalue
    BY <2>4 DEF Pending, HasIndexedLvalue, IsIndexed
  <2>7. AllIsFreed'
    BY <2>2, <2>5, TypesStay DEF AllIsFreed
  <2>8. MisusesAreKnown'
    BY <2>2, <2>3, <2>6, TypesStay DEF MisusesAreKnown, HasIndexedLvalue
  <2>9. Tale'
    <3>1. ASSUME out' # <<>> PROVE Told(out \o <<>>)'
      <4>1. Told(out' \o <<>>)
        BY <1>3, <2>2, <3>1
      <4> QED  BY <2>2, <4>1, ToldStays
    <3>2. <<>> \in Seq(Statement')
      OBVIOUS
    <3>3. Telling(<<>>)'
      BY <2>2, <3>1, <3>2 DEF Telling
    <3>4. out' \in Seq(Statement') /\ \A k \in 1 .. Len(out') : Written(out'[k])
      BY <2>2, TypesStay DEF Inv, Tale
    <3> QED  BY <3>3, <3>4 DEF Tale, Written
  <2>10. Held' /\ FormatsFit'
    BY <2>1, <2>2 DEF Inv, Held, FormatsFit
  <2>11. todo' \in Seq(Statement') /\ heap' \subseteq Blocks(root')
    BY <1>1, <2>1, <2>2, TypesStay DEF Blocks
  <2>12. root' \in Roots /\ stage' \in Ended
    BY <2>2 DEF Inv, Ended
  <2>13. Inv'
    BY <2>2, <2>7, <2>8, <2>9, <2>10, <2>11, <2>12 DEF Inv
  <2> QED  BY <2>2, <2>13
<1> QED  BY <1>4, <1>5, <1>6, <1>7, <1>8, <1>9, <1>10 DEF Next

(* A step changes nothing that the walk keeps.                                *)
LEMMA StutterKeeps ==
  ASSUME Inv, UNCHANGED walkVars
  PROVE  Inv'
<1>1. UNCHANGED <<root, stage, todo, heap, out, buf>>
  BY DEF walkVars
<1>2. out \in Seq(Statement) /\ todo \in Seq(Statement) /\ \A k \in 1 .. Len(out) : Written(out[k])
  BY DEF Inv, Tale
<1>3. CASE stage = "print"
  <2>1. Told(out \o todo) /\ heap = Blocks(root)
    BY <1>3, PrintingIs
  <2>2. Held'
    BY <1>1 DEF Inv, Held
  <2> QED  BY <1>1, <1>2, <1>3, <2>1, <2>2, PrintKeeps
<1>4. CASE stage = "free"
  <2>1. Unfreed(todo, heap) /\ heap \subseteq Blocks(root)
    BY <1>4 DEF Inv
  <2>2. out # <<>> => Told(out \o <<>>)
    BY <1>4 DEF Inv, Tale, Telling
  <2> QED  BY <1>1, <1>4, <2>1, <2>2, FreeKeeps
<1>5. CASE stage \in Ended
  <2>1. PICK T : Telling(T)
    BY DEF Inv, Tale
  <2>2. ASSUME Told(out \o T) PROVE Told(out \o T)'
    <3>1. Told(out' \o T)
      BY <1>1, <2>2
    <3> QED  BY <1>1, <3>1, ToldStays
  <2>3. Telling(T)'
    <3>1. T \in Seq(Statement')
      BY <1>1, <2>1, TypesStay DEF Telling
    <3> QED  BY <1>1, <2>1, <2>2, <3>1 DEF Telling
  <2>4. out' \in Seq(Statement') /\ \A k \in 1 .. Len(out') : Written(out'[k])
    BY <1>1, <1>2, TypesStay
  <2>5. Tale'
    BY <2>3, <2>4 DEF Tale, Written
  <2>6. Held' /\ FormatsFit'
    BY <1>1 DEF Inv, Held, FormatsFit, First
  <2>7. todo' \in Seq(Statement')
    BY <1>1, <1>2, TypesStay
  <2>8. root' \in Roots /\ stage' \in Ended /\ heap' \subseteq Blocks(root')
    BY <1>1, <1>5 DEF Inv
  <2>9. AllIsFreed' /\ MisusesAreKnown'
    BY <1>1, TypesStay DEF Inv, AllIsFreed, MisusesAreKnown, HasIndexedLvalue, Has
  <2>10. stage' # "print" /\ stage' # "free"
    BY <2>8 DEF Ended
  <2> QED  BY <2>5, <2>6, <2>7, <2>8, <2>9, <2>10 DEF Inv
<1> QED  BY <1>3, <1>4, <1>5 DEF Inv

(* When it has ended nothing more is done.                                   *)
LEMMA EndedIsLast ==
  ASSUME stage \in Ended
  PROVE  ~Next
BY DEF Next, Enter, Confuse, Write, WriteAddress, Panic, Free, UseAfterFree, EndPrint, EndFree,
       Doing, Ended

LEMMA InvHolds ==
  ASSUME Inv, [Next]_walkVars
  PROVE  Inv'
<1>1. stage \in {"print", "free"} \cup Ended
  BY DEF Inv
<1> QED  BY <1>1, StutterKeeps, PrintStep, FreeStep, EndedIsLast

LEMMA InvStarts ==
  ASSUME Init
  PROVE  Inv
<1>1. /\ root \in Roots /\ stage \in {"print", "free"}
      /\ stage = "print" => root[<<>>].type \in Visited
      /\ todo = <<RootCall>> /\ heap = Blocks(root) /\ out = <<>>
      /\ buf = as_with_capacity(WriterCap)
  BY DEF Init, RootCall
<1>2. IsTree(root) /\ root[<<>>].type \in Freed
  BY <1>1, RootsAreTrees
<1>3. /\ todo \in Seq(Statement) /\ todo # <<>> /\ First = RootCall /\ RootCall.do = "call"
  BY <1>1, <1>2, RootCallIs DEF First
<1>4. Unfreed(todo, heap)
  BY <1>1, <1>2, RootSettles DEF Unfreed
<1>5. Held
  <2>1. WriterCap \in Nat \ {0}
    BY WalkAssumption
  <2>2. Fine(buf) /\ Cap(buf) = WriterCap /\ buf.len = 0
    BY <1>1, <2>1, with_capacityFine DEF as_with_capacity
  <2>3. buf \in AStrings
    BY <2>2 DEF Fine, Good
  <2> QED  BY <1>1, <2>1, <2>2, <2>3 DEF Held
<1>6. Tale
  <2>1. out \in Seq(Statement) /\ \A k \in 1 .. Len(out) : Written(out[k])
    BY <1>1
  <2>2. CASE stage = "print"
    <3>1. Told(<<RootCall>>)
      BY <1>1, <2>2, RootTold
    <3>2. out \o todo = todo
      BY <1>1, <1>3
    <3>3. Told(out \o todo)
      BY <1>1, <3>1, <3>2
    <3>4. Telling(todo)
      BY <1>3, <2>2, <3>3 DEF Telling
    <3> QED  BY <2>1, <3>4 DEF Tale
  <2>3. CASE stage = "free"
    <3>1. <<>> \in Seq(Statement)
      OBVIOUS
    <3>2. Telling(<<>>)
      BY <1>1, <2>3, <3>1 DEF Telling
    <3> QED  BY <2>1, <3>2 DEF Tale
  <2> QED  BY <1>1, <2>2, <2>3
<1>7. AllIsFreed /\ MisusesAreKnown /\ FormatsFit
  BY <1>1, <1>3 DEF AllIsFreed, MisusesAreKnown, FormatsFit
<1> QED  BY <1>1, <1>3, <1>4, <1>5, <1>6, <1>7 DEF Inv

(* In every state of a walk, of every tree: what is left to free is what the   *)
(* heap has and has not lost, and what is written and what is left to print    *)
(* tell the tree together.                                                   *)
THEOREM WalkInv == Spec => []Inv
<1>1. Init => Inv
  BY InvStarts
<1>2. Inv /\ [Next]_walkVars => Inv'
  BY InvHolds
<1> QED  BY <1>1, <1>2, PTL DEF Spec

(* What is written has been told.                                            *)
LEMMA OutIs ==
  ASSUME Inv, out # <<>>
  PROVE  \E T : /\ T \in Seq(Statement) /\ out \in Seq(Statement) /\ Told(out \o T)
                /\ Printed => T = <<>>
<1>1. PICK T : Telling(T)
  BY DEF Inv, Tale
<1> QED  BY <1>1 DEF Inv, Tale, Telling, Printed

LEMMA PieceIs ==
  ASSUME Inv, NEW k \in 1 .. Len(out)
  PROVE  /\ Prints(out[k]) /\ Written(out[k]) /\ out[k].what \in Pieces /\ out[k] \in Statement
<1> HIDE DEF Statement
<1>1. out \in Seq(Statement) /\ Written(out[k])
  BY DEF Inv, Tale
<1>2. out # <<>>
  BY <1>1
<1>3. PICK T : T \in Seq(Statement) /\ Told(out \o T)
  BY <1>2, OutIs
<1>4. (out \o T)[k] = out[k] /\ Len(out \o T) = Len(out) + Len(T)
  BY <1>1, <1>3, JoinIs
<1>5. k \in 1 .. Len(out \o T)
  <2>1. Len(out) \in Nat /\ Len(T) \in Nat
    BY <1>1, <1>3, LenInNat
  <2> QED  BY <1>4, <2>1
<1>6. Prints((out \o T)[k])
  BY <1>3, <1>5 DEF Told
<1>7. Prints(out[k])
  BY <1>4, <1>6
<1>8. root \in Roots
  BY DEF Inv
<1>9. out[k].what \in Pieces
  BY <1>1, <1>7, <1>8, RootsAre DEF Prints, Written
<1> QED  BY <1>1, <1>7, <1>9

(* The functions follow each pointer to what it points to, and neither free a  *)
(* node twice nor use one that is freed, but for the trees that                *)
(* MisusesAreKnown names; and those they never bring to an end.              *)
THEOREM NodesAreKnownHolds == Spec => []NodesAreKnown
<1>1. Inv => NodesAreKnown
  BY PieceIs DEF Inv, NodesAreKnown, TypeOK
<1> QED  BY <1>1, WalkInv, PTL

(* However deep the tree, once it is freed no block is left but the arrays of   *)
(* argument lists and what types have.                                       *)
THEOREM AllIsFreedHolds == Spec => []AllIsFreed
<1>1. Inv => AllIsFreed
  BY DEF Inv
<1> QED  BY <1>1, WalkInv, PTL

(* No free takes away the last pointer to a block that is still to be freed.   *)
THEOREM OwnersAreFreedLastHolds == Spec => OwnersAreFreedLast
<1> DEFINE Last == \A p \in heap \ heap', q \in heap' : p \in Above(q) => q \in LostBlocks
<1>1. Inv /\ [Next]_walkVars => [Last]_walkVars
  <2> SUFFICES ASSUME Inv, Next, heap' # heap PROVE Last
    BY DEF walkVars
  <2>1. stage \in {"print", "free"}
    BY EndedIsLast DEF Inv
  <2>2. CASE stage = "print"
    <3>1. ~Free
      BY <2>2, PrintingIs DEF Free, Doing, Prints
    <3> QED  BY <3>1 DEF Next, Enter, Confuse, Write, WriteAddress, Panic, Goto, Writing,
                         UseAfterFree, EndPrint, EndFree
  <2>3. CASE stage = "free"
    <3>1. Free /\ \A q \in heap \ {First.at} : First.at \in Above(q) => q \in LostBlocks
      BY <2>3, FreeStep
    <3>2. heap' = heap \ {First.at}
      BY <3>1 DEF Free
    <3> QED  BY <3>1, <3>2
  <2> QED  BY <2>1, <2>2, <2>3
<1> QED  BY <1>1, WalkInv, PTL DEF Spec, OwnersAreFreedLast

(* What ap_writefer formats fits its buffer, and the string writer's C string   *)
(* ends after the first piece, at twice the length.                          *)
THEOREM WritersAreKnownHolds == Spec => []WritersAreKnown
<1>1. Inv => WritersAreKnown
  <2> SUFFICES ASSUME Inv PROVE WritersAreKnown
    OBVIOUS
  <2>1. out # <<>> => out[1].what \in Char
    <3> SUFFICES ASSUME out # <<>> PROVE out[1].what \in Char
      OBVIOUS
    <3>1. out \in Seq(Statement)
      BY DEF Inv, Tale
    <3>2. 1 \in 1 .. Len(out)
      BY <3>1, TailIs
    <3> QED  BY <3>2, PieceIs, RootsAre DEF Inv
  <2>2. StringWriterStopsEarly
    BY <2>1, WriterStops DEF Inv
  <2> QED  BY <2>2 DEF Inv, WritersAreKnown
<1> QED  BY <1>1, WalkInv, PTL

-----------------------------------------------------------------------------
(* What has been written reads as the tree.                                  *)

LEMMA SignsAre ==
  ASSUME root \in Roots, NEW s, Prints(s), Written(s)
  PROVE  /\ s.do # "call" /\ s.do # "panic"
         /\ s.what \notin Punctuation <=> Naming(s)
         /\ s.what \in Opening <=> Opens(s)
         /\ s.what = ")" <=> Closes(s)
         /\ Naming(s) => s.of \in Named /\ s.what = Shown(root[s.of])
         /\ Zone(s) = IF Naming(s) THEN {s.of} ELSE {}
<1>1. s.do \in {"write", "writef", "address"} /\ (s.do = "address" => s.what = "anything")
  BY DEF Written
<1>2. "anything" \notin Punctuation
  BY RootsAre
<1>3. s.do = "writef" => s.what \notin Punctuation
  BY DEF Prints
<1>4. s.what \notin Punctuation <=> Naming(s)
  BY <1>1, <1>2, <1>3 DEF Naming
<1>5. Opening \subseteq Punctuation /\ ")" \in Punctuation
  BY DEF Punctuation
<1>6. s.what \in Opening <=> Opens(s)
  BY <1>1, <1>2, <1>3, <1>5 DEF Opens
<1>7. s.what = ")" <=> Closes(s)
  BY <1>1, <1>2, <1>3, <1>5 DEF Closes
<1>8. Naming(s) => s.of \in Named /\ s.what = Shown(root[s.of])
  BY <1>1 DEF Prints
<1>9. Zone(s) = IF Naming(s) THEN {s.of} ELSE {}
  BY <1>1 DEF Zone
<1> QED  BY <1>1, <1>4, <1>6, <1>7, <1>8, <1>9

(* The statements Z begin with what is written.                               *)
Starts(Z) ==
  /\ Told(Z) /\ Len(out) \in Nat /\ Len(Z) \in Nat /\ Len(out) <= Len(Z)
  /\ \A k \in 1 .. Len(out) : Z[k] = out[k]
  /\ Printed => Len(Z) = Len(out)

LEMMA OutStarts ==
  ASSUME Inv, out # <<>>
  PROVE  \E Z : Starts(Z)
<1> HIDE DEF Statement
<1>1. PICK T : /\ T \in Seq(Statement) /\ out \in Seq(Statement) /\ Told(out \o T)
               /\ Printed => T = <<>>
  BY OutIs
<1>2. /\ Len(out \o T) = Len(out) + Len(T)
      /\ \A k \in 1 .. Len(out) : (out \o T)[k] = out[k]
  BY <1>1, JoinIs
<1>3. Len(out) \in Nat /\ Len(T) \in Nat
  BY <1>1, LenInNat
<1>4. Printed => Len(T) = 0
  BY <1>1
<1>5. Starts(out \o T)
  BY <1>1, <1>2, <1>3, <1>4 DEF Starts
<1> QED  BY <1>5

LEMMA WrittenIs ==
  ASSUME Inv, NEW Z, Starts(Z), NEW k \in 1 .. Len(out)
  PROVE  /\ k \in 1 .. Len(Z) /\ Z[k] = out[k] /\ out[k].of \in Seq(Fields)
         /\ out[k].do # "call" /\ out[k].do # "panic"
         /\ Names(k) <=> Naming(Z[k])
         /\ out[k].what \in Opening <=> Opens(Z[k])
         /\ out[k].what = ")" <=> Closes(Z[k])
         /\ Names(k) => out[k].of \in Named /\ out[k].what = Shown(root[out[k].of])
         /\ Zone(Z[k]) = IF Names(k) THEN {out[k].of} ELSE {}
<1>1. Prints(out[k]) /\ Written(out[k]) /\ out[k].of \in Seq(Fields)
  BY PieceIs DEF Statement
<1>2. k \in 1 .. Len(Z) /\ Z[k] = out[k]
  BY DEF Starts
<1>3. root \in Roots
  BY DEF Inv
<1> QED  BY <1>1, <1>2, <1>3, SignsAre DEF Names

LEMMA PrintedInOrder ==
  ASSUME Inv, NEW Z, Starts(Z)
  PROVE  NodesArePrintedInOrder
<1>1. ASSUME NEW k \in 1 .. Len(out), Names(k)
      PROVE  out[k].of \in Named /\ out[k].what = Shown(root[out[k].of])
  BY <1>1, WrittenIs
<1>2. ASSUME NEW j \in 1 .. Len(out), NEW k \in 1 .. Len(out), j < k, Names(j), Names(k)
      PROVE  Precedes(out[j].of, out[k].of)
  <2>1. /\ j \in 1 .. Len(Z) /\ k \in 1 .. Len(Z)
        /\ out[j].of \in Zone(Z[j]) /\ out[k].of \in Zone(Z[k])
    BY <1>2, WrittenIs
  <2>2. Ordered(Z)
    BY DEF Starts, Told
  <2> QED  BY <1>2, <2>1, <2>2 DEF Ordered
<1>3. ASSUME Printed, NEW p \in Named
      PROVE  \E k \in 1 .. Len(out) : Names(k) /\ out[k].of = p
  <2>1. Len(Z) = Len(out) /\ Covered(Z)
    BY <1>3 DEF Starts, Told
  <2>2. PICK k \in 1 .. Len(out) : p \in Zone(Z[k])
    BY <1>3, <2>1 DEF Covered
  <2> QED  BY <2>2, WrittenIs
<1> QED  BY <1>1, <1>2, <1>3 DEF NodesArePrintedInOrder

LEMMA MeetsMatches ==
  ASSUME Inv, NEW Z, Starts(Z), NEW j \in 1 .. Len(out), NEW k \in 1 .. Len(out), Meets(Z, j, k)
  PROVE  Matches(j, k)
<1>1. /\ j < k /\ Opens(Z[j]) /\ Closes(Z[k]) /\ Z[k].of = Z[j].of
      /\ \A i \in j + 1 .. k - 1 : Inside(Z[j], Z[i])
  BY DEF Meets
<1>2. /\ out[j].what \in Opening /\ out[k].what = ")" /\ out[k].of = out[j].of
      /\ Z[j] = out[j] /\ out[j].of \in Seq(Fields)
  BY <1>1, WrittenIs
<1>3. out[j].of \in Above(out[j].of)
  BY <1>2, AboveOrder
<1>4. ASSUME NEW i \in j + 1 .. k - 1
      PROVE  /\ out[j].of \in Above(out[i].of)
             /\ out[i].of = out[j].of => out[i].what \notin Opening \cup {")"}
  <2>1. i \in 1 .. Len(out)
    OBVIOUS
  <2>2. /\ Z[i] = out[i] /\ out[i].do # "call"
        /\ out[i].what \in Opening <=> Opens(Z[i])
        /\ out[i].what = ")" <=> Closes(Z[i])
    BY <2>1, WrittenIs
  <2>3. Inside(out[j], out[i])
    BY <1>1, <1>2, <2>2
  <2> QED  BY <2>2, <2>3 DEF Inside
<1>5. ASSUME NEW i \in j .. k PROVE out[j].of \in Above(out[i].of)
  <2>1. i = j \/ i = k \/ i \in j + 1 .. k - 1
    OBVIOUS
  <2> QED  BY <1>2, <1>3, <1>4, <2>1
<1> QED  BY <1>2, <1>4, <1>5 DEF Matches

LEMMA ParenthesesAre ==
  ASSUME Inv, NEW Z, Starts(Z)
  PROVE  ParenthesesMatch
<1>1. Matched(Z) /\ Len(out) \in Nat /\ Len(Z) \in Nat /\ Len(out) <= Len(Z)
  BY DEF Starts, Told
<1>2. ASSUME NEW k \in 1 .. Len(out), out[k].what = ")"
      PROVE  \E j \in 1 .. k - 1 : Matches(j, k)
  <2>1. k \in 1 .. Len(Z) /\ Closes(Z[k])
    BY <1>2, WrittenIs
  <2>2. PICK j \in 1 .. Len(Z) : Meets(Z, j, k)
    BY <1>1, <2>1 DEF Matched
  <2>3. j < k
    BY <2>2 DEF Meets
  <2>4. j \in 1 .. Len(out) /\ j \in 1 .. k - 1
    BY <1>1, <2>3
  <2> QED  BY <2>2, <2>4, MeetsMatches
<1>3. ASSUME Printed, NEW j \in 1 .. Len(out), out[j].what \in Opening
      PROVE  \E k \in j + 1 .. Len(out) : Matches(j, k)
  <2>1. j \in 1 .. Len(Z) /\ Opens(Z[j])
    BY <1>3, WrittenIs
  <2>2. PICK k \in 1 .. Len(Z) : Meets(Z, j, k)
    BY <1>1, <2>1 DEF Matched
  <2>3. j < k /\ Len(Z) = Len(out)
    BY <1>3, <2>2 DEF Meets, Starts
  <2>4. k \in 1 .. Len(out) /\ k \in j + 1 .. Len(out)
    BY <1>1, <2>3
  <2> QED  BY <2>2, <2>4, MeetsMatches
<1> QED  BY <1>2, <1>3 DEF ParenthesesMatch

(* Whatever the tree, what is printed of it is a part of its text, and in the   *)
(* end all of it: each named node once and in its place, each parenthesis       *)
(* closed by the visitor that has opened it.                                 *)
THEOREM TreesArePrintedHolds == Spec => []TreesArePrinted
<1>1. Inv => TreesArePrinted
  <2> SUFFICES ASSUME Inv PROVE TreesArePrinted
    OBVIOUS
  <2>1. CASE out = <<>>
    <3>1. Len(out) = 0 /\ ~Printed
      BY <2>1 DEF Printed
    <3> QED  BY <3>1 DEF TreesArePrinted, NodesArePrintedInOrder, ParenthesesMatch
  <2>2. CASE out # <<>>
    <3>1. PICK Z : Starts(Z)
      BY <2>2, OutStarts
    <3> QED  BY <3>1, PrintedInOrder, ParenthesesAre DEF TreesArePrinted
  <2> QED  BY <2>1, <2>2
<1> QED  BY <1>1, WalkInv, PTL

-----------------------------------------------------------------------------
(* The constructors make trees.                                              *)

LEMMA OneBefore ==
  ASSUME NEW A \in Seq(Fields), NEW B \in Seq(Fields)
  PROVE  Len(A) = 1 =>
           /\ A \o B \in Seq(Fields) /\ Len(A \o B) = Len(B) + 1 /\ (A \o B)[1] = A[1]
           /\ \A i \in 1 .. Len(B) : (A \o B)[i + 1] = B[i]
<1> DEFINE C == A \o B
<1>1. /\ C \in Seq(Fields) /\ Len(C) = Len(A) + Len(B)
      /\ \A k \in 1 .. Len(A) : C[k] = A[k]
      /\ \A k \in 1 .. Len(B) : C[Len(A) + k] = B[k]
  BY JoinIs
<1>2. Len(B) \in Nat
  OBVIOUS
<1> HIDE DEF C
<1>3. Len(A) = 1 => C \in Seq(Fields) /\ Len(C) = Len(B) + 1 /\ C[1] = A[1]
  BY <1>1, <1>2
<1>4. ASSUME Len(A) = 1, NEW i \in 1 .. Len(B) PROVE C[i + 1] = B[i]
  <2>1. i + 1 = Len(A) + i
    BY <1>2, <1>4
  <2> QED  BY <1>1, <2>1
<1> QED  BY <1>3, <1>4 DEF C

(* A path that begins with a member.                                         *)
LEMMA UnderIs ==
  ASSUME NEW q \in Seq(Fields), NEW f \in Fields
  PROVE  LET p == <<f>> \o q IN
         /\ p \in Seq(Fields) /\ p # <<>> /\ Head(p) = f /\ Tail(p) = q
         /\ Len(p) = Len(q) + 1 /\ Len(q) \in Nat /\ p[1] = f
         /\ \A i \in 1 .. Len(q) : p[i + 1] = q[i]
<1>1. <<f>> \in Seq(Fields)
  BY OneName
<1> DEFINE p == <<f>> \o q
<1>2. /\ p \in Seq(Fields) /\ Len(p) = Len(q) + 1 /\ Len(q) \in Nat /\ p[1] = f
      /\ \A i \in 1 .. Len(q) : p[i + 1] = q[i]
  <2>1. Len(<<f>>) = 1 /\ <<f>>[1] = f /\ Len(q) \in Nat
    OBVIOUS
  <2> DEFINE A == <<f>>
  <2> HIDE DEF A
  <2>2. A \in Seq(Fields) /\ Len(A) = 1 /\ A[1] = f /\ p = A \o q
    BY <1>1, <2>1 DEF A
  <2> HIDE DEF p
  <2> QED  BY <2>1, <2>2, OneBefore
<1> HIDE DEF p
<1>3. p # <<>> /\ Head(p) = f
  <2>1. Len(p) # 0 /\ Len(<<>>) = 0
    BY <1>2
  <2>2. p # <<>>
    BY <2>1
  <2>3. Head(p) = p[1]
    BY <1>2, <2>2, TailIs
  <2> QED  BY <1>2, <2>2, <2>3
<1>4. /\ Tail(p) \in Seq(Fields) /\ Len(Tail(p)) = Len(p) - 1
      /\ \A i \in 1 .. Len(Tail(p)) : Tail(p)[i] = p[i + 1]
  BY <1>2, <1>3, TailIs
<1>5. Len(Tail(p)) = Len(q) /\ \A i \in 1 .. Len(Tail(p)) : Tail(p)[i] = q[i]
  BY <1>2, <1>4
<1>6. Tail(p) = q
  BY <1>4, <1>5, SamePath
<1> QED  BY <1>2, <1>3, <1>6 DEF p

LEMMA UnderChild ==
  ASSUME NEW q \in Seq(Fields), NEW f \in Fields, NEW g \in Fields
  PROVE  Append(<<f>> \o q, g) = <<f>> \o Append(q, g)
<1>1. <<f>> \in Seq(Fields) /\ <<g>> \in Seq(Fields)
  BY OneName
<1>2. (<<f>> \o q) \o <<g>> = <<f>> \o (q \o <<g>>)
  BY <1>1, Associate
<1>3. <<f>> \o q \in Seq(Fields)
  BY UnderIs
<1>4. (<<f>> \o q) \o <<g>> = Append(<<f>> \o q, g) /\ q \o <<g>> = Append(q, g)
  BY <1>3, ChildIs
<1> QED  BY <1>2, <1>4

LEMMA AboveUnder ==
  ASSUME NEW q \in Seq(Fields), NEW f \in Fields, NEW r \in Above(<<f>> \o q)
  PROVE  r = <<>> \/ \E s \in Above(q) : r = <<f>> \o s
<1> DEFINE p == <<f>> \o q
<1>1. /\ p \in Seq(Fields) /\ Len(p) = Len(q) + 1 /\ Len(q) \in Nat /\ p[1] = f
      /\ \A i \in 1 .. Len(q) : p[i + 1] = q[i]
  BY UnderIs
<1>2. r \in Above(p)
  OBVIOUS
<1> HIDE DEF p
<1>3. r \in Seq(Fields) /\ Len(r) <= Len(p) /\ \A i \in 1 .. Len(r) : r[i] = p[i]
  BY <1>1, <1>2, AboveIs
<1>4. CASE r # <<>>
  <2> DEFINE k == Len(r) - 1
             s == SubSeq(q, 1, k)
             t == <<f>> \o s
  <2>1. k \in 0 .. Len(q) /\ Len(r) = k + 1
    BY <1>1, <1>3, <1>4
  <2>2. s \in Seq(Fields) /\ Len(s) = k /\ \A i \in 1 .. k : s[i] = q[i]
    BY <2>1, FrontIs
  <2>3. s \in Above(q)
    BY <2>1 DEF Above
  <2> HIDE DEF s, k
  <2>4. /\ t \in Seq(Fields) /\ Len(t) = k + 1 /\ t[1] = f
        /\ \A i \in 1 .. k : t[i + 1] = s[i]
    BY <2>2, UnderIs
  <2> HIDE DEF t
  <2>5. ASSUME NEW i \in 1 .. Len(r) PROVE r[i] = t[i]
    <3>1. CASE i = 1
      BY <1>1, <1>3, <2>4, <3>1
    <3>2. CASE i # 1
      <4> DEFINE j == i - 1
      <4>1. j \in 1 .. k /\ j \in 1 .. Len(q) /\ i = j + 1
        BY <2>1, <3>2
      <4> HIDE DEF j
      <4>2. t[j + 1] = s[j] /\ s[j] = q[j] /\ p[j + 1] = q[j]
        BY <1>1, <2>2, <2>4, <4>1
      <4> QED  BY <1>3, <4>1, <4>2
    <3> QED  BY <3>1, <3>2
  <2>6. r = t
    BY <1>3, <2>1, <2>4, <2>5, SamePath
  <2> QED  BY <2>3, <2>6 DEF t
<1> QED  BY <1>4

(* Where a path ends that begins with a member.                               *)
LEMMA EndUnder ==
  ASSUME NEW q \in Seq(Fields), NEW f \in Fields
  PROVE  LET p == <<f>> \o q IN
         /\ q = <<>> => p[Len(p)] = f /\ Owner(p) = <<>>
         /\ q # <<>> => /\ p[Len(p)] = q[Len(q)] /\ Owner(p) = <<f>> \o Owner(q)
                        /\ Owner(q) \in Above(q)
<1> DEFINE p == <<f>> \o q
<1>1. /\ p \in Seq(Fields) /\ Len(p) = Len(q) + 1 /\ Len(q) \in Nat /\ p[1] = f
      /\ \A i \in 1 .. Len(q) : p[i + 1] = q[i]
  BY UnderIs
<1> HIDE DEF p
<1>2. CASE q = <<>>
  <2>1. Len(p) = 1
    BY <1>1, <1>2
  <2>2. SubSeq(p, 1, 0) = <<>>
    BY <1>1
  <2> QED  BY <1>1, <1>2, <2>1, <2>2 DEF Owner, p
<1>3. CASE q # <<>>
  <2> DEFINE k == Len(q) - 1
             s == SubSeq(q, 1, k)
             t == <<f>> \o s
             u == SubSeq(p, 1, Len(q))
  <2>1. /\ k \in 0 .. Len(q) /\ Len(q) = k + 1 /\ Len(q) \in 1 .. Len(q)
        /\ Len(q) \in 0 .. Len(p)
    BY <1>1, <1>3
  <2>2. s \in Seq(Fields) /\ Len(s) = k /\ \A i \in 1 .. k : s[i] = q[i]
    BY <2>1, FrontIs
  <2>3. s \in Above(q) /\ s = Owner(q)
    BY <2>1 DEF Above, Owner
  <2>4. p[Len(p)] = q[Len(q)]
    BY <1>1, <2>1
  <2>5. /\ u \in Seq(Fields) /\ Len(u) = Len(q) /\ \A i \in 1 .. Len(q) : u[i] = p[i]
    BY <1>1, <2>1, FrontIs
  <2>6. u = Owner(p)
    BY <1>1, <2>1 DEF Owner
  <2> HIDE DEF s, u, k
  <2>7. /\ t \in Seq(Fields) /\ Len(t) = k + 1 /\ t[1] = f
        /\ \A i \in 1 .. k : t[i + 1] = s[i]
    BY <2>2, UnderIs
  <2> HIDE DEF t
  <2>8. ASSUME NEW i \in 1 .. Len(u) PROVE u[i] = t[i]
    <3>1. i \in 1 .. Len(q)
      BY <2>5
    <3>2. CASE i = 1
      BY <1>1, <2>5, <2>7, <3>1, <3>2
    <3>3. CASE i # 1
      <4> DEFINE j == i - 1
      <4>1. j \in 1 .. k /\ j \in 1 .. Len(q) /\ i = j + 1
        BY <2>1, <3>1, <3>3
      <4> HIDE DEF j
      <4>2. t[j + 1] = s[j] /\ s[j] = q[j] /\ p[j + 1] = q[j]
        BY <1>1, <2>2, <2>7, <4>1
      <4> QED  BY <2>5, <3>1, <4>1, <4>2
    <3> QED  BY <3>2, <3>3
  <2>9. u = t
    BY <2>1, <2>5, <2>7, <2>8, SamePath
  <2> QED  BY <1>3, <2>3, <2>4, <2>6, <2>9 DEF t, p
<1> QED  BY <1>2, <1>3 DEF p

-----------------------------------------------------------------------------
(* A struct on top of trees, its members.                                    *)

Kinds ==
  {"", "C_TYPE_PRIMITIVE", "C_LV_IDENTIFIER", "C_IF_PRIMARY", "C_IF_ELSEIF", "C_IF_ELSE",
   "C_INT", "C_FLOAT", "C_STRING", "C_CHAR", "C_BOOL", "C_NULL"} \cup DOMAIN Holds
Words == STRING \cup {""}
Types == Freed \cup Arrays \cup {"text"}
Struct ==
  [type : Types, kind : Kinds, val : Words,
   has : SUBSET Fields, len : Nat, boxed : BOOLEAN]
IsBranch(t) ==
  /\ t \in [DOMAIN t -> Struct] /\ <<>> \in DOMAIN t
  /\ \A p \in DOMAIN t :
       /\ p \in Seq(Fields) /\ IsStruct(t[p])
       /\ p # <<>> =>
            /\ Above(p) \subseteq DOMAIN t /\ p[Len(p)] \in t[Owner(p)].has
            /\ IsMember(t[p], t[Owner(p)], p[Len(p)])
       /\ \A f \in t[p].has : Append(p, f) \in DOMAIN t
On(n, sub) ==
  [p \in {<<>>} \cup UNION {{<<f>> \o q : q \in DOMAIN sub[f]} : f \in DOMAIN sub} |->
     IF p # <<>> THEN sub[Head(p)][Tail(p)] ELSE n]

IsOn(t, n, sub) ==
  /\ <<>> \in DOMAIN t /\ t[<<>>] = n /\ DOMAIN t \subseteq Seq(Fields)
  /\ t = [p \in DOMAIN t |-> t[p]]
  /\ \A f \in DOMAIN sub : \A q \in DOMAIN sub[f] :
       <<f>> \o q \in DOMAIN t /\ t[<<f>> \o q] = sub[f][q]
  /\ \A p \in DOMAIN t :
       p = <<>> \/ \E f \in DOMAIN sub : \E q \in DOMAIN sub[f] : p = <<f>> \o q

LEMMA OnIs ==
  ASSUME NEW n, NEW sub, DOMAIN sub \subseteq Fields,
         \A f \in DOMAIN sub : DOMAIN sub[f] \subseteq Seq(Fields)
  PROVE  IsOn(On(n, sub), n, sub)
<1> DEFINE t == On(n, sub)
           D == {<<>>} \cup UNION {{<<f>> \o q : q \in DOMAIN sub[f]} : f \in DOMAIN sub}
<1>1. /\ DOMAIN t = D /\ t = [p \in D |-> t[p]]
      /\ \A p \in D : t[p] = IF p # <<>> THEN sub[Head(p)][Tail(p)] ELSE n
  BY DEF On
<1>2. <<>> \in D
  OBVIOUS
<1>3. \A f \in DOMAIN sub : \A q \in DOMAIN sub[f] : <<f>> \o q \in D
  OBVIOUS
<1>4. \A p \in D :
        p = <<>> \/ \E f \in DOMAIN sub : \E q \in DOMAIN sub[f] : p = <<f>> \o q
  OBVIOUS
<1> HIDE DEF t, D
<1>5. ASSUME NEW f \in DOMAIN sub, NEW q \in DOMAIN sub[f]
      PROVE  /\ <<f>> \o q \in Seq(Fields) /\ t[<<f>> \o q] = sub[f][q]
  <2>1. f \in Fields /\ q \in Seq(Fields)
    OBVIOUS
  <2>2. /\ <<f>> \o q \in Seq(Fields) /\ <<f>> \o q # <<>>
        /\ Head(<<f>> \o q) = f /\ Tail(<<f>> \o q) = q
    BY <2>1, UnderIs
  <2> QED  BY <1>1, <1>3, <2>2
<1>6. D \subseteq Seq(Fields)
  BY <1>4, <1>5, NilIsPath
<1>7. /\ <<>> \in DOMAIN t /\ t[<<>>] = n /\ DOMAIN t \subseteq Seq(Fields)
      /\ t = [p \in DOMAIN t |-> t[p]]
      /\ \A f \in DOMAIN sub : \A q \in DOMAIN sub[f] :
           <<f>> \o q \in DOMAIN t /\ t[<<f>> \o q] = sub[f][q]
      /\ \A p \in DOMAIN t :
           p = <<>> \/ \E f \in DOMAIN sub : \E q \in DOMAIN sub[f] : p = <<f>> \o q
  BY <1>1, <1>2, <1>3, <1>4, <1>5, <1>6
<1>8. IsOn(t, n, sub)
  BY <1>7 DEF IsOn
<1> QED  BY <1>8 DEF t

LEMMA OwnerIsAbove ==
  ASSUME NEW p \in Seq(Fields), p # <<>> PROVE Owner(p) \in Above(p)
<1>1. Len(p) - 1 \in 0 .. Len(p)
  <2>1. Len(p) \in Nat /\ Len(p) # 0
    OBVIOUS
  <2> QED  BY <2>1
<1> QED  BY <1>1 DEF Owner, Above

(* Whether a struct is boxed says nothing of its members.                     *)
LEMMA BoxedIsApart ==
  ASSUME NEW n \in Struct, NEW b \in BOOLEAN
  PROVE  LET m == [n EXCEPT !.boxed = b] IN
         /\ m \in Struct /\ m.boxed = b /\ m.type = n.type /\ m.has = n.has
         /\ m.len = n.len /\ m.kind = n.kind /\ m.val = n.val
         /\ Members(m) = Members(n) /\ (IsStruct(n) => IsStruct(m))
         /\ \A c, f : IsMember(c, n, f) => IsMember(c, m, f)
<1> DEFINE m == [n EXCEPT !.boxed = b]
<1>1. /\ m \in Struct /\ m.boxed = b /\ m.type = n.type /\ m.has = n.has
      /\ m.len = n.len /\ m.kind = n.kind /\ m.val = n.val
  BY DEF Struct
<1> HIDE DEF m
<1>2. Members(m) = Members(n)
  BY <1>1 DEF Members
<1>3. IsStruct(n) => IsStruct(m)
  BY <1>1, <1>2 DEF IsStruct
<1>4. \A c, f : IsMember(c, n, f) => IsMember(c, m, f)
  BY <1>1, <1>2 DEF IsMember
<1> QED  BY <1>1, <1>2, <1>3, <1>4 DEF m

LEMMA MakeIs ==
  ASSUME NEW t, IsBranch(t)
  PROVE  IsBranch(make(t)) /\ make(t)[<<>>] = [t[<<>>] EXCEPT !.boxed = TRUE]
<1> DEFINE u == make(t)
           m == [t[<<>>] EXCEPT !.boxed = TRUE]
<1>1. t \in [DOMAIN t -> Struct] /\ <<>> \in DOMAIN t
  BY DEF IsBranch
<1>2. t[<<>>] \in Struct
  BY <1>1
<1>3. DOMAIN u = DOMAIN t /\ u[<<>>] = m /\ \A p \in DOMAIN t : p # <<>> => u[p] = t[p]
  BY <1>1 DEF make
<1>3a. u = [p \in DOMAIN u |-> u[p]]
  BY <1>1 DEF make
<1> HIDE DEF u, m
<1>4. m \in Struct /\ m.has = t[<<>>].has /\ (IsStruct(t[<<>>]) => IsStruct(m))
      /\ \A c, f : IsMember(c, t[<<>>], f) => IsMember(c, m, f)
  BY <1>2, BoxedIsApart DEF m
<1>5. u \in [DOMAIN u -> Struct]
  <2>1. \A p \in DOMAIN u : u[p] \in Struct
    BY <1>1, <1>3, <1>4
  <2> QED  BY <1>3a, <2>1
<1>6. ASSUME NEW p \in DOMAIN u
      PROVE  /\ u[p].has = t[p].has /\ p \in Seq(Fields) /\ IsStruct(u[p])
             /\ \A c, f : IsMember(c, t[p], f) => IsMember(c, u[p], f)
             /\ \A f \in u[p].has : Append(p, f) \in DOMAIN u
  <2>1. p \in Seq(Fields) /\ IsStruct(t[p]) /\ \A f \in t[p].has : Append(p, f) \in DOMAIN t
    BY <1>3 DEF IsBranch
  <2> QED  BY <2>1, <1>3, <1>4
<1>7. ASSUME NEW p \in DOMAIN u, p # <<>>
      PROVE  /\ Above(p) \subseteq DOMAIN u /\ p[Len(p)] \in u[Owner(p)].has
             /\ IsMember(u[p], u[Owner(p)], p[Len(p)])
  <2>1. /\ Above(p) \subseteq DOMAIN t /\ p[Len(p)] \in t[Owner(p)].has
        /\ IsMember(t[p], t[Owner(p)], p[Len(p)])
    BY <1>3, <1>7 DEF IsBranch
  <2>2. Owner(p) \in Above(p)
    BY <1>6, <1>7, OwnerIsAbove
  <2>3. Owner(p) \in DOMAIN u /\ u[p] = t[p]
    BY <1>3, <1>7, <2>1, <2>2
  <2> QED  BY <1>3, <1>6, <2>1, <2>3
<1>8. IsBranch(u)
  BY <1>3, <1>1, <1>5, <1>6, <1>7 DEF IsBranch
<1> QED  BY <1>3, <1>8 DEF u, m

LEMMA PutTogether ==
  ASSUME NEW n \in Struct, NEW sub, DOMAIN sub = n.has, IsStruct(n),
         \A f \in DOMAIN sub : IsBranch(sub[f]) /\ IsMember(sub[f][<<>>], n, f)
  PROVE  IsBranch(On(n, sub)) /\ On(n, sub)[<<>>] = n
<1> DEFINE t == On(n, sub)
<1>1. DOMAIN sub \subseteq Fields
  BY DEF Struct
<1>2. \A f \in DOMAIN sub : DOMAIN sub[f] \subseteq Seq(Fields) /\ <<>> \in DOMAIN sub[f]
  BY DEF IsBranch
<1>2a. \A f \in DOMAIN sub : DOMAIN sub[f] \subseteq Seq(Fields)
  BY <1>2
<1>3. /\ <<>> \in DOMAIN t /\ t[<<>>] = n /\ DOMAIN t \subseteq Seq(Fields)
      /\ t = [p \in DOMAIN t |-> t[p]]
      /\ \A f \in DOMAIN sub : \A q \in DOMAIN sub[f] :
           <<f>> \o q \in DOMAIN t /\ t[<<f>> \o q] = sub[f][q]
      /\ \A p \in DOMAIN t :
           p = <<>> \/ \E f \in DOMAIN sub : \E q \in DOMAIN sub[f] : p = <<f>> \o q
  <2>1. IsOn(t, n, sub)
    BY <1>1, <1>2a, OnIs
  <2> QED  BY <2>1 DEF IsOn
<1> HIDE DEF t
<1>4. ASSUME NEW f \in DOMAIN sub, NEW q \in DOMAIN sub[f]
      PROVE  LET p == <<f>> \o q IN
             /\ t[p] \in Struct /\ IsStruct(t[p])
             /\ Above(p) \subseteq DOMAIN t /\ p[Len(p)] \in t[Owner(p)].has
             /\ IsMember(t[p], t[Owner(p)], p[Len(p)])
             /\ \A g \in t[p].has : Append(p, g) \in DOMAIN t
  <2> DEFINE b == sub[f]
             p == <<f>> \o q
  <2>1. /\ IsBranch(b) /\ IsMember(b[<<>>], n, f) /\ q \in DOMAIN b /\ f \in Fields
        /\ f \in n.has
    BY <1>1
  <2>2. /\ \A r \in DOMAIN b : <<f>> \o r \in DOMAIN t /\ t[<<f>> \o r] = b[r]
        /\ p \in DOMAIN t /\ t[p] = b[q]
    BY <1>3
  <2> HIDE DEF b
  <2>3. /\ q \in Seq(Fields) /\ IsStruct(b[q]) /\ b[q] \in Struct
        /\ \A g \in b[q].has : Append(q, g) \in DOMAIN b
    BY <2>1 DEF IsBranch
  <2>4. t[p] \in Struct /\ IsStruct(t[p])
    BY <2>2, <2>3
  <2>5. Above(p) \subseteq DOMAIN t
    <3>1. ASSUME NEW r \in Above(p) PROVE r \in DOMAIN t
      <4>1. r = <<>> \/ \E s \in Above(q) : r = <<f>> \o s
        BY <2>1, <2>3, AboveUnder
      <4>2. CASE r = <<>>
        BY <1>3, <4>2
      <4>3. ASSUME NEW s \in Above(q), r = <<f>> \o s PROVE r \in DOMAIN t
        <5>1. s \in DOMAIN b
          <6>1. CASE q = <<>>
            <7>1. s \in Seq(Fields) /\ Len(s) <= Len(q) /\ Len(q) = 0
              BY <2>3, <6>1, AboveIs
            <7>2. s = q
              BY <2>3, <7>1
            <7> QED  BY <2>1, <7>2
          <6>2. CASE q # <<>>
            BY <2>1, <6>2 DEF IsBranch
          <6> QED  BY <6>1, <6>2
        <5> QED  BY <2>2, <4>3, <5>1
      <4> QED  BY <4>1, <4>2, <4>3
    <3> QED  BY <3>1
  <2>6. p[Len(p)] \in t[Owner(p)].has /\ IsMember(t[p], t[Owner(p)], p[Len(p)])
    <3>1. CASE q = <<>>
      <4>1. p[Len(p)] = f /\ Owner(p) = <<>>
        BY <2>1, <2>3, <3>1, EndUnder
      <4>2. t[Owner(p)] = n /\ t[p] = b[<<>>]
        BY <1>3, <2>2, <3>1, <4>1
      <4> QED  BY <2>1, <4>1, <4>2
    <3>2. CASE q # <<>>
      <4>1. /\ p[Len(p)] = q[Len(q)] /\ Owner(p) = <<f>> \o Owner(q)
            /\ Owner(q) \in Above(q)
        BY <2>1, <2>3, <3>2, EndUnder
      <4>2. /\ Above(q) \subseteq DOMAIN b /\ q[Len(q)] \in b[Owner(q)].has
            /\ IsMember(b[q], b[Owner(q)], q[Len(q)])
        BY <2>1, <3>2 DEF IsBranch
      <4>3. t[Owner(p)] = b[Owner(q)]
        BY <2>2, <4>1, <4>2
      <4> QED  BY <2>2, <4>1, <4>2, <4>3
    <3> QED  BY <3>1, <3>2
  <2>7. ASSUME NEW g \in t[p].has PROVE Append(p, g) \in DOMAIN t
    <3>1. g \in b[q].has /\ g \in Fields
      BY <2>2, <2>3 DEF Struct
    <3>2. Append(p, g) = <<f>> \o Append(q, g)
      BY <2>1, <2>3, <3>1, UnderChild
    <3> QED  BY <2>2, <2>3, <3>1, <3>2
  <2> QED  BY <2>4, <2>5, <2>6, <2>7
<1>5. ASSUME NEW f \in n.has PROVE Append(<<>>, f) \in DOMAIN t
  <2>1. f \in Fields /\ f \in DOMAIN sub /\ <<>> \in DOMAIN sub[f]
    BY <1>1, <1>2
  <2>2. <<f>> \o <<>> = Append(<<>>, f)
    OBVIOUS
  <2> QED  BY <1>3, <2>1, <2>2
<1>6. ASSUME NEW p \in DOMAIN t
      PROVE  /\ t[p] \in Struct /\ IsStruct(t[p])
             /\ p # <<>> =>
                  /\ Above(p) \subseteq DOMAIN t /\ p[Len(p)] \in t[Owner(p)].has
                  /\ IsMember(t[p], t[Owner(p)], p[Len(p)])
             /\ \A f \in t[p].has : Append(p, f) \in DOMAIN t
  <2>1. CASE p = <<>>
    BY <1>3, <1>5, <2>1
  <2>2. CASE \E f \in DOMAIN sub : \E q \in DOMAIN sub[f] : p = <<f>> \o q
    BY <1>4, <2>2
  <2> QED  BY <1>3, <2>1, <2>2
<1>7. t \in [DOMAIN t -> Struct]
  BY <1>3, <1>6
<1>8. IsBranch(t)
  BY <1>3, <1>6, <1>7 DEF IsBranch
<1> QED  BY <1>3, <1>8 DEF t

(* What Node, Counting and make put on top.                                   *)
LEMMA NodeIsOn ==
  ASSUME NEW type \in Types, NEW kind \in Kinds, NEW val \in Words, NEW sub,
         DOMAIN sub \subseteq Fields
  PROVE  LET n == [type |-> type, kind |-> kind, val |-> val, has |-> DOMAIN sub,
                   len |-> 0, boxed |-> FALSE] IN
         n \in Struct /\ Node(type, kind, val, sub) = On(n, sub)
BY DEF Node, On, Struct

LEMMA CountingIsOn ==
  ASSUME NEW n \in Struct, NEW sub, NEW len \in Nat
  PROVE  LET m == [n EXCEPT !.len = len] IN
         m \in Struct /\ Counting(On(n, sub), len) = On(m, sub)
<1> DEFINE m == [n EXCEPT !.len = len]
<1>1. m \in Struct
  BY DEF Struct
<1>2. Counting(On(n, sub), len) = On(m, sub)
  BY DEF Counting, On
<1> QED  BY <1>1, <1>2

-----------------------------------------------------------------------------
(* One constructor after the other.  IsA: a tree whose first struct is of the  *)
(* type; Part: what a struct may have as a member.                            *)

IsA(t, type) ==
  /\ IsTree(t) /\ t \in [DOMAIN t -> Struct] /\ t[<<>>].type = type
Part(b, type, boxed, len) ==
  /\ IsBranch(b) /\ b[<<>>].type = type /\ b[<<>>].boxed = boxed
  /\ type \in Arrays => b[<<>>].len = len
Top(type, kind, val, has, len) ==
  [type |-> type, kind |-> kind, val |-> val, has |-> has, len |-> len,
   boxed |-> FALSE]

LEMMA SameStruct ==
  ASSUME NEW m \in Struct, NEW n \in Struct, m.type = n.type, m.kind = n.kind,
         m.val = n.val, m.has = n.has, m.len = n.len, m.boxed = n.boxed
  PROVE  m = n
BY DEF Struct

LEMMA TopIs ==
  ASSUME NEW type \in Types, NEW kind \in Kinds, NEW val \in Words,
         NEW has \in SUBSET Fields, NEW len \in Nat
  PROVE  /\ Top(type, kind, val, has, len) \in Struct
         /\ Top(type, kind, val, has, len).type = type
         /\ Top(type, kind, val, has, len).kind = kind
         /\ Top(type, kind, val, has, len).val = val
         /\ Top(type, kind, val, has, len).has = has
         /\ Top(type, kind, val, has, len).len = len
BY DEF Top, Struct

LEMMA TopCounted ==
  ASSUME NEW type \in Types, NEW kind \in Kinds, NEW val \in Words,
         NEW has \in SUBSET Fields, NEW len \in Nat
  PROVE  [Top(type, kind, val, has, 0) EXCEPT !.len = len] = Top(type, kind, val, has, len)
<1> DEFINE m == Top(type, kind, val, has, 0)
           n == Top(type, kind, val, has, len)
           c == [m EXCEPT !.len = len]
<1>1. /\ m \in Struct /\ m.type = type /\ m.kind = kind /\ m.val = val
      /\ m.has = has /\ m.boxed = FALSE
  BY DEF Top, Struct
<1>2. /\ n \in Struct /\ n.type = type /\ n.kind = kind /\ n.val = val
      /\ n.has = has /\ n.len = len /\ n.boxed = FALSE
  BY DEF Top, Struct
<1> HIDE DEF m, n
<1>3. /\ c \in Struct /\ c.type = type /\ c.kind = kind /\ c.val = val
      /\ c.has = has /\ c.len = len /\ c.boxed = FALSE
  BY <1>1 DEF Struct
<1> HIDE DEF c
<1>4. c = n
  BY <1>2, <1>3, SameStruct
<1> QED  BY <1>4 DEF c, m, n

LEMMA BranchIsTree ==
  ASSUME NEW t
  PROVE  /\ IsBranch(t) /\ t[<<>>].boxed = FALSE => IsA(t, t[<<>>].type)
         /\ \A type : IsA(t, type) => Part(t, type, FALSE, t[<<>>].len)
<1>1. ASSUME IsBranch(t), t[<<>>].boxed = FALSE PROVE IsA(t, t[<<>>].type)
  BY <1>1 DEF IsBranch, IsA, IsTree
<1>2. ASSUME NEW type, IsA(t, type) PROVE Part(t, type, FALSE, t[<<>>].len)
  <2>1. IsBranch(t)
    BY <1>2 DEF IsA, IsTree, IsBranch
  <2>2. t[<<>>].boxed \in BOOLEAN /\ ~t[<<>>].boxed /\ t[<<>>].type = type
    <3>1. t[<<>>] \in Struct /\ ~t[<<>>].boxed /\ t[<<>>].type = type
      BY <1>2 DEF IsA, IsTree
    <3> QED  BY <3>1 DEF Struct
  <2>3. t[<<>>].boxed = FALSE
    BY <2>2
  <2> QED  BY <2>1, <2>2, <2>3 DEF Part
<1> QED  BY <1>1, <1>2

LEMMA MadeIsPart ==
  ASSUME NEW t, NEW type, NEW len, IsA(t, type), type \notin Arrays
  PROVE  Part(make(t), type, TRUE, len)
<1>1. Part(t, type, FALSE, t[<<>>].len)
  BY BranchIsTree
<1>2. IsBranch(t) /\ t[<<>>].type = type
  BY <1>1 DEF Part
<1>3. IsBranch(make(t)) /\ make(t)[<<>>] = [t[<<>>] EXCEPT !.boxed = TRUE]
  BY <1>2, MakeIs
<1>4. t[<<>>] \in Struct
  BY <1>2 DEF IsBranch
<1>5. make(t)[<<>>].boxed = TRUE /\ make(t)[<<>>].type = type
  BY <1>2, <1>3, <1>4, BoxedIsApart
<1> QED  BY <1>3, <1>5 DEF Part

Fills(n, f, b) ==
  \E c \in Members(n)[f] :
     Part(b, c, n.type \notin Arrays /\ (n.type = "C_Expr" => c = "C_Identifier"), n.len)
Suits(n, sub) ==
  n.has = DOMAIN sub /\ IsStruct(n) /\ \A f \in DOMAIN sub : Fills(n, f, sub[f])

LEMMA FitsIs ==
  ASSUME NEW n, NEW f, NEW b, Fills(n, f, b)
  PROVE  IsBranch(b) /\ IsMember(b[<<>>], n, f)
<1>1. PICK c \in Members(n)[f] :
        Part(b, c, n.type \notin Arrays /\ (n.type = "C_Expr" => c = "C_Identifier"), n.len)
  BY DEF Fills
<1>2. IsBranch(b) /\ b[<<>>].type = c
  BY <1>1 DEF Part
<1>3. b[<<>>].boxed = (n.type \notin Arrays /\ (n.type = "C_Expr" => c = "C_Identifier"))
  BY <1>1 DEF Part
<1>4. b[<<>>].type \in Arrays => b[<<>>].len = n.len
  BY <1>1, <1>2 DEF Part
<1>5. IsMember(b[<<>>], n, f)
  BY <1>2, <1>3, <1>4 DEF IsMember
<1> QED  BY <1>2, <1>5

LEMMA NodeMakes ==
  ASSUME NEW type \in Types, NEW kind \in Kinds, NEW val \in Words,
         NEW sub, DOMAIN sub \subseteq Fields, NEW len \in Nat,
         Suits(Top(type, kind, val, DOMAIN sub, len), sub)
  PROVE  /\ IsBranch(Counting(Node(type, kind, val, sub), len))
         /\ IsA(Counting(Node(type, kind, val, sub), len), type)
         /\ Counting(Node(type, kind, val, sub), len)[<<>>] = Top(type, kind, val, DOMAIN sub, len)
         /\ len = 0 => Counting(Node(type, kind, val, sub), len) = Node(type, kind, val, sub)
<1> DEFINE n == Top(type, kind, val, DOMAIN sub, len)
           m == Top(type, kind, val, DOMAIN sub, 0)
           u == Node(type, kind, val, sub)
           t == Counting(u, len)
<1>0. DOMAIN sub \in SUBSET Fields
  OBVIOUS
<1>1. /\ n \in Struct /\ n.type = type /\ n.has = DOMAIN sub /\ n.boxed = FALSE
      /\ n.len = len
  BY <1>0 DEF Top, Struct
<1>2. m \in Struct /\ u = On(m, sub)
  BY NodeIsOn DEF Top
<1>4. [m EXCEPT !.len = len] = n
  BY <1>0, TopCounted
<1>7. IsStruct(n) /\ \A f \in DOMAIN sub : Fills(n, f, sub[f])
  BY DEF Suits
<1>7a. len = 0 => n = m
  OBVIOUS
<1> HIDE DEF n, m
<1>3. t = On([m EXCEPT !.len = len], sub)
  BY <1>2, CountingIsOn
<1>5. t = On(n, sub)
  BY <1>3, <1>4
<1>6. len = 0 => t = u
  BY <1>2, <1>5, <1>7a
<1> HIDE DEF u, t
<1>8. \A f \in DOMAIN sub : IsBranch(sub[f]) /\ IsMember(sub[f][<<>>], n, f)
  BY <1>7, FitsIs
<1>9. IsBranch(t) /\ t[<<>>] = n
  BY <1>1, <1>5, <1>7, <1>8, PutTogether
<1>10. IsA(t, type)
  BY <1>1, <1>9, BranchIsTree
<1> QED  BY <1>6, <1>9, <1>10 DEF t, u, n

LEMMA NothingCounted == 0 \in Nat /\ 0 \in 0 .. Len(Nth) /\ Len(Nth) \in Nat
BY NthAssumption

LEMMA PlainFits ==
  ASSUME NEW n, NEW f, NEW b, NEW c \in Members(n)[f], Part(b, c, TRUE, n.len),
         n.type \notin Arrays, n.type # "C_Expr"
  PROVE  Fills(n, f, b)
<1>1. (n.type \notin Arrays /\ (n.type = "C_Expr" => c = "C_Identifier")) = TRUE
  OBVIOUS
<1>2. Part(b, c, n.type \notin Arrays /\ (n.type = "C_Expr" => c = "C_Identifier"), n.len)
  BY <1>1
<1> QED  BY <1>2 DEF Fills

LEMMA WordsAre ==
  /\ "" \in Kinds /\ "" \in Words /\ STRING \subseteq Words /\ DOMAIN Holds \subseteq Kinds
  /\ Freed \subseteq Types /\ Arrays \subseteq Types /\ "text" \in Types
BY DEF Kinds, Words, Types

LEMMA TextIs == \A len : Part(Text, "text", TRUE, len)
<1> DEFINE n == Top("text", "", "", {}, 0)
           t == Node("text", "", "", NoSub)
<1>1. DOMAIN NoSub = {}
  BY DEF NoSub
<1>2. {} \in SUBSET Fields
  OBVIOUS
<1>3. n.type = "text" /\ n.kind = "" /\ n.val = "" /\ n.has = {} /\ n.len = 0
  BY DEF Top
<1>4. DOMAIN Members(n) = {}
  BY <1>3, MembersAre DEF Freed, Arrays
<1>5. IsStruct(n)
  BY <1>3, <1>4, NothingCounted DEF IsStruct
<1>6. Suits(n, NoSub)
  BY <1>1, <1>3, <1>5 DEF Suits
<1>7. IsA(t, "text")
  BY <1>1, <1>6, NothingCounted, WordsAre, NodeMakes
<1>8. "text" \notin Arrays
  BY DEF Arrays
<1>9. \A len : Part(make(t), "text", TRUE, len)
  BY <1>7, <1>8, MadeIsPart
<1> QED  BY <1>9 DEF Text

LEMMA MadeFits ==
  ASSUME NEW n, NEW f, NEW t, NEW c \in Members(n)[f], IsA(t, c), c \notin Arrays,
         n.type \notin Arrays, n.type # "C_Expr"
  PROVE  Fills(n, f, make(t))
<1>1. Part(make(t), c, TRUE, n.len)
  BY MadeIsPart
<1> QED  BY <1>1, PlainFits

LEMMA HoldsAre ==
  /\ "C_EXPR_IDENTIFIER" \in DOMAIN Holds /\ Holds["C_EXPR_IDENTIFIER"] = "C_Identifier"
  /\ \A kind \in DOMAIN Holds :
       /\ kind \notin {"C_INT", "C_FLOAT", "C_STRING", "C_CHAR", "C_BOOL", "C_NULL"}
       /\ Holds[kind] \notin Arrays
       /\ kind # "C_EXPR_IDENTIFIER" => Holds[kind] # "C_Identifier"
BY DEF Holds, Arrays

(* What an expression holds is in a block of its own if it is an identifier.  *)
LEMMA ExprFits ==
  ASSUME NEW n, n.type = "C_Expr", NEW c, c \in Members(n)["data"], NEW b,
         \/ c # "C_Identifier" /\ c \notin Arrays /\ IsA(b, c)
         \/ c = "C_Identifier" /\ \E t : IsA(t, c) /\ b = make(t)
  PROVE  Fills(n, "data", b)
<1> DEFINE boxed == n.type \notin Arrays /\ (n.type = "C_Expr" => c = "C_Identifier")
<1>1. n.type \notin Arrays /\ "C_Identifier" \notin Arrays
  BY DEF Arrays
<1>2. CASE c # "C_Identifier" /\ c \notin Arrays /\ IsA(b, c)
  <2>1. boxed = FALSE
    BY <1>2
  <2>2. Part(b, c, FALSE, b[<<>>].len)
    BY <1>2, BranchIsTree
  <2>3. Part(b, c, FALSE, n.len)
    BY <1>2, <2>2 DEF Part
  <2>4. Part(b, c, boxed, n.len)
    BY <2>1, <2>3
  <2> QED  BY <2>4 DEF Fills
<1>3. CASE c = "C_Identifier" /\ \E t : IsA(t, c) /\ b = make(t)
  <2>1. boxed = TRUE
    BY <1>1, <1>3
  <2>2. PICK t : IsA(t, c) /\ b = make(t)
    BY <1>3
  <2>3. Part(b, c, TRUE, n.len)
    BY <1>1, <1>3, <2>2, MadeIsPart
  <2>4. Part(b, c, boxed, n.len)
    BY <2>1, <2>3
  <2> QED  BY <2>4 DEF Fills
<1> QED  BY <1>2, <1>3

LEMMA NoneMakes ==
  ASSUME NEW type \in Types, NEW kind \in Kinds, NEW val \in Words,
         IsStruct(Top(type, kind, val, {}, 0))
  PROVE  IsA(Node(type, kind, val, NoSub), type)
<1>1. DOMAIN NoSub = {}
  BY DEF NoSub
<1>2. Top(type, kind, val, {}, 0).has = {}
  BY DEF Top
<1>3. Suits(Top(type, kind, val, DOMAIN NoSub, 0), NoSub)
  BY <1>1, <1>2 DEF Suits
<1>4. DOMAIN NoSub \subseteq Fields
  BY <1>1
<1> QED  BY <1>3, <1>4, NothingCounted, NodeMakes

LEMMA OneMakes ==
  ASSUME NEW type \in Types, NEW kind \in Kinds, NEW val \in Words, NEW len \in Nat,
         NEW f \in Fields, NEW sub, DOMAIN sub = {f},
         NEW n, n = Top(type, kind, val, {f}, len), IsStruct(n), Fills(n, f, sub[f])
  PROVE  /\ IsA(Counting(Node(type, kind, val, sub), len), type)
         /\ len = 0 => IsA(Node(type, kind, val, sub), type)
<1>1. n.has = {f}
  BY DEF Top
<1>2. Suits(n, sub)
  BY <1>1 DEF Suits
<1>3. n = Top(type, kind, val, DOMAIN sub, len) /\ DOMAIN sub \subseteq Fields
  OBVIOUS
<1> QED  BY <1>2, <1>3, NodeMakes

LEMMA TwoMakes ==
  ASSUME NEW type \in Types, NEW kind \in Kinds, NEW val \in Words,
         NEW f \in Fields, NEW g \in Fields, NEW sub, DOMAIN sub = {f, g},
         NEW n, n = Top(type, kind, val, {f, g}, 0), IsStruct(n),
         Fills(n, f, sub[f]), Fills(n, g, sub[g])
  PROVE  IsA(Node(type, kind, val, sub), type)
<1>1. n.has = {f, g}
  BY DEF Top
<1>2. Suits(n, sub)
  BY <1>1 DEF Suits
<1>3. n = Top(type, kind, val, DOMAIN sub, 0) /\ DOMAIN sub \subseteq Fields
  OBVIOUS
<1> QED  BY <1>2, <1>3, NothingCounted, NodeMakes

LEMMA ArrayTypeIs ==
  ASSUME NEW index, NEW inner, IsA(index, "C_Expr"), IsA(inner, "C_Type")
  PROVE  IsA(C_ArrayType_new(index, inner), "C_ArrayType")
<1> DEFINE sub == [size |-> make(index), inner |-> make(inner)]
           n == Top("C_ArrayType", "", "", {"size", "inner"}, 0)
<1>1. /\ DOMAIN sub = {"size", "inner"} /\ sub["size"] = make(index)
      /\ sub["inner"] = make(inner)
  OBVIOUS
<1>2. /\ n.type = "C_ArrayType" /\ n.kind = "" /\ n.val = ""
      /\ n.has = {"size", "inner"} /\ n.len = 0
  BY DEF Top
<1>3. /\ "C_ArrayType" \in Types /\ "" \in Kinds /\ "" \in Words
      /\ "size" \in Fields /\ "inner" \in Fields
  BY DEF Types, Freed, Kinds, Words, Fields
<1> HIDE DEF n, sub
<1>5. /\ DOMAIN Members(n) = {"size", "inner"} /\ Members(n)["size"] = {"C_Expr"}
      /\ Members(n)["inner"] = {"C_Type"}
  BY <1>2, MembersAre
<1>6. IsStruct(n)
  BY <1>2, <1>5, NothingCounted DEF IsStruct
<1>7. Fills(n, "size", sub["size"]) /\ Fills(n, "inner", sub["inner"])
  <2>1. n.type \notin Arrays /\ n.type # "C_Expr"
    BY <1>2 DEF Arrays
  <2>2. "C_Expr" \in Members(n)["size"] /\ "C_Expr" \notin Arrays
    BY <1>5 DEF Arrays
  <2>3. Fills(n, "size", make(index))
    BY <2>1, <2>2, MadeFits
  <2>4. "C_Type" \in Members(n)["inner"] /\ "C_Type" \notin Arrays
    BY <1>5 DEF Arrays
  <2>5. Fills(n, "inner", make(inner))
    BY <2>1, <2>4, MadeFits
  <2> QED  BY <1>1, <2>3, <2>5
<1>8. IsA(Node("C_ArrayType", "", "", sub), "C_ArrayType")
  BY <1>1, <1>3, <1>6, <1>7, TwoMakes DEF n
<1> QED  BY <1>8 DEF C_ArrayType_new, sub

LEMMA PrimitiveIs ==
  ASSUME NEW t \in STRING, t # ""
  PROVE  IsA(C_Type_new_primitive(t), "C_Type")
<1> DEFINE n == Top("C_Type", "C_TYPE_PRIMITIVE", t, {}, 0)
<1>2. /\ n.type = "C_Type" /\ n.kind = "C_TYPE_PRIMITIVE" /\ n.val = t /\ n.has = {}
      /\ n.len = 0
  BY DEF Top
<1>3. "C_Type" \in Types /\ "C_TYPE_PRIMITIVE" \in Kinds /\ t \in Words
  BY DEF Types, Freed, Kinds, Words
<1> HIDE DEF n
<1>5. DOMAIN Members(n) = {}
  BY <1>2, MembersAre
<1>6. IsStruct(n)
  BY <1>2, <1>5, NothingCounted DEF IsStruct
<1>7. IsA(Node("C_Type", "C_TYPE_PRIMITIVE", t, NoSub), "C_Type")
  BY <1>3, <1>6, NoneMakes DEF n
<1> QED  BY <1>7 DEF C_Type_new_primitive

LEMMA TypeOfArrayIs ==
  ASSUME NEW t, IsA(t, "C_ArrayType")
  PROVE  IsA(C_Type_new_array(t), "C_Type")
<1> DEFINE sub == [data |-> make(t)]
           n == Top("C_Type", "C_TYPE_PRIMITIVE", "", {"data"}, 0)
<1>1. DOMAIN sub = {"data"} /\ sub["data"] = make(t)
  OBVIOUS
<1>2. /\ n.type = "C_Type" /\ n.kind = "C_TYPE_PRIMITIVE" /\ n.val = ""
      /\ n.has = {"data"} /\ n.len = 0
  BY DEF Top
<1>3. /\ "C_Type" \in Types /\ "C_TYPE_PRIMITIVE" \in Kinds /\ "" \in Words
      /\ "data" \in Fields
  BY DEF Types, Freed, Kinds, Words, Fields
<1> HIDE DEF n, sub
<1>5. DOMAIN Members(n) = {"data"} /\ Members(n)["data"] = {"C_ArrayType"}
  BY <1>2, MembersAre
<1>6. IsStruct(n)
  BY <1>2, <1>5, NothingCounted DEF IsStruct
<1>7. Fills(n, "data", sub["data"])
  <2>1. n.type \notin Arrays /\ n.type # "C_Expr"
    BY <1>2 DEF Arrays
  <2>2. "C_ArrayType" \in Members(n)["data"] /\ "C_ArrayType" \notin Arrays
    BY <1>5 DEF Arrays
  <2>3. Fills(n, "data", make(t))
    BY <2>1, <2>2, MadeFits
  <2> QED  BY <1>1, <2>3
<1>8. IsA(Node("C_Type", "C_TYPE_PRIMITIVE", "", sub), "C_Type")
  BY <1>1, <1>3, <1>6, <1>7, NothingCounted, OneMakes DEF n
<1> QED  BY <1>8 DEF C_Type_new_array, sub

LEMMA StringIs ==
  ASSUME NEW string \in STRING, string # ""
  PROVE  IsA(C_Literal_new_string(string), "C_Literal")
<1> DEFINE sub == [data |-> Text]
           n == Top("C_Literal", "C_STRING", string, {"data"}, 0)
<1>1. DOMAIN sub = {"data"} /\ sub["data"] = Text
  OBVIOUS
<1>2. /\ n.type = "C_Literal" /\ n.kind = "C_STRING" /\ n.val = string
      /\ n.has = {"data"} /\ n.len = 0
  BY DEF Top
<1>3. /\ "C_Literal" \in Types /\ "C_STRING" \in Kinds /\ string \in Words
      /\ "data" \in Fields
  BY DEF Types, Freed, Kinds, Words, Fields
<1> HIDE DEF n, sub
<1>5. DOMAIN Members(n) = {"data"} /\ Members(n)["data"] = {"text"}
  BY <1>2, MembersAre
<1>6. IsStruct(n)
  BY <1>2, <1>5, NothingCounted DEF IsStruct
<1>7. Fills(n, "data", sub["data"])
  BY <1>1, <1>2, <1>5, TextIs, PlainFits DEF Arrays
<1>8. IsA(Node("C_Literal", "C_STRING", string, sub), "C_Literal")
  BY <1>1, <1>3, <1>6, <1>7, NothingCounted, OneMakes DEF n
<1> QED  BY <1>8 DEF C_Literal_new_string, sub

LEMMA LiteralIs ==
  ASSUME NEW kind \in {"C_INT", "C_FLOAT", "C_CHAR", "C_BOOL", "C_NULL"},
         NEW val \in STRING, val # ""
  PROVE  IsA(C_Literal_new(kind, val), "C_Literal")
<1> DEFINE n == Top("C_Literal", kind, val, {}, 0)
<1>2. n.type = "C_Literal" /\ n.kind = kind /\ n.val = val /\ n.has = {} /\ n.len = 0
  BY DEF Top
<1>3. "C_Literal" \in Types /\ kind \in Kinds /\ val \in Words
  BY DEF Types, Freed, Kinds, Words
<1> HIDE DEF n
<1>5. DOMAIN Members(n) = {}
  BY <1>2, MembersAre
<1>6. IsStruct(n)
  BY <1>2, <1>5, NothingCounted DEF IsStruct
<1>7. IsA(Node("C_Literal", kind, val, NoSub), "C_Literal")
  BY <1>3, <1>6, NoneMakes DEF n
<1> QED  BY <1>7 DEF C_Literal_new

LEMMA IdentifierIs ==
  ASSUME NEW ident \in STRING, ident # ""
  PROVE  IsA(C_Identifier_new(ident), "C_Identifier")
<1> DEFINE sub == [ident |-> Text]
           n == Top("C_Identifier", "", ident, {"ident"}, 0)
<1>1. DOMAIN sub = {"ident"} /\ sub["ident"] = Text
  OBVIOUS
<1>2. /\ n.type = "C_Identifier" /\ n.kind = "" /\ n.val = ident
      /\ n.has = {"ident"} /\ n.len = 0
  BY DEF Top
<1>3. /\ "C_Identifier" \in Types /\ "" \in Kinds /\ ident \in Words
      /\ "ident" \in Fields
  BY DEF Types, Freed, Kinds, Words, Fields
<1> HIDE DEF n, sub
<1>5. DOMAIN Members(n) = {"ident"} /\ Members(n)["ident"] = {"text"}
  BY <1>2, MembersAre
<1>6. IsStruct(n)
  BY <1>2, <1>5, NothingCounted DEF IsStruct
<1>7. Fills(n, "ident", sub["ident"])
  BY <1>1, <1>2, <1>5, TextIs, PlainFits DEF Arrays
<1>8. IsA(Node("C_Identifier", "", ident, sub), "C_Identifier")
  BY <1>1, <1>3, <1>6, <1>7, NothingCounted, OneMakes DEF n
<1> QED  BY <1>8 DEF C_Identifier_new, sub

LEMMA LvalueIdentIs ==
  ASSUME NEW ident, IsA(ident, "C_Identifier")
  PROVE  IsA(C_Lvalue_new_ident(ident), "C_Lvalue")
<1> DEFINE sub == [data |-> make(ident)]
           n == Top("C_Lvalue", "C_LV_IDENTIFIER", "", {"data"}, 0)
<1>1. DOMAIN sub = {"data"} /\ sub["data"] = make(ident)
  OBVIOUS
<1>2. /\ n.type = "C_Lvalue" /\ n.kind = "C_LV_IDENTIFIER" /\ n.val = ""
      /\ n.has = {"data"} /\ n.len = 0
  BY DEF Top
<1>3. /\ "C_Lvalue" \in Types /\ "C_LV_IDENTIFIER" \in Kinds /\ "" \in Words
      /\ "data" \in Fields
  BY DEF Types, Freed, Kinds, Words, Fields
<1> HIDE DEF n, sub
<1>5. /\ DOMAIN Members(n) = {"data"}
      /\ Members(n)["data"] = {"C_Identifier", "C_ArrayIndex"}
  BY <1>2, MembersAre
<1>6. IsStruct(n)
  BY <1>2, <1>5, NothingCounted DEF IsStruct
<1>7. Fills(n, "data", sub["data"])
  <2>1. n.type \notin Arrays /\ n.type # "C_Expr"
    BY <1>2 DEF Arrays
  <2>2. "C_Identifier" \in Members(n)["data"] /\ "C_Identifier" \notin Arrays
    BY <1>5 DEF Arrays
  <2>3. Fills(n, "data", make(ident))
    BY <2>1, <2>2, MadeFits
  <2> QED  BY <1>1, <2>3
<1>8. IsA(Node("C_Lvalue", "C_LV_IDENTIFIER", "", sub), "C_Lvalue")
  BY <1>1, <1>3, <1>6, <1>7, NothingCounted, OneMakes DEF n
<1> QED  BY <1>8 DEF C_Lvalue_new_ident, sub

LEMMA LvalueIndexIs ==
  ASSUME NEW array_index, IsA(array_index, "C_ArrayIndex")
  PROVE  IsA(C_Lvalue_new_array_index(array_index), "C_Lvalue")
<1> DEFINE sub == [data |-> make(array_index)]
           n == Top("C_Lvalue", "C_LV_IDENTIFIER", "", {"data"}, 0)
<1>1. DOMAIN sub = {"data"} /\ sub["data"] = make(array_index)
  OBVIOUS
<1>2. /\ n.type = "C_Lvalue" /\ n.kind = "C_LV_IDENTIFIER" /\ n.val = ""
      /\ n.has = {"data"} /\ n.len = 0
  BY DEF Top
<1>3. /\ "C_Lvalue" \in Types /\ "C_LV_IDENTIFIER" \in Kinds /\ "" \in Words
      /\ "data" \in Fields
  BY DEF Types, Freed, Kinds, Words, Fields
<1> HIDE DEF n, sub
<1>5. /\ DOMAIN Members(n) = {"data"}
      /\ Members(n)["data"] = {"C_Identifier", "C_ArrayIndex"}
  BY <1>2, MembersAre
<1>6. IsStruct(n)
  BY <1>2, <1>5, NothingCounted DEF IsStruct
<1>7. Fills(n, "data", sub["data"])
  <2>1. n.type \notin Arrays /\ n.type # "C_Expr"
    BY <1>2 DEF Arrays
  <2>2. "C_ArrayIndex" \in Members(n)["data"] /\ "C_ArrayIndex" \notin Arrays
    BY <1>5 DEF Arrays
  <2>3. Fills(n, "data", make(array_index))
    BY <2>1, <2>2, MadeFits
  <2> QED  BY <1>1, <2>3
<1>8. IsA(Node("C_Lvalue", "C_LV_IDENTIFIER", "", sub), "C_Lvalue")
  BY <1>1, <1>3, <1>6, <1>7, NothingCounted, OneMakes DEF n
<1> QED  BY <1>8 DEF C_Lvalue_new_array_index, sub

LEMMA ParameterIs ==
  ASSUME NEW ident, NEW of, IsA(ident, "C_Identifier"), IsA(of, "C_Type")
  PROVE  IsA(C_FunctionArgument_new(ident, of), "C_FunctionArgument")
<1> DEFINE sub == [ident |-> make(ident), type |-> make(of)]
           n == Top("C_FunctionArgument", "", "", {"ident", "type"}, 0)
<1>1. /\ DOMAIN sub = {"ident", "type"} /\ sub["ident"] = make(ident)
      /\ sub["type"] = make(of)
  OBVIOUS
<1>2. /\ n.type = "C_FunctionArgument" /\ n.kind = "" /\ n.val = ""
      /\ n.has = {"ident", "type"} /\ n.len = 0
  BY DEF Top
<1>3. /\ "C_FunctionArgument" \in Types /\ "" \in Kinds /\ "" \in Words
      /\ "ident" \in Fields /\ "type" \in Fields
  BY DEF Types, Freed, Kinds, Words, Fields
<1> HIDE DEF n, sub
<1>5. /\ DOMAIN Members(n) = {"ident", "type"}
      /\ Members(n)["ident"] = {"C_Identifier"} /\ Members(n)["type"] = {"C_Type"}
  BY <1>2, MembersAre
<1>6. IsStruct(n)
  BY <1>2, <1>5, NothingCounted DEF IsStruct
<1>7. Fills(n, "ident", sub["ident"]) /\ Fills(n, "type", sub["type"])
  <2>1. n.type \notin Arrays /\ n.type # "C_Expr"
    BY <1>2 DEF Arrays
  <2>2. "C_Identifier" \in Members(n)["ident"] /\ "C_Identifier" \notin Arrays
    BY <1>5 DEF Arrays
  <2>3. Fills(n, "ident", make(ident))
    BY <2>1, <2>2, MadeFits
  <2>4. "C_Type" \in Members(n)["type"] /\ "C_Type" \notin Arrays
    BY <1>5 DEF Arrays
  <2>5. Fills(n, "type", make(of))
    BY <2>1, <2>4, MadeFits
  <2> QED  BY <1>1, <2>3, <2>5
<1>8. IsA(Node("C_FunctionArgument", "", "", sub), "C_FunctionArgument")
  BY <1>1, <1>3, <1>6, <1>7, TwoMakes DEF n
<1> QED  BY <1>8 DEF C_FunctionArgument_new, sub

LEMMA ArgumentListIs ==
  ASSUME NEW args, NEW len \in 0 .. Len(Nth),
         Part(args, "C_FunctionArgument[]", TRUE, len)
  PROVE  IsA(C_ArgumentList_new(args, len), "C_ArgumentList")
<1> DEFINE sub == [args |-> args]
           n == Top("C_ArgumentList", "", "", {"args"}, len)
<1>1. DOMAIN sub = {"args"} /\ sub["args"] = args
  OBVIOUS
<1>2. /\ n.type = "C_ArgumentList" /\ n.kind = "" /\ n.val = "" /\ n.has = {"args"}
      /\ n.len = len
  BY DEF Top
<1>3. /\ "C_ArgumentList" \in Types /\ "" \in Kinds /\ "" \in Words
      /\ "args" \in Fields
  BY DEF Types, Freed, Kinds, Words, Fields
<1>4. len \in Nat
  BY NothingCounted
<1> HIDE DEF n, sub
<1>5. DOMAIN Members(n) = {"args"} /\ Members(n)["args"] = {"C_FunctionArgument[]"}
  BY <1>2, MembersAre
<1>6. IsStruct(n)
  BY <1>2, <1>5, NothingCounted DEF IsStruct
<1>7. Fills(n, "args", sub["args"])
  BY <1>1, <1>2, <1>5, PlainFits DEF Arrays
<1>8. IsA(Counting(Node("C_ArgumentList", "", "", sub), len), "C_ArgumentList")
  BY <1>1, <1>3, <1>4, <1>6, <1>7, OneMakes DEF n
<1> QED  BY <1>8 DEF C_ArgumentList_new, sub

LEMMA FnCallIs ==
  ASSUME NEW ident, NEW args, IsA(ident, "C_Identifier"),
         IsA(args, "C_ArgumentList")
  PROVE  IsA(C_FnCall_new(ident, args), "C_FnCall")
<1> DEFINE sub == [ident |-> make(ident), args |-> make(args)]
           n == Top("C_FnCall", "", "", {"ident", "args"}, 0)
<1>1. /\ DOMAIN sub = {"ident", "args"} /\ sub["ident"] = make(ident)
      /\ sub["args"] = make(args)
  OBVIOUS
<1>2. /\ n.type = "C_FnCall" /\ n.kind = "" /\ n.val = ""
      /\ n.has = {"ident", "args"} /\ n.len = 0
  BY DEF Top
<1>3. /\ "C_FnCall" \in Types /\ "" \in Kinds /\ "" \in Words
      /\ "ident" \in Fields /\ "args" \in Fields
  BY DEF Types, Freed, Kinds, Words, Fields
<1> HIDE DEF n, sub
<1>5. /\ DOMAIN Members(n) = {"ident", "args"}
      /\ Members(n)["ident"] = {"C_Identifier"}
      /\ Members(n)["args"] = {"C_ArgumentList"}
  BY <1>2, MembersAre
<1>6. IsStruct(n)
  BY <1>2, <1>5, NothingCounted DEF IsStruct
<1>7. Fills(n, "ident", sub["ident"]) /\ Fills(n, "args", sub["args"])
  <2>1. n.type \notin Arrays /\ n.type # "C_Expr"
    BY <1>2 DEF Arrays
  <2>2. "C_Identifier" \in Members(n)["ident"] /\ "C_Identifier" \notin Arrays
    BY <1>5 DEF Arrays
  <2>3. Fills(n, "ident", make(ident))
    BY <2>1, <2>2, MadeFits
  <2>4. "C_ArgumentList" \in Members(n)["args"] /\ "C_ArgumentList" \notin Arrays
    BY <1>5 DEF Arrays
  <2>5. Fills(n, "args", make(args))
    BY <2>1, <2>4, MadeFits
  <2> QED  BY <1>1, <2>3, <2>5
<1>8. IsA(Node("C_FnCall", "", "", sub), "C_FnCall")
  BY <1>1, <1>3, <1>6, <1>7, TwoMakes DEF n
<1> QED  BY <1>8 DEF C_FnCall_new, sub

LEMMA UnaryIs ==
  ASSUME NEW op \in STRING, NEW inner, op # "", IsA(inner, "C_Expr")
  PROVE  IsA(C_UnaryExpr_new(op, inner), "C_UnaryExpr")
<1> DEFINE sub == [inner |-> make(inner)]
           n == Top("C_UnaryExpr", "", op, {"inner"}, 0)
<1>1. DOMAIN sub = {"inner"} /\ sub["inner"] = make(inner)
  OBVIOUS
<1>2. /\ n.type = "C_UnaryExpr" /\ n.kind = "" /\ n.val = op /\ n.has = {"inner"}
      /\ n.len = 0
  BY DEF Top
<1>3. /\ "C_UnaryExpr" \in Types /\ "" \in Kinds /\ op \in Words
      /\ "inner" \in Fields
  BY DEF Types, Freed, Kinds, Words, Fields
<1> HIDE DEF n, sub
<1>5. DOMAIN Members(n) = {"inner"} /\ Members(n)["inner"] = {"C_Expr"}
  BY <1>2, MembersAre
<1>6. IsStruct(n)
  BY <1>2, <1>5, NothingCounted DEF IsStruct
<1>7. Fills(n, "inner", sub["inner"])
  <2>1. n.type \notin Arrays /\ n.type # "C_Expr"
    BY <1>2 DEF Arrays
  <2>2. "C_Expr" \in Members(n)["inner"] /\ "C_Expr" \notin Arrays
    BY <1>5 DEF Arrays
  <2>3. Fills(n, "inner", make(inner))
    BY <2>1, <2>2, MadeFits
  <2> QED  BY <1>1, <2>3
<1>8. IsA(Node("C_UnaryExpr", "", op, sub), "C_UnaryExpr")
  BY <1>1, <1>3, <1>6, <1>7, NothingCounted, OneMakes DEF n
<1> QED  BY <1>8 DEF C_UnaryExpr_new, sub

LEMMA BinaryIs ==
  ASSUME NEW op \in STRING, NEW lhs, NEW rhs, op # "", IsA(lhs, "C_Expr"),
         IsA(rhs, "C_Expr")
  PROVE  IsA(C_BinaryExpr_new(op, lhs, rhs), "C_BinaryExpr")
<1> DEFINE sub == [lhs |-> make(lhs), rhs |-> make(rhs)]
           n == Top("C_BinaryExpr", "", op, {"lhs", "rhs"}, 0)
<1>1. DOMAIN sub = {"lhs", "rhs"} /\ sub["lhs"] = make(lhs) /\ sub["rhs"] = make(rhs)
  OBVIOUS
<1>2. /\ n.type = "C_BinaryExpr" /\ n.kind = "" /\ n.val = op
      /\ n.has = {"lhs", "rhs"} /\ n.len = 0
  BY DEF Top
<1>3. /\ "C_BinaryExpr" \in Types /\ "" \in Kinds /\ op \in Words
      /\ "lhs" \in Fields /\ "rhs" \in Fields
  BY DEF Types, Freed, Kinds, Words, Fields
<1> HIDE DEF n, sub
<1>5. /\ DOMAIN Members(n) = {"lhs", "rhs"} /\ Members(n)["lhs"] = {"C_Expr"}
      /\ Members(n)["rhs"] = {"C_Expr"}
  BY <1>2, MembersAre
<1>6. IsStruct(n)
  BY <1>2, <1>5, NothingCounted DEF IsStruct
<1>7. Fills(n, "lhs", sub["lhs"]) /\ Fills(n, "rhs", sub["rhs"])
  <2>1. n.type \notin Arrays /\ n.type # "C_Expr"
    BY <1>2 DEF Arrays
  <2>2. "C_Expr" \in Members(n)["lhs"] /\ "C_Expr" \notin Arrays
    BY <1>5 DEF Arrays
  <2>3. Fills(n, "lhs", make(lhs))
    BY <2>1, <2>2, MadeFits
  <2>4. "C_Expr" \in Members(n)["rhs"] /\ "C_Expr" \notin Arrays
    BY <1>5 DEF Arrays
  <2>5. Fills(n, "rhs", make(rhs))
    BY <2>1, <2>4, MadeFits
  <2> QED  BY <1>1, <2>3, <2>5
<1>8. IsA(Node("C_BinaryExpr", "", op, sub), "C_BinaryExpr")
  BY <1>1, <1>3, <1>6, <1>7, TwoMakes DEF n
<1> QED  BY <1>8 DEF C_BinaryExpr_new, sub

LEMMA ArrayIndexIs ==
  ASSUME NEW ident, NEW index, IsA(ident, "C_Expr"), IsA(index, "C_Expr")
  PROVE  IsA(C_ArrayIndex_new(ident, index), "C_ArrayIndex")
<1> DEFINE sub == [ident |-> make(ident), index |-> make(index)]
           n == Top("C_ArrayIndex", "", "", {"ident", "index"}, 0)
<1>1. /\ DOMAIN sub = {"ident", "index"} /\ sub["ident"] = make(ident)
      /\ sub["index"] = make(index)
  OBVIOUS
<1>2. /\ n.type = "C_ArrayIndex" /\ n.kind = "" /\ n.val = ""
      /\ n.has = {"ident", "index"} /\ n.len = 0
  BY DEF Top
<1>3. /\ "C_ArrayIndex" \in Types /\ "" \in Kinds /\ "" \in Words
      /\ "ident" \in Fields /\ "index" \in Fields
  BY DEF Types, Freed, Kinds, Words, Fields
<1> HIDE DEF n, sub
<1>5. /\ DOMAIN Members(n) = {"ident", "index"} /\ Members(n)["ident"] = {"C_Expr"}
      /\ Members(n)["index"] = {"C_Expr"}
  BY <1>2, MembersAre
<1>6. IsStruct(n)
  BY <1>2, <1>5, NothingCounted DEF IsStruct
<1>7. Fills(n, "ident", sub["ident"]) /\ Fills(n, "index", sub["index"])
  <2>1. n.type \notin Arrays /\ n.type # "C_Expr"
    BY <1>2 DEF Arrays
  <2>2. "C_Expr" \in Members(n)["ident"] /\ "C_Expr" \notin Arrays
    BY <1>5 DEF Arrays
  <2>3. Fills(n, "ident", make(ident))
    BY <2>1, <2>2, MadeFits
  <2>4. "C_Expr" \in Members(n)["index"] /\ "C_Expr" \notin Arrays
    BY <1>5 DEF Arrays
  <2>5. Fills(n, "index", make(index))
    BY <2>1, <2>4, MadeFits
  <2> QED  BY <1>1, <2>3, <2>5
<1>8. IsA(Node("C_ArrayIndex", "", "", sub), "C_ArrayIndex")
  BY <1>1, <1>3, <1>6, <1>7, TwoMakes DEF n
<1> QED  BY <1>8 DEF C_ArrayIndex_new, sub

LEMMA AssignIs ==
  ASSUME NEW lhs, NEW rhs, IsA(lhs, "C_Lvalue"), IsA(rhs, "C_Expr")
  PROVE  IsA(C_Assign_new(lhs, rhs), "C_Assign")
<1> DEFINE sub == [lhs |-> make(lhs), rhs |-> make(rhs)]
           n == Top("C_Assign", "", "", {"lhs", "rhs"}, 0)
<1>1. DOMAIN sub = {"lhs", "rhs"} /\ sub["lhs"] = make(lhs) /\ sub["rhs"] = make(rhs)
  OBVIOUS
<1>2. /\ n.type = "C_Assign" /\ n.kind = "" /\ n.val = "" /\ n.has = {"lhs", "rhs"}
      /\ n.len = 0
  BY DEF Top
<1>3. /\ "C_Assign" \in Types /\ "" \in Kinds /\ "" \in Words
      /\ "lhs" \in Fields /\ "rhs" \in Fields
  BY DEF Types, Freed, Kinds, Words, Fields
<1> HIDE DEF n, sub
<1>5. /\ DOMAIN Members(n) = {"lhs", "rhs"} /\ Members(n)["lhs"] = {"C_Lvalue"}
      /\ Members(n)["rhs"] = {"C_Expr"}
  BY <1>2, MembersAre
<1>6. IsStruct(n)
  BY <1>2, <1>5, NothingCounted DEF IsStruct
<1>7. Fills(n, "lhs", sub["lhs"]) /\ Fills(n, "rhs", sub["rhs"])
  <2>1. n.type \notin Arrays /\ n.type # "C_Expr"
    BY <1>2 DEF Arrays
  <2>2. "C_Lvalue" \in Members(n)["lhs"] /\ "C_Lvalue" \notin Arrays
    BY <1>5 DEF Arrays
  <2>3. Fills(n, "lhs", make(lhs))
    BY <2>1, <2>2, MadeFits
  <2>4. "C_Expr" \in Members(n)["rhs"] /\ "C_Expr" \notin Arrays
    BY <1>5 DEF Arrays
  <2>5. Fills(n, "rhs", make(rhs))
    BY <2>1, <2>4, MadeFits
  <2> QED  BY <1>1, <2>3, <2>5
<1>8. IsA(Node("C_Assign", "", "", sub), "C_Assign")
  BY <1>1, <1>3, <1>6, <1>7, TwoMakes DEF n
<1> QED  BY <1>8 DEF C_Assign_new, sub

LEMMA BranchIs ==
  ASSUME NEW kind \in {"C_IF_PRIMARY", "C_IF_ELSEIF", "C_IF_ELSE"}, NEW cond,
         NEW block, IsA(cond, "C_Expr"), IsA(block, "C_Block")
  PROVE  IsA(C_If_Branch_new(kind, cond, block), "C_If_Branch")
<1> DEFINE sub == [cond |-> make(cond), block |-> make(block)]
           n == Top("C_If_Branch", kind, "", {"cond", "block"}, 0)
<1>1. /\ DOMAIN sub = {"cond", "block"} /\ sub["cond"] = make(cond)
      /\ sub["block"] = make(block)
  OBVIOUS
<1>2. /\ n.type = "C_If_Branch" /\ n.kind = kind /\ n.val = ""
      /\ n.has = {"cond", "block"} /\ n.len = 0
  BY DEF Top
<1>3. /\ "C_If_Branch" \in Types /\ kind \in Kinds /\ "" \in Words
      /\ "cond" \in Fields /\ "block" \in Fields
  BY DEF Types, Freed, Kinds, Words, Fields
<1> HIDE DEF n, sub
<1>5. /\ DOMAIN Members(n) = {"cond", "block"} /\ Members(n)["cond"] = {"C_Expr"}
      /\ Members(n)["block"] = {"C_Block"}
  BY <1>2, MembersAre
<1>6. IsStruct(n)
  BY <1>2, <1>5, NothingCounted DEF IsStruct
<1>7. Fills(n, "cond", sub["cond"]) /\ Fills(n, "block", sub["block"])
  <2>1. n.type \notin Arrays /\ n.type # "C_Expr"
    BY <1>2 DEF Arrays
  <2>2. "C_Expr" \in Members(n)["cond"] /\ "C_Expr" \notin Arrays
    BY <1>5 DEF Arrays
  <2>3. Fills(n, "cond", make(cond))
    BY <2>1, <2>2, MadeFits
  <2>4. "C_Block" \in Members(n)["block"] /\ "C_Block" \notin Arrays
    BY <1>5 DEF Arrays
  <2>5. Fills(n, "block", make(block))
    BY <2>1, <2>4, MadeFits
  <2> QED  BY <1>1, <2>3, <2>5
<1>8. IsA(Node("C_If_Branch", kind, "", sub), "C_If_Branch")
  BY <1>1, <1>3, <1>6, <1>7, TwoMakes DEF n
<1> QED  BY <1>8 DEF C_If_Branch_new, sub

LEMMA IfIs ==
  ASSUME NEW branches, NEW len \in 0 .. Len(Nth),
         Part(branches, "C_If_Branch[]", TRUE, len)
  PROVE  IsA(C_If_new(branches, len), "C_If")
<1> DEFINE sub == [branches |-> branches]
           n == Top("C_If", "", "", {"branches"}, len)
<1>1. DOMAIN sub = {"branches"} /\ sub["branches"] = branches
  OBVIOUS
<1>2. /\ n.type = "C_If" /\ n.kind = "" /\ n.val = "" /\ n.has = {"branches"}
      /\ n.len = len
  BY DEF Top
<1>3. /\ "C_If" \in Types /\ "" \in Kinds /\ "" \in Words
      /\ "branches" \in Fields
  BY DEF Types, Freed, Kinds, Words, Fields
<1>4. len \in Nat
  BY NothingCounted
<1> HIDE DEF n, sub
<1>5. DOMAIN Members(n) = {"branches"} /\ Members(n)["branches"] = {"C_If_Branch[]"}
  BY <1>2, MembersAre
<1>6. IsStruct(n)
  BY <1>2, <1>5, NothingCounted DEF IsStruct
<1>7. Fills(n, "branches", sub["branches"])
  BY <1>1, <1>2, <1>5, PlainFits DEF Arrays
<1>8. IsA(Counting(Node("C_If", "", "", sub), len), "C_If")
  BY <1>1, <1>3, <1>4, <1>6, <1>7, OneMakes DEF n
<1> QED  BY <1>8 DEF C_If_new, sub

LEMMA ItemExprIs ==
  ASSUME NEW expr, IsA(expr, "C_Expr")
  PROVE  IsA(C_BlockItem_new_expr(expr), "C_BlockItem")
<1> DEFINE sub == [expr |-> make(expr)]
           n == Top("C_BlockItem", "", "", {"expr"}, 0)
<1>1. DOMAIN sub = {"expr"} /\ sub["expr"] = make(expr)
  OBVIOUS
<1>2. /\ n.type = "C_BlockItem" /\ n.kind = "" /\ n.val = "" /\ n.has = {"expr"}
      /\ n.len = 0
  BY DEF Top
<1>3. /\ "C_BlockItem" \in Types /\ "" \in Kinds /\ "" \in Words
      /\ "expr" \in Fields
  BY DEF Types, Freed, Kinds, Words, Fields
<1> HIDE DEF n, sub
<1>5. DOMAIN Members(n) = {"expr"} /\ Members(n)["expr"] = {"C_Expr"}
  BY <1>2, MembersAre
<1>6. IsStruct(n)
  BY <1>2, <1>5, NothingCounted DEF IsStruct
<1>7. Fills(n, "expr", sub["expr"])
  <2>1. n.type \notin Arrays /\ n.type # "C_Expr"
    BY <1>2 DEF Arrays
  <2>2. "C_Expr" \in Members(n)["expr"] /\ "C_Expr" \notin Arrays
    BY <1>5 DEF Arrays
  <2>3. Fills(n, "expr", make(expr))
    BY <2>1, <2>2, MadeFits
  <2> QED  BY <1>1, <2>3
<1>8. IsA(Node("C_BlockItem", "", "", sub), "C_BlockItem")
  BY <1>1, <1>3, <1>6, <1>7, NothingCounted, OneMakes DEF n
<1> QED  BY <1>8 DEF C_BlockItem_new_expr, sub

LEMMA ItemStmtIs ==
  ASSUME NEW stmt, IsA(stmt, "C_Stmt")
  PROVE  IsA(C_BlockItem_new_stmt(stmt), "C_BlockItem")
<1> DEFINE sub == [stmt |-> make(stmt)]
           n == Top("C_BlockItem", "", "", {"stmt"}, 0)
<1>1. DOMAIN sub = {"stmt"} /\ sub["stmt"] = make(stmt)
  OBVIOUS
<1>2. /\ n.type = "C_BlockItem" /\ n.kind = "" /\ n.val = "" /\ n.has = {"stmt"}
      /\ n.len = 0
  BY DEF Top
<1>3. /\ "C_BlockItem" \in Types /\ "" \in Kinds /\ "" \in Words
      /\ "stmt" \in Fields
  BY DEF Types, Freed, Kinds, Words, Fields
<1> HIDE DEF n, sub
<1>5. DOMAIN Members(n) = {"stmt"} /\ Members(n)["stmt"] = {"C_Stmt"}
  BY <1>2, MembersAre
<1>6. IsStruct(n)
  BY <1>2, <1>5, NothingCounted DEF IsStruct
<1>7. Fills(n, "stmt", sub["stmt"])
  <2>1. n.type \notin Arrays /\ n.type # "C_Expr"
    BY <1>2 DEF Arrays
  <2>2. "C_Stmt" \in Members(n)["stmt"] /\ "C_Stmt" \notin Arrays
    BY <1>5 DEF Arrays
  <2>3. Fills(n, "stmt", make(stmt))
    BY <2>1, <2>2, MadeFits
  <2> QED  BY <1>1, <2>3
<1>8. IsA(Node("C_BlockItem", "", "", sub), "C_BlockItem")
  BY <1>1, <1>3, <1>6, <1>7, NothingCounted, OneMakes DEF n
<1> QED  BY <1>8 DEF C_BlockItem_new_stmt, sub

LEMMA BlockIsTree ==
  ASSUME NEW items, NEW len \in 0 .. Len(Nth),
         Part(items, "C_BlockItem[]", TRUE, len)
  PROVE  IsA(C_Block_new(items, len), "C_Block")
<1> DEFINE sub == [items |-> items]
           n == Top("C_Block", "", "", {"items"}, len)
<1>1. DOMAIN sub = {"items"} /\ sub["items"] = items
  OBVIOUS
<1>2. /\ n.type = "C_Block" /\ n.kind = "" /\ n.val = "" /\ n.has = {"items"}
      /\ n.len = len
  BY DEF Top
<1>3. /\ "C_Block" \in Types /\ "" \in Kinds /\ "" \in Words
      /\ "items" \in Fields
  BY DEF Types, Freed, Kinds, Words, Fields
<1>4. len \in Nat
  BY NothingCounted
<1> HIDE DEF n, sub
<1>5. DOMAIN Members(n) = {"items"} /\ Members(n)["items"] = {"C_BlockItem[]"}
  BY <1>2, MembersAre
<1>6. IsStruct(n)
  BY <1>2, <1>5, NothingCounted DEF IsStruct
<1>7. Fills(n, "items", sub["items"])
  BY <1>1, <1>2, <1>5, PlainFits DEF Arrays
<1>8. IsA(Counting(Node("C_Block", "", "", sub), len), "C_Block")
  BY <1>1, <1>3, <1>4, <1>6, <1>7, OneMakes DEF n
<1> QED  BY <1>8 DEF C_Block_new, sub

LEMMA StmtIs == IsA(C_Stmt_new, "C_Stmt")
<1> DEFINE n == Top("C_Stmt", "", "", {}, 0)
<1>2. n.type = "C_Stmt" /\ n.kind = "" /\ n.val = "" /\ n.has = {} /\ n.len = 0
  BY DEF Top
<1>3. "C_Stmt" \in Types /\ "" \in Kinds /\ "" \in Words
  BY DEF Types, Freed, Kinds, Words
<1> HIDE DEF n
<1>5. DOMAIN Members(n) = {}
  BY <1>2, MembersAre
<1>6. IsStruct(n)
  BY <1>2, <1>5, NothingCounted DEF IsStruct
<1>7. IsA(Node("C_Stmt", "", "", NoSub), "C_Stmt")
  BY <1>3, <1>6, NoneMakes DEF n
<1> QED  BY <1>7 DEF C_Stmt_new

LEMMA ExprIdentifierIs ==
  ASSUME NEW ident, IsA(ident, "C_Identifier")
  PROVE  IsA(C_Expr_new_identifier(ident), "C_Expr")
<1> DEFINE sub == [data |-> make(ident)]
           n == Top("C_Expr", "C_EXPR_IDENTIFIER", "", {"data"}, 0)
<1>1. DOMAIN sub = {"data"} /\ sub["data"] = make(ident)
  OBVIOUS
<1>2. /\ n.type = "C_Expr" /\ n.kind = "C_EXPR_IDENTIFIER" /\ n.val = ""
      /\ n.has = {"data"} /\ n.len = 0
  BY DEF Top
<1>3. /\ "C_Expr" \in Types /\ "C_EXPR_IDENTIFIER" \in Kinds /\ "" \in Words
      /\ "data" \in Fields
  BY HoldsAre, WordsAre DEF Types, Freed, Kinds, Words, Fields
<1> HIDE DEF n, sub
<1>5. DOMAIN Members(n) = {"data"} /\ Members(n)["data"] = {"C_Identifier"}
  <2>1. DOMAIN Members(n) = {"data"} /\ Members(n)["data"] = {Holds[n.kind]}
    BY <1>2, MembersAre
  <2>2. Holds[n.kind] = "C_Identifier"
    BY <1>2, HoldsAre
  <2> QED  BY <2>1, <2>2
<1>6. IsStruct(n)
  BY <1>2, <1>5, NothingCounted, HoldsAre DEF IsStruct
<1>7. Fills(n, "data", sub["data"])
  <2>1. Fills(n, "data", make(ident))
    BY <1>2, <1>5, ExprFits
  <2> QED  BY <1>1, <2>1
<1>8. IsA(Node("C_Expr", "C_EXPR_IDENTIFIER", "", sub), "C_Expr")
  BY <1>1, <1>3, <1>6, <1>7, NothingCounted, OneMakes DEF n
<1> QED  BY <1>8 DEF C_Expr_new_identifier, sub

LEMMA ExprIs ==
  ASSUME NEW kind \in DOMAIN Holds \ {"C_EXPR_IDENTIFIER"}, NEW e,
         IsA(e, Holds[kind])
  PROVE  IsA(C_Expr_new(kind, e), "C_Expr")
<1> DEFINE sub == [data |-> e]
           n == Top("C_Expr", kind, "", {"data"}, 0)
<1>1. DOMAIN sub = {"data"} /\ sub["data"] = e
  OBVIOUS
<1>2. n.type = "C_Expr" /\ n.kind = kind /\ n.val = "" /\ n.has = {"data"} /\ n.len = 0
  BY DEF Top
<1>3. /\ "C_Expr" \in Types /\ kind \in Kinds /\ "" \in Words
      /\ "data" \in Fields
  BY HoldsAre, WordsAre DEF Types, Freed, Kinds, Words, Fields
<1> HIDE DEF n, sub
<1>5. DOMAIN Members(n) = {"data"} /\ Members(n)["data"] = {Holds[kind]}
  BY <1>2, MembersAre
<1>6. IsStruct(n)
  BY <1>2, <1>5, NothingCounted, HoldsAre DEF IsStruct
<1>7. Fills(n, "data", sub["data"])
  <2>1. Holds[kind] # "C_Identifier" /\ Holds[kind] \notin Arrays
    BY HoldsAre
  <2>2. Fills(n, "data", e)
    BY <1>2, <1>5, <2>1, ExprFits
  <2> QED  BY <1>1, <2>2
<1>8. IsA(Node("C_Expr", kind, "", sub), "C_Expr")
  BY <1>1, <1>3, <1>6, <1>7, NothingCounted, OneMakes DEF n
<1> QED  BY <1>8 DEF C_Expr_new, sub

(* The array that somebody makes for a list to keep.                          *)
ElementOf(type) ==
  CASE type = "C_FunctionArgument[]" -> "C_FunctionArgument"
    [] type = "C_If_Branch[]" -> "C_If_Branch"
    [] type = "C_BlockItem[]" -> "C_BlockItem"
AreElements(elements, type) ==
  /\ type \in Arrays /\ Len(elements) \in 0 .. Len(Nth)
  /\ \A k \in 1 .. Len(elements) : IsA(elements[k], ElementOf(type))

LEMMA MadeArrayIs ==
  ASSUME NEW type, NEW elements, AreElements(elements, type)
  PROVE  Part(Array(type, elements), type, TRUE, Len(elements))
<1> DEFINE len == Len(elements)
           sub == [f \in Elements(len) |-> elements[CHOOSE k \in 1 .. len : Nth[k] = f]]
           n == Top(type, "", "", Elements(len), len)
           c == ElementOf(type)
           t == Counting(Node(type, "", "", sub), len)
<1>1. /\ len \in 0 .. Len(Nth) /\ type \in Arrays
      /\ \A k \in 1 .. len : IsA(elements[k], c)
  BY DEF AreElements
<1>2. DOMAIN sub = Elements(len)
  OBVIOUS
<1>3. ASSUME NEW f \in Elements(len) PROVE IsA(sub[f], c)
  <2>1. \E k \in 1 .. len : Nth[k] = f
    BY DEF Elements
  <2> DEFINE j == CHOOSE k \in 1 .. len : Nth[k] = f
  <2>2. j \in 1 .. len
    BY <2>1
  <2>3. sub[f] = elements[j]
    OBVIOUS
  <2> QED  BY <1>1, <2>2, <2>3
<1>4. n.type = type /\ n.kind = "" /\ n.val = "" /\ n.has = Elements(len) /\ n.len = len
  BY DEF Top
<1>5. /\ type \in Types /\ "" \in Kinds /\ "" \in Words /\ len \in Nat
      /\ Elements(len) \subseteq Fields
  <2>1. len \in Nat
    BY <1>1, NothingCounted
  <2>2. Elements(len) \subseteq Fields
    BY <1>1, <2>1, ElementIsField DEF Elements
  <2> QED  BY <1>1, <2>1, <2>2, WordsAre
<1>6. c \notin Arrays /\ c # "C_Identifier"
  BY <1>1 DEF Arrays, ElementOf
<1> HIDE DEF n, sub, len, c
<1>7. DOMAIN Members(n) = Elements(len) /\ \A f \in Elements(len) : Members(n)[f] = {c}
  <2>1. n.type = type /\ type \in Arrays /\ n.len = len
    BY <1>1, <1>4
  <2>2. /\ DOMAIN Members(n) = Elements(len)
        /\ \A f \in Elements(len) :
             Members(n)[f] = {CASE n.type = "C_FunctionArgument[]" -> "C_FunctionArgument"
                               [] n.type = "C_If_Branch[]" -> "C_If_Branch"
                               [] n.type = "C_BlockItem[]" -> "C_BlockItem"}
    BY <2>1, MembersAre
  <2>3. c = CASE n.type = "C_FunctionArgument[]" -> "C_FunctionArgument"
             [] n.type = "C_If_Branch[]" -> "C_If_Branch"
             [] n.type = "C_BlockItem[]" -> "C_BlockItem"
    BY <2>1 DEF ElementOf, c
  <2> QED  BY <2>2, <2>3
<1>8. IsStruct(n)
  BY <1>1, <1>4, <1>7 DEF IsStruct, Arrays
<1>9. ASSUME NEW f \in Elements(len) PROVE Fills(n, f, sub[f])
  <2>1. Part(sub[f], c, FALSE, sub[f][<<>>].len)
    BY <1>3, BranchIsTree
  <2>2. Part(sub[f], c, FALSE, n.len)
    BY <1>6, <2>1 DEF Part
  <2>3. (n.type \notin Arrays /\ (n.type = "C_Expr" => c = "C_Identifier")) = FALSE
    BY <1>1, <1>4
  <2>4. Part(sub[f], c, n.type \notin Arrays /\ (n.type = "C_Expr" => c = "C_Identifier"), n.len)
    BY <2>2, <2>3
  <2>5. c \in Members(n)[f]
    BY <1>7
  <2> QED  BY <2>4, <2>5 DEF Fills
<1>10. Suits(n, sub)
  BY <1>2, <1>4, <1>8, <1>9 DEF Suits
<1>11. Suits(Top(type, "", "", DOMAIN sub, len), sub)
  BY <1>2, <1>10 DEF n
<1>12. DOMAIN sub \subseteq Fields
  BY <1>2, <1>5
<1>13. IsBranch(t) /\ IsA(t, type) /\ t[<<>>].len = len
  <2>1. type \in Types /\ "" \in Kinds /\ "" \in Words /\ len \in Nat
    BY <1>5
  <2> HIDE DEF t
  <2>2. IsBranch(Counting(Node(type, "", "", sub), len))
    BY <2>1, <1>11, <1>12, NodeMakes
  <2>3. IsA(Counting(Node(type, "", "", sub), len), type)
    BY <2>1, <1>11, <1>12, NodeMakes
  <2>4. Counting(Node(type, "", "", sub), len)[<<>>] = Top(type, "", "", DOMAIN sub, len)
    BY <2>1, <1>11, <1>12, NodeMakes
  <2>5. t[<<>>] = n
    BY <1>2, <2>4 DEF t, n
  <2> QED  BY <1>4, <2>2, <2>3, <2>5 DEF t
<1>14. Array(type, elements) = make(t)
  BY DEF Array, t, sub, len
<1> HIDE DEF t
<1>15. IsBranch(t) /\ t[<<>>].type = type
  BY <1>13 DEF IsA
<1>16. IsBranch(make(t)) /\ make(t)[<<>>] = [t[<<>>] EXCEPT !.boxed = TRUE]
  BY <1>15, MakeIs
<1>17. t[<<>>] \in Struct
  BY <1>15 DEF IsBranch
<1>18. /\ make(t)[<<>>].boxed = TRUE /\ make(t)[<<>>].type = type
       /\ make(t)[<<>>].len = len
  BY <1>13, <1>15, <1>16, <1>17, BoxedIsApart
<1>19. Part(make(t), type, TRUE, len)
  BY <1>16, <1>18 DEF Part
<1> QED  BY <1>14, <1>19 DEF len

(* The constructors of expr.c and stmt.c make trees of trees: with names,      *)
(* operators and values that are not empty, and arrays of no more elements     *)
(* than Nth has names for, what each of them makes is a tree as WalkAssumption *)
(* asks of Roots.                                                              *)
THEOREM ConstructorsMakeTrees ==
  /\ \A ident \in STRING \ {""} : IsA(C_Identifier_new(ident), "C_Identifier")
  /\ \A index, inner : IsA(index, "C_Expr") /\ IsA(inner, "C_Type") =>
       IsA(C_ArrayType_new(index, inner), "C_ArrayType")
  /\ \A t \in STRING \ {""} : IsA(C_Type_new_primitive(t), "C_Type")
  /\ \A t : IsA(t, "C_ArrayType") => IsA(C_Type_new_array(t), "C_Type")
  /\ \A string \in STRING \ {""} : IsA(C_Literal_new_string(string), "C_Literal")
  /\ \A kind \in {"C_INT", "C_FLOAT", "C_CHAR", "C_BOOL", "C_NULL"}, val \in STRING \ {""} :
       IsA(C_Literal_new(kind, val), "C_Literal")
  /\ \A ident : IsA(ident, "C_Identifier") => IsA(C_Lvalue_new_ident(ident), "C_Lvalue")
  /\ \A array_index : IsA(array_index, "C_ArrayIndex") =>
       IsA(C_Lvalue_new_array_index(array_index), "C_Lvalue")
  /\ \A ident, of : IsA(ident, "C_Identifier") /\ IsA(of, "C_Type") =>
       IsA(C_FunctionArgument_new(ident, of), "C_FunctionArgument")
  /\ \A args : AreElements(args, "C_FunctionArgument[]") =>
       IsA(C_ArgumentList_new(Array("C_FunctionArgument[]", args), Len(args)),
           "C_ArgumentList")
  /\ \A ident, args : IsA(ident, "C_Identifier") /\ IsA(args, "C_ArgumentList") =>
       IsA(C_FnCall_new(ident, args), "C_FnCall")
  /\ \A op \in STRING \ {""} : \A inner : IsA(inner, "C_Expr") =>
       IsA(C_UnaryExpr_new(op, inner), "C_UnaryExpr")
  /\ \A op \in STRING \ {""} : \A lhs, rhs : IsA(lhs, "C_Expr") /\ IsA(rhs, "C_Expr") =>
       IsA(C_BinaryExpr_new(op, lhs, rhs), "C_BinaryExpr")
  /\ \A ident, index : IsA(ident, "C_Expr") /\ IsA(index, "C_Expr") =>
       IsA(C_ArrayIndex_new(ident, index), "C_ArrayIndex")
  /\ \A lhs, rhs : IsA(lhs, "C_Lvalue") /\ IsA(rhs, "C_Expr") =>
       IsA(C_Assign_new(lhs, rhs), "C_Assign")
  /\ \A kind \in {"C_IF_PRIMARY", "C_IF_ELSEIF", "C_IF_ELSE"} : \A cond, block :
       IsA(cond, "C_Expr") /\ IsA(block, "C_Block") =>
         IsA(C_If_Branch_new(kind, cond, block), "C_If_Branch")
  /\ \A branches : AreElements(branches, "C_If_Branch[]") =>
       IsA(C_If_new(Array("C_If_Branch[]", branches), Len(branches)), "C_If")
  /\ \A ident : IsA(ident, "C_Identifier") => IsA(C_Expr_new_identifier(ident), "C_Expr")
  /\ \A kind \in DOMAIN Holds \ {"C_EXPR_IDENTIFIER"} : \A e : IsA(e, Holds[kind]) =>
       IsA(C_Expr_new(kind, e), "C_Expr")
  /\ \A expr : IsA(expr, "C_Expr") => IsA(C_BlockItem_new_expr(expr), "C_BlockItem")
  /\ \A stmt : IsA(stmt, "C_Stmt") => IsA(C_BlockItem_new_stmt(stmt), "C_BlockItem")
  /\ \A items : AreElements(items, "C_BlockItem[]") =>
       IsA(C_Block_new(Array("C_BlockItem[]", items), Len(items)), "C_Block")
  /\ IsA(C_Stmt_new, "C_Stmt")
<1>1. \A ident \in STRING \ {""} : IsA(C_Identifier_new(ident), "C_Identifier")
  BY IdentifierIs
<1>2. \A index, inner : IsA(index, "C_Expr") /\ IsA(inner, "C_Type") =>
         IsA(C_ArrayType_new(index, inner), "C_ArrayType")
  BY ArrayTypeIs
<1>3. \A t \in STRING \ {""} : IsA(C_Type_new_primitive(t), "C_Type")
  BY PrimitiveIs
<1>4. \A t : IsA(t, "C_ArrayType") => IsA(C_Type_new_array(t), "C_Type")
  BY TypeOfArrayIs
<1>5. \A string \in STRING \ {""} : IsA(C_Literal_new_string(string), "C_Literal")
  BY StringIs
<1>6. \A kind \in {"C_INT", "C_FLOAT", "C_CHAR", "C_BOOL", "C_NULL"}, val \in STRING \ {""} :
         IsA(C_Literal_new(kind, val), "C_Literal")
  BY LiteralIs
<1>7. \A ident : IsA(ident, "C_Identifier") => IsA(C_Lvalue_new_ident(ident), "C_Lvalue")
  BY LvalueIdentIs
<1>8. \A array_index : IsA(array_index, "C_ArrayIndex") =>
         IsA(C_Lvalue_new_array_index(array_index), "C_Lvalue")
  BY LvalueIndexIs
<1>9. \A ident, of : IsA(ident, "C_Identifier") /\ IsA(of, "C_Type") =>
         IsA(C_FunctionArgument_new(ident, of), "C_FunctionArgument")
  BY ParameterIs
<1>10. \A args : AreElements(args, "C_FunctionArgument[]") =>
         IsA(C_ArgumentList_new(Array("C_FunctionArgument[]", args), Len(args)),
             "C_ArgumentList")
  <2> SUFFICES ASSUME NEW args, AreElements(args, "C_FunctionArgument[]")
               PROVE  IsA(C_ArgumentList_new(Array("C_FunctionArgument[]", args), Len(args)), "C_ArgumentList")
    OBVIOUS
  <2>1. Part(Array("C_FunctionArgument[]", args), "C_FunctionArgument[]", TRUE, Len(args))
    BY MadeArrayIs
  <2>2. Len(args) \in 0 .. Len(Nth)
    BY DEF AreElements
  <2> QED  BY <2>1, <2>2, ArgumentListIs
<1>11. \A ident, args : IsA(ident, "C_Identifier") /\ IsA(args, "C_ArgumentList") =>
         IsA(C_FnCall_new(ident, args), "C_FnCall")
  BY FnCallIs
<1>12. \A op \in STRING \ {""} : \A inner : IsA(inner, "C_Expr") =>
         IsA(C_UnaryExpr_new(op, inner), "C_UnaryExpr")
  BY UnaryIs
<1>13. \A op \in STRING \ {""} : \A lhs, rhs : IsA(lhs, "C_Expr") /\ IsA(rhs, "C_Expr") =>
         IsA(C_BinaryExpr_new(op, lhs, rhs), "C_BinaryExpr")
  BY BinaryIs
<1>14. \A ident, index : IsA(ident, "C_Expr") /\ IsA(index, "C_Expr") =>
         IsA(C_ArrayIndex_new(ident, index), "C_ArrayIndex")
  BY ArrayIndexIs
<1>15. \A lhs, rhs : IsA(lhs, "C_Lvalue") /\ IsA(rhs, "C_Expr") =>
         IsA(C_Assign_new(lhs, rhs), "C_Assign")
  BY AssignIs
<1>16. \A kind \in {"C_IF_PRIMARY", "C_IF_ELSEIF", "C_IF_ELSE"} : \A cond, block :
         IsA(cond, "C_Expr") /\ IsA(block, "C_Block") =>
           IsA(C_If_Branch_new(kind, cond, block), "C_If_Branch")
  BY BranchIs
<1>17. \A branches : AreElements(branches, "C_If_Branch[]") =>
         IsA(C_If_new(Array("C_If_Branch[]", branches), Len(branches)), "C_If")
  <2> SUFFICES ASSUME NEW branches, AreElements(branches, "C_If_Branch[]")
               PROVE  IsA(C_If_new(Array("C_If_Branch[]", branches), Len(branches)), "C_If")
    OBVIOUS
  <2>1. Part(Array("C_If_Branch[]", branches), "C_If_Branch[]", TRUE, Len(branches))
    BY MadeArrayIs
  <2>2. Len(branches) \in 0 .. Len(Nth)
    BY DEF AreElements
  <2> QED  BY <2>1, <2>2, IfIs
<1>18. \A ident : IsA(ident, "C_Identifier") => IsA(C_Expr_new_identifier(ident), "C_Expr")
  BY ExprIdentifierIs
<1>19. \A kind \in DOMAIN Holds \ {"C_EXPR_IDENTIFIER"} : \A e : IsA(e, Holds[kind]) =>
         IsA(C_Expr_new(kind, e), "C_Expr")
  BY ExprIs
<1>20. \A expr : IsA(expr, "C_Expr") => IsA(C_BlockItem_new_expr(expr), "C_BlockItem")
  BY ItemExprIs
<1>21. \A stmt : IsA(stmt, "C_Stmt") => IsA(C_BlockItem_new_stmt(stmt), "C_BlockItem")
  BY ItemStmtIs
<1>22. \A items : AreElements(items, "C_BlockItem[]") =>
         IsA(C_Block_new(Array("C_BlockItem[]", items), Len(items)), "C_Block")
  <2> SUFFICES ASSUME NEW items, AreElements(items, "C_BlockItem[]")
               PROVE  IsA(C_Block_new(Array("C_BlockItem[]", items), Len(items)), "C_Block")
    OBVIOUS
  <2>1. Part(Array("C_BlockItem[]", items), "C_BlockItem[]", TRUE, Len(items))
    BY MadeArrayIs
  <2>2. Len(items) \in 0 .. Len(Nth)
    BY DEF AreElements
  <2> QED  BY <2>1, <2>2, BlockIsTree
<1>23. IsA(C_Stmt_new, "C_Stmt")
  BY StmtIs
<1> QED  BY <1>1, <1>2, <1>3, <1>4, <1>5, <1>6, <1>7, <1>8, <1>9, <1>10, <1>11, <1>12,
             <1>13, <1>14, <1>15, <1>16, <1>17, <1>18, <1>19, <1>20, <1>21, <1>22, <1>23
=============================================================================
