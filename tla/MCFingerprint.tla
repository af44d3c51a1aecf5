---------------------------- MODULE MCFingerprint ----------------------------
(***************************************************************************)
(* Queries for QueryShape: pairs that are meant to match, and pairs that   *)
(* are not.                                                                *)
(***************************************************************************)
EXTENDS QueryShape

List(items) == [tag |-> "List", items |-> items]
Str(s) == [tag |-> "String", sval |-> s]
Const == [tag |-> "A_Const"]
Param == [tag |-> "ParamRef"]
Col(name) == [tag |-> "ColumnRef", fields |-> List(<<Str(name)>>)]
QualifiedCol(q, name) == [tag |-> "ColumnRef", fields |-> List(<<Str(q), Str(name)>>)]
Out(val) == [tag |-> "ResTarget", val |-> val]
OutAs(val, name) == [tag |-> "ResTarget", name |-> name, val |-> val]
Into(name) == [tag |-> "ResTarget", name |-> name]
Table(name) == [tag |-> "RangeVar", inh |-> "true", relname |-> name, relpersistence |-> "p"]
TableAs(name) == Table(name) @@ [alias |-> [tag |-> "Alias"]]
TempTable(name) == [Table(name) EXCEPT !.relpersistence = "t"]
Op(kind, name, l, r) == [tag |-> "A_Expr", kind |-> kind, lexpr |-> l, name |-> List(<<Str(name)>>), rexpr |-> r]
And(args) == [tag |-> "BoolExpr", args |-> List(args), boolop |-> "AND_EXPR"]
Exists(sub) == [tag |-> "SubLink", subLinkType |-> "EXISTS_SUBLINK", subselect |-> sub]
Derived(sub) == [tag |-> "RangeSubselect", alias |-> [tag |-> "Alias"], subquery |-> sub]
With(name, sub) ==
  [tag |-> "WithClause",
   ctes |-> List(<<[tag |-> "CommonTableExpr", ctematerialized |-> "Default",
                    ctename |-> name, ctequery |-> sub]>>)]
Select(fields) == [tag |-> "SelectStmt", limitOption |-> "DEFAULT", op |-> "SETOP_NONE"] @@ fields
Simple(targets, tables) ==
  Select([targetList |-> List(targets), fromClause |-> List(tables)])
Where(targets, tables, cond) ==
  Select([targetList |-> List(targets), fromClause |-> List(tables), whereClause |-> cond])
Union(l, r) == [tag |-> "SelectStmt", limitOption |-> "DEFAULT", op |-> "SETOP_UNION", larg |-> l, rarg |-> r]
Values(rows) == Select([valuesLists |-> List([i \in DOMAIN rows |-> List(rows[i])])])
Insert(cols, source) ==
  [tag |-> "InsertStmt", cols |-> List(cols), override |-> "DEFAULT",
   relation |-> Table("t"), selectStmt |-> source]
Update(set, cond) ==
  [tag |-> "UpdateStmt", relation |-> Table("t"), targetList |-> List(set), whereClause |-> cond]
Delete(cond) == [tag |-> "DeleteStmt", relation |-> Table("t"), whereClause |-> cond]
Join(l, r) == [tag |-> "JoinExpr", jointype |-> "JOIN_INNER", larg |-> l, rarg |-> r]
JoinUsing(l, r, col) == Join(l, r) @@ [usingClause |-> List(<<Str(col)>>)]
When(expr, result) == [tag |-> "CaseWhen", expr |-> expr, result |-> result]
Case(whens) == [tag |-> "CaseExpr", args |-> List(whens)]
CaseElse(whens, default) == Case(whens) @@ [defresult |-> default]
IsNull(arg) == [tag |-> "NullTest", arg |-> arg, nulltesttype |-> "IS_NULL"]
Apply(name, args) ==
  [tag |-> "FuncCall", args |-> List(args), funcformat |-> "EXPLICIT", funcname |-> List(<<Str(name)>>)]
OrderBy(expr) == [tag |-> "SortBy", node |-> expr, sortby_dir |-> "DEFAULT", sortby_nulls |-> "DEFAULT"]
Bounds(n) == [arrayBounds |-> List(<<[tag |-> "Integer", ival |-> n]>>)]
Cast(arg, bounds) ==
  [tag |-> "TypeCast", arg |-> arg,
   typeName |-> [tag |-> "TypeName", names |-> List(<<Str("int4")>>), typemod |-> "-1"] @@ bounds]
Query(stmts) == List([i \in DOMAIN stmts |-> [tag |-> "RawStmt", stmt |-> stmts[i]]])
One(stmt) == Query(<<stmt>>)

A == Out(Col("a"))
B == Out(Col("b"))
InX == Simple(<<A>>, <<Table("x")>>)

PlainQueries ==
  { Null,
    One(Simple(<<A, B>>, <<Table("t"), Table("x")>>)),
    One(Simple(<<B, OutAs(Col("a"), "c")>>, <<TableAs("x"), Table("t")>>)),
    One(Simple(<<A, B, A>>, <<Table("t")>>)),
    One(Simple(<<Out(Const), B>>, <<Table("t1")>>)),
    One(Simple(<<B, Out(Param), Out(Param)>>, <<Table("t22")>>)),
    One(Simple(<<Out(QualifiedCol("t", "a"))>>, <<TempTable("x")>>)),
    One(Simple(<<Out(QualifiedCol("t", "a"))>>, <<TempTable("t")>>)),
    One(Simple(<<Out(QualifiedCol("a", "t"))>>, <<Table("t")>>)),
    One(Where(<<A>>, <<Table("t")>>, Op("AEXPR_IN", "=", Col("b"), List(<<Const, Const>>)))),
    One(Where(<<A>>, <<Table("t")>>, Op("AEXPR_OP", "=", Col("b"), Param))),
    One(Where(<<A>>, <<Table("t")>>, Op("AEXPR_IN", "=", Col("b"), List(<<Col("a"), Const>>)))),
    One(Where(<<A>>, <<Table("t")>>, And(<<Col("a"), Col("b")>>))),
    One(Where(<<A>>, <<Table("t")>>, And(<<Col("b"), Col("a")>>))),
    One(Select([distinctClause |-> List(<<Null>>), targetList |-> List(<<A>>)])),
    One(Select([distinctClause |-> List(<<Const>>), targetList |-> List(<<A>>)])),
    One(Select([targetList |-> List(<<A>>)])),
    One(Select([targetList |-> List(<<A, Out(Const)>>), sortClause |-> List(<<Const>>)])),
    One(Insert(<<Into("a"), Into("b")>>, Values(<<<<Param, Param>>>>))),
    One(Insert(<<Into("b"), Into("a")>>, Values(<<<<Const, Param>>, <<Param, Const>>>>))),
    One(Insert(<<Into("a")>>, Values(<<<<Param, Param>>>>))),
    One(Update(<<OutAs(Const, "a"), OutAs(Col("b"), "b")>>, IsNull(Col("a")))),
    One(Update(<<OutAs(Col("b"), "b"), OutAs(Param, "a")>>, IsNull(Col("a")))),
    One(Update(<<OutAs(Const, "a")>>, IsNull(Col("a")))),
    One(Delete(IsNull(Cast(Const, [typmods |-> List(<<Const>>)])))),
    One(Delete(IsNull(Param))),
    One(Simple(<<Out(Apply("x", <<Col("a"), Col("b")>>))>>, <<Join(Table("t"), Table("x"))>>)),
    One(Simple(<<Out(Apply("x", <<Col("b"), Col("a")>>))>>, <<JoinUsing(Table("t"), Table("x"), "a")>>)),
    One(Select([targetList |-> List(<<Out(Cast(Col("a"), Bounds("0")))>>), sortClause |-> List(<<OrderBy(Const)>>)])),
    One(Select([targetList |-> List(<<Out(Cast(Col("a"), Bounds("-1")))>>), sortClause |-> List(<<OrderBy(Param)>>)])),
    One(Select([targetList |-> List(<<Out(Cast(Col("a"), [typmods |-> List(<<Const>>)]))>>), sortClause |-> List(<<OrderBy(Param)>>)])),
    Query(<<InX, Simple(<<B>>, <<Table("t")>>)>>),
    Query(<<Simple(<<B>>, <<Table("t")>>), InX>>) }

NestedQueries ==
  { One(Where(<<B>>, <<Table("t")>>, Exists(InX))),
    One(Where(<<B>>, <<Table("t")>>, Exists(Simple(<<A, OutAs(Col("a"), "c")>>, <<TableAs("x")>>)))),
    One(Simple(<<A>>, <<Derived(Simple(<<A, B>>, <<Derived(Simple(<<B>>, <<Table("t"), Table("x")>>)), Table("x")>>))>>)),
    One(Simple(<<A>>, <<Derived(Simple(<<B, A>>, <<Table("x"), Derived(Simple(<<A, B>>, <<Table("x"), Table("t")>>))>>))>>)),
    One(Union(Union(InX, Simple(<<B>>, <<Table("x")>>)), InX)),
    One(Union(InX, Union(Simple(<<B>>, <<Table("x")>>), InX))) }

AmbiguousQueries ==
  { One(Select([targetList |-> List(<<Out(CaseElse(<<When(Col("a"), Case(<<When(Col("b"), Const)>>))>>, Col("c")))>>)])),
    One(Select([targetList |-> List(<<Out(Case(<<When(Col("a"), CaseElse(<<When(Col("b"), Const)>>, Col("c")))>>))>>)])),
    One(Simple(<<A>>, <<JoinUsing(Table("t"), Join(Table("x"), Table("x")), "a")>>)),
    One(Simple(<<A>>, <<Join(Table("t"), JoinUsing(Table("x"), Table("x"), "a"))>>)),
    One(Where(<<B>>, <<Table("t")>>, Exists(InX @@ [withClause |-> With("c", InX)]))),
    One(Where(<<B>>, <<Table("t")>>, Exists(InX)) @@ [withClause |-> With("c", InX)]) }

(* SELECT a.b and SELECT "aStringstrb".                                    *)
TextQueries ==
  { One(Select([targetList |-> List(<<Out(QualifiedCol("a", "b"))>>)])),
    One(Select([targetList |-> List(<<Out(Col("aStringstrb"))>>)])) }

MCQueries == PlainQueries \cup NestedQueries \cup AmbiguousQueries \cup TextQueries
MCNestingQueries == MCQueries \ TextQueries

MCNodes == UNION {SubNodes(query) : query \in MCQueries}

MCHashOrders == {"up", "down"}

(* The digests are put in the order of their lengths and letters, or in    *)
(* the reverse.                                                            *)
Letters == "-=ABCDEFGHIJKLMNOPQRSTUVWXYZ_abcdefghijklmnopqrstuvwxyz0123456789"
Letter(s, i) == SubSeq(s, i, i)
Rank == [c \in {Letter(Letters, i) : i \in 1..Len(Letters)} |->
           CHOOSE i \in 1..Len(Letters) : Letter(Letters, i) = c]

Before(s, t) ==
  \/ Len(s) < Len(t)
  \/ /\ Len(s) = Len(t) /\ s # t
     /\ LET i == CHOOSE i \in 1..Len(s) :
                   Letter(s, i) # Letter(t, i) /\ SubSeq(s, 1, i - 1) = SubSeq(t, 1, i - 1)
        IN Rank[Letter(s, i)] < Rank[Letter(t, i)]
MCPrecedes(o, s, t) == IF o = "up" THEN Before(s, t) ELSE Before(t, s)
MCWithoutNumbers(name) == IF name = "t22" THEN "t" ELSE name
=============================================================================
