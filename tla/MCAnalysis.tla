----------------------------- MODULE MCAnalysis -----------------------------
(***************************************************************************)
(* Statements for Analysis: every combination of a few forms that nest     *)
(* scopes, put together the way the grammar does, with the fields of a     *)
(* message in the order of their tags, which is the order of the walk.     *)
(***************************************************************************)
EXTENDS Analysis

Kid(at, sub) == [at |-> at, sub |-> sub]

Make(message, kids) == [message |-> message, kids |-> kids]
Plain(kind, kids) == Make([kind |-> kind], kids)

(* A field that is a message, one that is a PgQuery.Node and one that is a *)
(* list of those.  What is absent leaves no kid.                           *)
Direct(field, sub) == <<Kid(Field(field), sub)>>
Wrap(tagged) == Plain("Node", <<Kid(Field(tagged[1]), tagged[2])>>)
Single(field, tagged) == Direct(field, Wrap(tagged))
Many(field, list) ==
  IF list = <<>> THEN <<>>
  ELSE Direct(field,
         Plain("list", [i \in 1..Len(list) |-> Kid(Index(i - 1), Wrap(list[i]))]))
Optional(field, list) == IF list = <<>> THEN <<>> ELSE Single(field, list[1])
-----------------------------------------------------------------------------
RV(schema, name, alias, at) ==
  <<"range_var",
    Make([kind |-> "RangeVar", schemaname |-> schema, relname |-> name, alias |-> alias,
          location |-> at], <<>>)>>
Table(name, at) == RV("", name, "", at)
Aliased(name, alias, at) == RV("", name, alias, at)

Col(qualifier, column) ==
  <<"column_ref", Make([kind |-> "ColumnRef", fields |-> <<qualifier, column>>], <<>>)>>
Param(number, at) ==
  <<"param_ref", Make([kind |-> "ParamRef", number |-> number, location |-> at], <<>>)>>
Const == <<"a_const", Plain("A_Const", Direct("ival", Plain("Integer", <<>>)))>>
Cast(arg, at) ==
  <<"type_cast", Plain("TypeCast",
      Single("arg", arg)
      \o Direct("type_name", Make([kind |-> "TypeName", names |-> "int", location |-> at], <<>>)))>>
Call(name, args) ==
  <<"func_call", Make([kind |-> "FuncCall", funcname |-> <<name>>], Many("args", args))>>
And(args) == <<"bool_expr", Plain("BoolExpr", Many("args", args))>>

With(recursive, ctes) ==
  Direct("with_clause",
         Make([kind |-> "WithClause", recursive |-> recursive], Many("ctes", ctes)))
Cte(name, body) ==
  <<"common_table_expr",
    Make([kind |-> "CommonTableExpr", ctename |-> name], Single("ctequery", body))>>

(* SELECT ... FROM from WHERE cond, with a WITH clause or none.            *)
Select(targets, from, cond, with) ==
  <<"select_stmt", Plain("SelectStmt",
      Many("target_list", targets) \o Many("from_clause", from)
      \o Optional("where_clause", cond) \o with)>>
SelectInto(target, from) ==
  <<"select_stmt", Plain("SelectStmt",
      Direct("into_clause", Plain("IntoClause", Direct("rel", target[2])))
      \o Many("from_clause", from))>>
Locking(from, locked) ==
  <<"select_stmt", Plain("SelectStmt",
      Many("from_clause", from)
      \o Many("locking_clause",
              <<<<"locking_clause", Plain("LockingClause", Many("locked_rels", <<locked>>))>>>>))>>
Union(larg, rarg, with) ==
  <<"select_stmt", Plain("SelectStmt",
      with \o Direct("larg", larg[2]) \o Direct("rarg", rarg[2]))>>
From(item) == Select(<<>>, <<item>>, <<>>, <<>>)

Insert(target, source, with) ==
  <<"insert_stmt", Plain("InsertStmt",
      Direct("relation", target[2]) \o Single("select_stmt", source) \o with)>>
Delete(target, using, cond, with) ==
  <<"delete_stmt", Plain("DeleteStmt",
      Direct("relation", target[2]) \o Many("using_clause", using)
      \o Optional("where_clause", cond) \o with)>>
UpdateOf(target, targets, cond, from, with) ==
  <<"update_stmt", Plain("UpdateStmt",
      Direct("relation", target[2]) \o Many("target_list", targets)
      \o Optional("where_clause", cond) \o Many("from_clause", from) \o with)>>
Merge(target, source, join, when, with) ==
  <<"merge_stmt", Plain("MergeStmt",
      Direct("relation", target[2]) \o Single("source_relation", source)
      \o Single("join_condition", join)
      \o Many("merge_when_clauses",
              <<<<"merge_when_clause", Plain("MergeWhenClause", Single("condition", when))>>>>)
      \o with)>>

SubLink(query) == <<"sub_link", Plain("SubLink", Single("subselect", query))>>
Derived(lateral, query, alias) ==
  <<"range_subselect",
    Make([kind |-> "RangeSubselect", lateral |-> lateral, alias |-> alias],
         Single("subquery", query))>>
Join(larg, rarg, quals) ==
  <<"join_expr", Plain("JoinExpr",
      Single("larg", larg) \o Single("rarg", rarg) \o Single("quals", quals))>>
Sampled(item) == <<"range_table_sample", Plain("RangeTableSample", Single("relation", item))>>
Target(value) == <<"res_target", Plain("ResTarget", Single("val", value))>>

Tree(statements) ==
  Plain("ParseResult",
    Direct("stmts", Plain("list",
      [i \in 1..Len(statements) |->
         Kid(Index(i - 1), Plain("RawStmt", Single("stmt", statements[i])))])))
-----------------------------------------------------------------------------
(* Every s with every t; and the sequences f(s[k]) in a row, which are too *)
(* many for FlattenSeq, whose recursion is as deep as the row is long.     *)
Cross(s, t) ==
  [k \in 1..(Len(s) * Len(t)) |->
     <<s[1 + ((k - 1) \div Len(t))], t[1 + ((k - 1) % Len(t))]>>]
Concat(f(_), s) ==
  LET Part[from \in 1..Len(s), to \in 1..Len(s)] ==
        IF from = to THEN f(s[from])
        ELSE LET middle == (from + to) \div 2
             IN Part[from, middle] \o Part[middle + 1, to]
  IN Part[1, Len(s)]

Names == <<"c", "t">>
Flags == <<FALSE, TRUE>>

(* WITH clauses of one and of two CTEs, and one inside another.            *)
Bodies(name) ==
  <<From(Table(name, 1)),
    Delete(Table(name, 1), <<Table("u", 2)>>, <<>>, <<>>),
    Select(<<>>, <<Table(name, 1)>>, <<>>, With(FALSE, <<Cte("d", From(Table(name, 2)))>>))>>
OneCte(p) == <<With(p[1], <<Cte("c", p[2])>>)>>
TwoCtes(p) == <<With(p[1], <<Cte("d", From(Table(p[2][1], 3))), Cte("c", From(Table(p[2][2], 4)))>>)>>
Withs ==
  Concat(OneCte, Cross(Flags, Concat(Bodies, Names)))
  \o Concat(TwoCtes, Cross(Flags, Cross(Names, <<"d", "t">>)))

Mains(x, y, with) ==
  <<Select(<<>>, <<Table(x, 10)>>, <<SubLink(From(Table(y, 11)))>>, with),
    Select(<<Target(SubLink(From(Table(y, 11))))>>, <<Derived(FALSE, From(Table(x, 10)), "s")>>, <<>>, with),
    Union(From(Table(x, 10)), From(Table(y, 11)), with),
    Insert(Table(x, 10), From(Table(y, 11)), with),
    Delete(Table(x, 10), <<Table(y, 11)>>, <<SubLink(From(Table("c", 12)))>>, with),
    UpdateOf(Table(x, 10), <<>>, <<>>, <<Table(y, 11)>>, with),
    Merge(Table(x, 10), Table(y, 11), SubLink(From(Table("c", 12))), Const, with)>>

MainsOf(p) == Mains(p[1][1], p[1][2], p[2])
CteStatements == Concat(MainsOf, Cross(Cross(Names, Names), Withs))
-----------------------------------------------------------------------------
(* Two levels of aliases: a and b, bound by tables in any way, referred to *)
(* as a and as b in a condition.                                           *)
Cond == And(<<Col("a", "x"), Col("b", "y")>>)
Inner(from) == Select(<<>>, from, <<Cond>>, <<>>)
A(name, at) == Aliased(name, "a", at)
B(name, at) == Aliased(name, "b", at)

InnerItems == <<<<A("t", 20)>>, <<B("t", 20)>>, <<A("t", 20), B("v", 21)>>,
                <<RV("s", "t", "b", 20)>>, <<Table("b", 20)>>>>

Around(items) ==
  LET q == Inner(items) IN
  <<Select(<<>>, <<A("u", 30), B("w", 31)>>, <<SubLink(q)>>, <<>>),
    Select(<<Target(SubLink(q))>>, <<A("u", 30)>>, <<Col("a", "z")>>, <<>>),
    Select(<<>>, <<Join(A("u", 30), Derived(TRUE, q, "l"), Col("a", "z"))>>, <<>>, <<>>),
    Select(<<>>, <<A("u", 30), Derived(FALSE, q, "b")>>, <<Col("a", "z")>>, <<>>),
    Select(<<>>, <<A("u", 30)>>, <<Col("a", "z")>>, With(FALSE, <<Cte("c", q)>>)),
    Select(<<>>, <<A("u", 30), B("w", 31)>>,
           <<SubLink(Select(<<>>, <<A("k", 32), Derived(FALSE, q, "l")>>, <<>>, <<>>))>>, <<>>),
    Union(Select(<<>>, <<A("u", 30)>>, <<Col("a", "z")>>, <<>>), q, <<>>),
    UpdateOf(A("u", 30), <<Target(SubLink(q))>>, <<Col("a", "z")>>, <<B("w", 31)>>, <<>>),
    Merge(A("u", 30), B("w", 31), SubLink(q), Col("a", "z"), <<>>),
    Delete(A("u", 30), <<B("w", 31)>>, <<SubLink(q)>>, <<>>),
    Select(<<>>, <<A("u", 30)>>, <<Col("a", "z")>>,
           With(FALSE, <<Cte("c", UpdateOf(A("w", 31), <<>>, <<SubLink(q)>>, <<>>, <<>>))>>))>>

AliasStatements == Concat(Around, InnerItems)
-----------------------------------------------------------------------------
(* Parameters, functions, constants, objects that are dropped or renamed,  *)
(* and more than one statement.                                            *)
Params == <<Param(1, 40), Param(12, 41), Cast(Param(1, 40), 44), Cast(Param(12, 41), 35),
            Cast(Cast(Param(1, 40), 43), 46), Cast(Call("f", <<Param(1, 40)>>), 44),
            Cast(Const, 44), Cast(Param(1, -1), 39)>>
WithParams(p) ==
  <<Select(<<Target(p[1])>>, <<Table("t", 1)>>, <<Call("f", <<p[2], Const>>)>>, <<>>)>>
Drop(type) ==
  <<<<"drop_stmt", Make([kind |-> "DropStmt", remove_type |-> type,
                         objects |-> {<<"s", "o">>, <<"p", "q">>}], <<>>)>>>>

OtherStatements ==
  Concat(WithParams, Cross(Params, <<Param(2, 60), Cast(Param(2, 60), 63)>>))
  \o Concat(Drop, <<"OBJECT_TABLE", "OBJECT_TRIGGER", "OBJECT_FUNCTION", "OBJECT_INDEX">>)
  \o <<SelectInto(Table("n", 1), <<A("t", 2)>>),
       Delete(Table("t", 1), <<>>, <<>>,
              With(FALSE, <<Cte("c", Delete(Table("u", 2), <<>>, <<>>, <<>>))>>)),
       Select(<<>>, <<Sampled(A("t", 1)), Sampled(Table("c", 2))>>, <<>>,
              With(FALSE, <<Cte("c", From(Table("t", 3)))>>)),
       Select(<<>>, <<RV("s", "c", "", 1), Table("c", 2)>>, <<>>,
              With(FALSE, <<Cte("c", From(RV("s", "c", "", 3)))>>)),
       Select(<<>>, <<RV("s", "t", "", 1), Table("s.t", 2)>>, <<>>,
              With(FALSE, <<Cte("s.t", From(Table("t", 3)))>>)),
       Select(<<>>, <<Derived(FALSE, Locking(<<A("t", 1)>>, Table("a", 2)), "s")>>, <<>>, <<>>),
       <<"rename_stmt", Make([kind |-> "RenameStmt", rename_type |-> "OBJECT_FUNCTION",
                              objname |-> <<"f">>, newname |-> "g"], <<>>)>>,
       <<"create_function_stmt", Make([kind |-> "CreateFunctionStmt", funcname |-> <<"f">>], <<>>)>>>>

Alone(statement) == <<<<statement>>>>
Followed(statement) == <<<<statement, From(Table("c", 50))>>>>
Scripts ==
  Concat(Alone, CteStatements \o AliasStatements \o OtherStatements)
  \o Concat(Followed, Mains("c", "t", With(FALSE, <<Cte("c", From(Table("t", 1)))>>)))
  \o <<<<From(A("t", 1)), From(Table("c", 2)), Delete(Table("u", 3), <<>>, <<Col("a", "x")>>, <<>>)>>>>

(* A tree laid out as the sequence of its nodes, each before those below   *)
(* it; a kid is so many nodes further on.                                  *)
RECURSIVE Flat(_)
Flat(sub) ==
  LET kids == <<>> \o [i \in DOMAIN sub.kids |-> Flat(sub.kids[i].sub)]
      By[i \in DOMAIN kids] == IF i = 1 THEN 1 ELSE By[i - 1] + Len(kids[i - 1])
  IN <<[message |-> sub.message,
        kids |-> <<>> \o [i \in DOMAIN kids |-> [at |-> sub.kids[i].at, by |-> By[i]]]]>>
     \o FlattenSeq(kids)

(* A node is the number of its tree and its place in it.  No tree here has *)
(* more than MaxSize nodes.                                                *)
AsTree(script) == <<Flat(Tree(script))>>
Forest == Concat(AsTree, Scripts)
MaxSize == 100
MCTrees == (1..Len(Forest)) \X {1}
MCNodes == {node \in (1..Len(Forest)) \X (1..MaxSize) : node[2] \in DOMAIN Forest[node[1]]}
MCSegments == STRING \X (-1..3)
MCMessage(node) == Forest[node[1]][node[2]].message
MCChildren(node) ==
  LET kids == Forest[node[1]][node[2]].kids
  IN [i \in 1..Len(kids) |->
        [at |-> kids[i].at, node |-> <<node[1], node[2] + kids[i].by>>]]
MCHeight(node) == Len(Forest[node[1]]) - node[2]
=============================================================================
