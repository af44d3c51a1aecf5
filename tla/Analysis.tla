------------------------------ MODULE Analysis ------------------------------
(***************************************************************************)
(* PgInspect.Internal.Analysis: what analyze/1 gathers in one walk over a  *)
(* parse tree, and the scope that PgInspect.Internal.AST.Analysis lets     *)
(* grow on the way down.  IsAnalysis says what the parameters of AstWalk   *)
(* stand for.                                                              *)
(***************************************************************************)
EXTENDS SqlScoping, SequencesExt

(* Mutant: looks at WITH RECURSIVE only. *)
CteNamesIfRecursive(node) ==
  {Message(cte).ctename :
     cte \in UNION {Below(w, "ctes") : w \in {v \in WithClauses(node) : Message(v).recursive}}}

CteNames(node) == {Message(cte).ctename : cte \in UNION {Below(w, "ctes") : w \in WithClauses(node)}}

RangeVarsOf[node \in Nodes] ==
  CASE Kind(node) = "RangeVar" -> {node}
    [] Kind(node) = "JoinExpr" ->
         UNION {RangeVarsOf[n] : n \in Below(node, "larg") \cup Below(node, "rarg")}
    [] OTHER -> {}

(* Entries of the alias map for those of some range variables that have an *)
(* alias.  The last one of an alias, in the order of the text, stays.      *)
AliasesOf(rangeVars) ==
  LET aliased == {m \in {Message(v) : v \in rangeVars} : m.alias # ""}
      last == {m \in aliased : \A o \in aliased : o.alias = m.alias => o.location <= m.location}
  IN {[alias |-> r.alias, schema |-> r.schemaname, relation |-> r.relname, at |-> r.location] :
        r \in last}

(* Mutant: an alias that is there already stays. *)
PutAllKeeps(aliases, new) ==
  aliases \cup {b \in new : \A a \in aliases : a.alias # b.alias}

PutAll(aliases, new) ==
  {a \in aliases : \A b \in new : a.alias # b.alias} \cup new

FromAliases(node) == AliasesOf(UNION {RangeVarsOf[n] : n \in Below(node, "from_clause")})

DirectAliases(node, field) ==
  AliasesOf({n \in Below(node, field) : Kind(n) = "RangeVar"})
-----------------------------------------------------------------------------
(* The scope.                                                              *)

DefaultScope ==
  [statement |-> "none", current_cte |-> "", recursive_cte |-> FALSE,
   in_subquery |-> FALSE, in_from_clause |-> FALSE, in_condition |-> FALSE,
   aliases |-> {}, cte_names |-> {}]

(* Those of the default statements that hold names of tables or functions; *)
(* the others are like them.                                               *)
DdlKinds == {"AlterTableStmt", "CreateFunctionStmt", "CreateStmt", "CreateTableAsStmt",
             "CreateTrigStmt", "DropStmt", "GrantStmt", "IndexStmt", "RefreshMatViewStmt",
             "RenameStmt", "RuleStmt", "TruncateStmt", "VacuumStmt", "ViewStmt"}

DefaultStatement(kind, statement) ==
  CASE kind \in DdlKinds -> "ddl"
    [] kind = "CopyStmt" -> "dml"
    [] kind \in {"CallStmt", "DoStmt", "ExecuteStmt"} -> "call"
    [] kind \in {"ExplainStmt", "LockStmt", "PrepareStmt", "DeclareCursorStmt"} -> "none"
    [] OTHER -> statement

ScopeOfNode(node, scope) ==
  LET withCtes == [scope EXCEPT !.cte_names = @ \cup CteNames(node)] IN
  CASE Kind(node) = "SelectStmt" ->
         [withCtes EXCEPT !.aliases =
            PutAll(IF scope.in_subquery THEN @ ELSE {}, FromAliases(node))]
    [] Kind(node) \in {"InsertStmt", "DeleteStmt"} -> withCtes
    [] Kind(node) = "UpdateStmt" ->
         [withCtes EXCEPT !.aliases =
            PutAll(DirectAliases(node, "relation"), FromAliases(node))]
    [] Kind(node) = "MergeStmt" ->
         [withCtes EXCEPT !.aliases =
            PutAll(DirectAliases(node, "relation"),
                   DirectAliases(node, "source_relation"))]
    [] Kind(node) = "FuncCall" -> [scope EXCEPT !.statement = "call"]
    [] Kind(node) = "WithClause" -> [scope EXCEPT !.recursive_cte = Message(node).recursive]
    [] Kind(node) = "CommonTableExpr" -> [scope EXCEPT !.current_cte = Message(node).ctename]
    [] OTHER ->
         [scope EXCEPT !.statement = DefaultStatement(Kind(node), @)]

(* The fields that say what kind of statement a table is in.               *)
SelectFields ==
  {<<"SelectStmt", "from_clause">>, <<"DeleteStmt", "where_clause">>,
   <<"DeleteStmt", "using_clause">>, <<"UpdateStmt", "where_clause">>,
   <<"UpdateStmt", "from_clause">>, <<"MergeStmt", "source_relation">>,
   <<"IndexStmt", "where_clause">>, <<"CopyStmt", "relation">>,
   <<"LockStmt", "relations">>}
DmlFields ==
  {<<"DeleteStmt", "relation">>, <<"UpdateStmt", "relation">>,
   <<"MergeStmt", "relation">>, <<"InsertStmt", "relation">>}
DdlFields ==
  {<<"SelectStmt", "into_clause">>, <<"IndexStmt", "relation">>,
   <<"CreateStmt", "relation">>, <<"CreateTableAsStmt", "into">>,
   <<"AlterTableStmt", "relation">>, <<"RuleStmt", "relation">>,
   <<"TruncateStmt", "relations">>, <<"VacuumStmt", "rels">>,
   <<"ViewStmt", "view">>, <<"RefreshMatViewStmt", "relation">>,
   <<"CreateTrigStmt", "relation">>}
ConditionFields ==
  {<<"SelectStmt", "where_clause">>, <<"DeleteStmt", "where_clause">>,
   <<"UpdateStmt", "where_clause">>, <<"MergeStmt", "join_condition">>,
   <<"MergeWhenClause", "condition">>, <<"IndexStmt", "where_clause">>,
   <<"JoinExpr", "quals">>}

ScopeOfField(parent, at, scope) ==
  LET field == <<Kind(parent), at[1]>> IN
  [scope EXCEPT
     !.statement = CASE field \in SelectFields -> "select"
                     [] field \in DmlFields -> "dml"
                     [] field \in DdlFields -> "ddl"
                     [] OTHER -> @,
     !.in_condition = @ \/ field \in ConditionFields,
     !.in_from_clause =
        \/ @
        \/ field \in (SelectFields \cup DmlFields \cup DdlFields) \ ConditionFields
        \/ field = <<"GrantStmt", "objects">> /\ Message(parent).objtype = "OBJECT_TABLE",
     !.in_subquery = \/ @
                     \/ Kind(parent) = "SubLink"
                     \/ Kind(parent) = "RangeSubselect" /\ Message(parent).lateral]
-----------------------------------------------------------------------------
(* The collectors.  A visit shows v.node, v.path and v.scope; m is the     *)
(* message visited and r the result so far.  Lists that finalize_result    *)
(* makes unique are sets.                                                  *)

EmptyResult ==
  [tables |-> {}, table_aliases |-> {}, cte_names |-> {}, functions |-> {},
   filter_columns |-> {}, parameter_references |-> {}, statement_types |-> <<>>]

StatementType(rawStmt) == Children(Children(rawStmt)[1].node)[1].at[1]

(* Mutant: puts the type in front, as the other collectors do. *)
StatementTypesInFront(v, m, r) ==
  IF m.kind = "RawStmt"
  THEN [r EXCEPT !.statement_types = <<StatementType(v.node)>> \o @]
  ELSE r

StatementTypes(v, m, r) ==
  IF m.kind = "RawStmt"
  THEN [r EXCEPT !.statement_types = Append(@, StatementType(v.node))]
  ELSE r

(* Mutant: SELECT is left out. *)
ScopeMetadataOfDml(v, m, r) ==
  IF m.kind \in {"UpdateStmt", "MergeStmt"}
  THEN [r EXCEPT !.table_aliases =
                     @ \cup {a \in v.scope.aliases : a.relation \notin v.scope.cte_names},
                 !.cte_names = @ \cup v.scope.cte_names]
  ELSE r

ScopeMetadata(v, m, r) ==
  IF m.kind \in {"SelectStmt", "UpdateStmt", "MergeStmt"}
  THEN [r EXCEPT !.table_aliases =
                     @ \cup {a \in v.scope.aliases : a.relation \notin v.scope.cte_names},
                 !.cte_names = @ \cup v.scope.cte_names]
  ELSE r

Named(name, type, at) == [name |-> name, type |-> type, at |-> at]

Dotted(names) == FoldLeft(LAMBDA text, name : text \o "." \o name, Head(names), Tail(names))

DropObjects(v, m, r) ==
  LET drop(objects) == {Named(Dotted(o), v.scope.statement, -1) : o \in objects} IN
  CASE m.kind # "DropStmt" -> r
    [] m.kind = "DropStmt" /\ m.remove_type \in {"OBJECT_TABLE", "OBJECT_VIEW"} ->
         [r EXCEPT !.tables = @ \cup drop(m.objects)]
    [] m.kind = "DropStmt" /\ m.remove_type \in {"OBJECT_RULE", "OBJECT_TRIGGER"} ->
         [r EXCEPT !.tables = @ \cup drop({SubSeq(o, 1, Len(o) - 1) : o \in m.objects})]
    [] m.kind = "DropStmt" /\ m.remove_type = "OBJECT_FUNCTION" ->
         [r EXCEPT !.functions = @ \cup drop(m.objects)]
    [] OTHER -> r

(* fields are the names in a column reference, of which a "*" is none: one *)
(* name is that of a column, the first of two that of a table or an alias. *)
(* Three names and more are no filter column.                              *)
FilterColumn(fields, aliases) ==
  LET known == {a \in aliases : a.alias = fields[1]}
      alias == CHOOSE a \in known : TRUE
      table == CASE Len(fields) = 1 -> ""
                 [] Len(fields) = 2 /\ known = {} -> fields[1]
                 [] OTHER -> QualifiedName(alias.schema, alias.relation)
  IN [table |-> table, column |-> fields[Len(fields)]]

FilterColumns(v, m, r) ==
  IF m.kind = "ColumnRef" /\ v.scope.in_condition /\ Len(m.fields) \in 1..2
  THEN [r EXCEPT !.filter_columns = @ \cup {FilterColumn(m.fields, v.scope.aliases)}]
  ELSE r

(* Mutant: takes no notice of RECURSIVE in the body of the CTE itself. *)
TakenForCteInBody(name, scope) ==
  \/ name = scope.current_cte
  \/ name \in scope.cte_names /\ scope.current_cte = ""

(* Whether a name in a FROM clause or the like is taken for that of a CTE. *)
TakenForCte(name, scope) ==
  LET current == name = scope.current_cte
      cteReference == current \/ name \in scope.cte_names
  IN cteReference /\ (scope.current_cte = "" \/ (current /\ scope.recursive_cte))

Tables(v, m, r) ==
  IF /\ m.kind = "RangeVar"
     /\ v.scope.in_from_clause
     /\ ~TakenForCte(TableName(v.node), v.scope)
  THEN [r EXCEPT !.tables = @ \cup {Named(TableName(v.node), v.scope.statement, m.location)}]
  ELSE r

Functions(v, m, r) ==
  LET add(names) ==
        [r EXCEPT !.functions = @ \cup {Named(n, v.scope.statement, -1) : n \in names}]
  IN CASE m.kind \in {"FuncCall", "CreateFunctionStmt"} -> add({Dotted(m.funcname)})
       [] m.kind = "RenameStmt" /\ m.rename_type = "OBJECT_FUNCTION" ->
            add({Dotted(m.objname), m.newname})
       [] OTHER -> r

(* "$" and the digits.                                                     *)
ParamRefLength(number) == 1 + Cardinality({k \in 0..9 : 10 ^ k <= number})

(* Mutant: looks at the wrong end of the path. *)
IsArgOfCastAtTheRoot(path) ==
  /\ Len(path) >= 3
  /\ SubSeq(path, 1, 3) = <<Field("type_cast"), Field("arg"), Field("param_ref")>>

(* Whether the path ends with :type_cast, :arg, :param_ref.                *)
IsArgOfCast(path) ==
  /\ Len(path) >= 3
  /\ SubSeq(path, Len(path) - 2, Len(path)) =
       <<Field("type_cast"), Field("arg"), Field("param_ref")>>

(* The reference to a parameter that is the argument of a cast covers the  *)
(* name of the type if that comes first.                                   *)
CastReference(param, type) ==
  LET length == ParamRefLength(param.number)
      before == type.location < param.location
  IN [at       |-> IF param.location = -1 \/ before THEN type.location ELSE param.location,
      length   |-> IF before THEN length + param.location - type.location ELSE length,
      typename |-> type.names]

References(node, path) ==
  LET m == Message(node) IN
  IF m.kind = "ParamRef" /\ ~IsArgOfCast(path)
  THEN {[at |-> m.location, length |-> ParamRefLength(m.number), typename |-> "none"]}
  ELSE IF m.kind = "TypeCast"
  THEN {CastReference(Message(p), Message(t)) :
          p \in {n \in Below(node, "arg") : Kind(n) = "ParamRef"},
          t \in Below(node, "type_name")}
  ELSE {}

ParameterReferences(v, m, r) ==
  [r EXCEPT !.parameter_references = @ \cup References(v.node, v.path)]

CollectAll(v, result) ==
  LET m == Message(v.node) IN
  ParameterReferences(v, m, Functions(v, m, Tables(v, m, FilterColumns(v, m,
    DropObjects(v, m, ScopeMetadata(v, m, StatementTypes(v, m, result)))))))

(* What the walk is called with: reduce(tree, scope, &collect_visit/2).    *)
IsAnalysis ==
  /\ NoScope = DefaultScope /\ Nothing = EmptyResult
  /\ \A node, scope : EnterNode(node, scope) = ScopeOfNode(node, scope)
  /\ \A parent, at, scope : EnterField(parent, at, scope) = ScopeOfField(parent, at, scope)
  /\ \A visit, result : Collect(visit, result) = CollectAll(visit, result)
-----------------------------------------------------------------------------
(* PgInspect.Internal.AST.update: the node a path leads to, if any.  The   *)
(* walk goes from an A_Const straight to the value in its oneof, whose     *)
(* name is not a key of the struct.                                        *)
AllAt(nodes, at) ==
  UNION {{kid.node : kid \in {k \in Range(Children(n)) : k.at = at}} :
           n \in {m \in nodes : Kind(m) # "A_Const"}}

UpdateReaches(node, path) ==
  LET reached[n \in 0..Len(path)] ==
        IF n = 0 THEN {node} ELSE AllAt(reached[n - 1], path[n])
  IN reached[Len(path)]
-----------------------------------------------------------------------------
(* Every table a statement reads, writes or creates is among the tables,   *)
(* with its use: SELECT for one that is read, DML for one that is written, *)
(* DDL for one that is created.  A name that is visible as a CTE is the    *)
(* CTE where it is read.  CTEs do not hide tables from being written or    *)
(* created, nor tables with a schema, but the analysis takes a name that   *)
(* is spelled like that of a visible CTE for the CTE all the same.         *)
TypeOfUse == [read |-> "select", written |-> "dml", created |-> "ddl"]

TablesFound ==
  Done => \A use \in TableUses(tree) :
    use.role # "none" /\ ~use.spelledLikeCte =>
      Named(use.name, TypeOfUse[use.role], use.at) \in acc.tables

(* Outside the bodies of CTEs no reference to a CTE is taken for a table,  *)
(* however the statement nests and whatever the walk met before.           *)
CtesAreNoTables ==
  Done => \A use \in TableUses(tree) :
    use.visible /\ use.role = "read" /\ ~use.inCte =>
      \A table \in acc.tables : table.at # use.at

(* "correctly separates CTE names from table names": what is reported as a *)
(* table is one.  References between CTEs are reported all the same,       *)
(* because current_cte is set in the body of every CTE.                    *)
OnlyTablesReported ==
  Done => \A use \in TableUses(tree) :
    use.visible /\ use.role = "read" => \A table \in acc.tables : table.at # use.at

(* A column in a condition is reported with the table that its qualifier   *)
(* is an alias of where it stands, whatever the alias means elsewhere in   *)
(* the statement.  DELETE keeps no aliases, and an alias of an item beside *)
(* a derived table or a CTE is taken for one in sight.                     *)
AliasesResolve ==
  Done => \A ref \in FilterRefs(tree) : \A item \in ref.means.items :
    /\ Kind(item) = "RangeVar"
    /\ Message(item).alias # ""
    /\ ref.means.of # "DeleteStmt"
    /\ ~ref.beside
    => {f \in acc.filter_columns : f.column = ref.column} =
         {[table |-> TableName(item), column |-> ref.column]}

(* Every placeholder has one reference, which ends where the placeholder   *)
(* ends, whether it is the argument of a cast or not.                      *)
EachParameterOnce ==
  Done => \A param \in {Message(queue[i].node) : i \in DOMAIN queue} :
    param.kind = "ParamRef" /\ param.location # -1 =>
      Cardinality({ref \in acc.parameter_references :
                     ref.at + ref.length = param.location + ParamRefLength(param.number)}) = 1

(* The statement types are in the order of the statements, and each is     *)
(* there once, although the walk visits what is in the statements later.   *)
TypesInQueryOrder ==
  LET stmts == Children(Children(tree)[1].node) IN
  Done => acc.statement_types = [i \in DOMAIN stmts |-> StatementType(stmts[i].node)]

(* A CTE is listed if its body is a SELECT, whatever kind of statement     *)
(* declares it.                                                            *)
CtesListed ==
  Done => \A node \in {queue[i].node : i \in DOMAIN queue} :
    /\ Kind(node) = "CommonTableExpr"
    /\ \E body \in Below(node, "ctequery") : Kind(body) = "SelectStmt"
    => Message(node).ctename \in acc.cte_names

(* The path of a visit leads update to the node visited, unless it goes    *)
(* through an A_Const.                                                     *)
PathsLeadBack ==
  \A i \in DOMAIN queue :
    \/ UpdateReaches(tree, queue[i].path) = {queue[i].node}
    \/ \E j \in 1..(i - 1) :
         /\ Kind(queue[j].node) = "A_Const"
         /\ queue[j].path = SubSeq(queue[i].path, 1, Len(queue[j].path))
=============================================================================
