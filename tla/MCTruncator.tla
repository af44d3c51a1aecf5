---------------------------- MODULE MCTruncator ----------------------------
(* Statements for Truncator.  Sizes stands for the lengths of expressions  *)
(* and lists: below an ellipsis, as long, and longer.                      *)
EXTENDS Truncator

Sizes == {1, 3, 8}

P(path, kind, text) == [path |-> path, kind |-> kind, text |-> text, shown |-> TRUE]
Hidden(path) == [path |-> path, kind |-> "group_clause", text |-> 0, shown |-> FALSE]
Stmt(fixed, parts) == [deparses |-> TRUE, fixed |-> fixed, parts |-> parts]

Root == <<"stmts", "0", "stmt">>
Select(at) == Root \o <<"select_stmt">> \o at

(* SELECT targets FROM t WHERE w GROUP BY g, g = 0 if there is none *)
Plain == {Stmt(IF g = 0 THEN 21 ELSE 31,
               <<P(Select(<<"target_list">>), "target_list", t),
                 P(Select(<<"where_clause">>), "where_clause", w),
                 P(Select(<<"group_clause">>), "group_clause", g)>>) :
            t \in Sizes, w \in Sizes, g \in Sizes \cup {0}}

(* SELECT t FROM (SELECT u FROM r) x WHERE w *)
From == <<"from_clause", "0", "range_subselect", "subquery", "select_stmt">>
Subselect == {Stmt(37, <<P(Select(<<"target_list">>), "target_list", t),
                         P(Select(<<"where_clause">>), "where_clause", w),
                         P(Select(<<"group_clause">>), "group_clause", 0),
                         P(Select(From \o <<"target_list">>), "target_list", u),
                         P(Select(From \o <<"group_clause">>), "group_clause", 0)>>) :
                t \in Sizes, w \in Sizes \cup {30}, u \in Sizes}

(* UPDATE r SET s WHERE a IN (SELECT t FROM r WHERE w GROUP BY g) *)
Update(at) == Root \o <<"update_stmt">> \o at
In == <<"where_clause", "sub_link", "subselect", "select_stmt">>
Updates == {Stmt(20, <<P(Update(<<"target_list">>), "set_list", s),
                       P(Update(<<"where_clause">>), "where_clause", 42),
                       P(Update(In \o <<"target_list">>), "target_list", t),
                       P(Update(In \o <<"where_clause">>), "where_clause", w),
                       P(Update(In \o <<"group_clause">>), "group_clause", g)>>) :
              s \in {5, 12}, t \in {1, 8}, w \in {3, 8}, g \in {1, 8}}

(* WITH c AS (SELECT t FROM r WHERE w GROUP BY g) INSERT INTO r (k) VALUES *)
(* (v) ON CONFLICT DO UPDATE SET s                                         *)
Insert(at) == Root \o <<"insert_stmt">> \o at
Values == Insert(<<"select_stmt", "select_stmt">>)
Cte == Insert(<<"with_clause", "ctes", "0", "common_table_expr", "ctequery">>)
Inserts == {Stmt(70, <<P(Insert(<<"cols">>), "cols", k),
                       P(Insert(<<"on_conflict_clause", "target_list">>), "set_list", s),
                       P(Values \o <<"target_list">>, "target_list", 0),
                       Hidden(Values \o <<"group_clause">>),
                       P(Values \o <<"values_lists">>, "values_lists", v),
                       P(Cte, "ctequery", 31),
                       P(Cte \o <<"select_stmt", "target_list">>, "target_list", t),
                       P(Cte \o <<"select_stmt", "where_clause">>, "where_clause", 5),
                       P(Cte \o <<"select_stmt", "group_clause">>, "group_clause", g)>>) :
              k \in {0, 1, 12}, s \in {5, 12}, v \in {3, 8}, t \in {1, 8}, g \in {0, 8}}

Broken == {[deparses |-> FALSE, fixed |-> 0, parts |-> <<>>]}

MCStatements == Plain \cup Subselect \cup Updates \cup Inserts \cup Broken

(* Around every threshold, and from where nothing fits to where all does.  *)
MCLimits == (-1 .. 4) \cup (15 .. 150)
============================================================================
