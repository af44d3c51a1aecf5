---------------------------- MODULE MCNormalize ----------------------------
(* Small statements for Normalize, laid out as text: every leaf has a slot *)
(* of three characters, of which a constant takes one, a negative constant *)
(* two and a parameter two or three.  The WITH clause comes first in the   *)
(* text and last in the walk.                                              *)
EXTENDS Normalize

(* Leaves: "c" constant, "m" negative constant, "p1", "p2" parameters and  *)
(* "p17" .. "p19" the last three below and at INT_MAX. "s" is a sub-select *)
(* that has a constant as its target and one in its WHERE.  "l1" and "l2"  *)
(* are lists with one constant and with two.                               *)
ParamNumber == [p1 |-> 1, p2 |-> 2, p17 |-> MaxInt - 2, p18 |-> MaxInt - 1, p19 |-> MaxInt]

Slots(leaf) == IF leaf \in {"s", "l2"} THEN 2 ELSE 1

RECURSIVE SlotsOf(_)
SlotsOf(s) == IF s = <<>> THEN 0 ELSE Slots(Head(s)) + SlotsOf(Tail(s))

Cmd(op, n) == [op |-> op, n |-> n, fp |-> <<>>]
Item(op, fp) == [op |-> op, n |-> 0, fp |-> fp]

(* The steps of an item whose first leaf is in slot k. *)
RECURSIVE Walk(_, _)
Walk(item, k) ==
  IF item = <<>> THEN <<>>
  ELSE LET leaf == Head(item)
       IN  (CASE leaf \in {"c", "m", "l1"} -> <<Cmd("const", 3 * k)>>
              [] leaf = "l2" -> <<Cmd("const", 3 * k), Cmd("const", 3 * k + 3)>>
              [] leaf \in DOMAIN ParamNumber -> <<Cmd("param", ParamNumber[leaf])>>
              [] leaf = "s" -> <<Cmd("select", 0), Cmd("target", 0),
                                 Cmd("const", 3 * k), Item("target_end", <<"v">>),
                                 Cmd("const", 3 * k + 3), Cmd("select_end", 0)>>)
           \o Walk(Tail(item), k + Slots(leaf))

(* The fingerprint does not tell constants and parameters apart, and what  *)
(* a list repeats is left out.                                             *)
Fingerprint(item) ==
  [i \in DOMAIN item |-> CASE item[i] = "s" -> "s"
                           [] item[i] \in {"l1", "l2"} -> "l"
                           [] OTHER -> "v"]

RECURSIVE Targets(_, _)
Targets(items, k) ==
  IF items = <<>> THEN <<>>
  ELSE <<Cmd("target", 0)>> \o Walk(Head(items), k)
       \o <<Item("target_end", Fingerprint(Head(items)))>>
       \o Targets(Tail(items), k + SlotsOf(Head(items)))

RECURSIVE Groups(_, _)
Groups(items, k) ==
  IF items = <<>> THEN <<>>
  ELSE <<Item("group", Fingerprint(Head(items)))>> \o Walk(Head(items), k)
       \o <<Cmd("group_end", 0)>>
       \o Groups(Tail(items), k + SlotsOf(Head(items)))

RECURSIVE Text(_, _)
Text(leaves, k) ==
  IF leaves = <<>> THEN <<>>
  ELSE LET at == 3 * k
           tok(i, j) == [at |-> i, end |-> j]
           leaf == Head(leaves)
       IN  (CASE leaf \in {"c", "l1"} -> <<tok(at, at + 1)>>
              [] leaf = "m" -> <<tok(at, at + 1), tok(at + 1, at + 2)>>
              [] leaf \in {"s", "l2"} -> <<tok(at, at + 1), tok(at + 3, at + 4)>>
              [] leaf \in {"p1", "p2"} -> <<tok(at, at + 2)>>
              [] OTHER -> <<tok(at, at + 3)>>)
           \o Text(Tail(leaves), k + Slots(leaf))

RECURSIVE Minuses(_, _)
Minuses(leaves, k) ==
  IF leaves = <<>> THEN {}
  ELSE (IF Head(leaves) = "m" THEN {3 * k} ELSE {})
       \cup Minuses(Tail(leaves), k + Slots(Head(leaves)))

(* WITH with SELECT targets WHERE where GROUP BY groups *)
Select(with, targets, where, groups) ==
  LET t == SlotsOf(with)
      w == t + SlotsOf(FlattenSeq(targets))
      g == w + SlotsOf(where)
      leaves == with \o FlattenSeq(targets) \o where \o FlattenSeq(groups)
  IN  [len |-> 3 * SlotsOf(leaves), tokens |-> Text(leaves, 0),
       minus |-> Minuses(leaves, 0), quotes |-> {},
       walk |-> <<Cmd("select", 0)>> \o Targets(targets, t) \o Walk(where, w)
                \o Groups(groups, g) \o Walk(with, 0) \o <<Cmd("select_end", 0)>>]

UpTo(S, n) == UNION {[1 .. m -> S] : m \in 0 .. n}

(* CREATE FUNCTION .. LANGUAGE sql AS '..' : the string is the first that  *)
(* follows both DefElems.  The other order, and two functions in a row.    *)
Token(i, j) == [at |-> i, end |-> j]
Utilities ==
  { [len |-> 9, tokens |-> <<Token(0, 1), Token(2, 3), Token(4, 6), Token(7, 8)>>,
     minus |-> {}, quotes |-> {4},
     walk |-> <<Cmd("defelem", a), Cmd("defelem", b), Cmd("const", 7)>>] :
        a \in {0, 2, 6}, b \in {0, 2, 6} }
  \cup
  { [len |-> 9, tokens |-> <<Token(0, 1), Token(2, 4), Token(5, 6), Token(6, 8)>>,
     minus |-> {}, quotes |-> {2, 6},
     walk |-> <<Cmd("defelem", a), Cmd("defelem", b), Cmd("defelem", 5)>>] :
        a \in {0, 2, 5}, b \in {0, 2, 5} }

(* CREATE SUBSCRIPTION foo CONNECTION 'x', and with a string that has an   *)
(* escaped quote, which strstr does not find.                              *)
Subscriptions ==
  {[len |-> 9, tokens |-> <<Token(0, 2), Token(3, 4), Token(5, 8)>>,
    minus |-> {}, quotes |-> {5}, walk |-> <<Cmd("matching", n)>>] : n \in {-1, 6}}

Plain == {"c", "m"}
ItemsOf(leaves) == {s \in UpTo(leaves, 2) : s # <<>>}

(* Statements without parameters of their own. *)
PlainQueries ==
  {Select(<<"c">>, ts, <<"m">>, gs) :
     ts \in UpTo(ItemsOf(Plain), 2), gs \in UpTo(ItemsOf({"c"}), 2)}
  \cup {Select(<<>>, ts, <<"s">>, gs) :
     ts \in UpTo({<<"c">>, <<"c", "c">>}, 2), gs \in UpTo(ItemsOf({"c"}), 3)}
  \cup {Select(<<>>, ts, <<>>, gs) :
     ts \in UpTo({<<"l1">>, <<"l2">>}, 2), gs \in UpTo({<<"l1">>, <<"l2">>}, 2)}

(* Statements with parameters and sub-selects in any place. *)
ParamQueries ==
  {Select(<<"c">>, ts, <<"p2">>, gs) :
     ts \in UpTo(ItemsOf({"c", "p1", "s"}), 1), gs \in UpTo(ItemsOf({"c", "p1", "s"}), 2)}
  \cup {Select(<<>>, ts, <<>>, gs) :
     ts \in UpTo({<<"c">>, <<"p1">>, <<"c", "p2">>}, 2),
     gs \in UpTo({<<"c">>, <<"p1">>, <<"p2", "c">>}, 2)}

(* The largest parameters there are, and constants enough to reach INT_MAX *)
(* or not quite.                                                           *)
LargeParams(leaves, most) ==
  {q \in {Select(with, ts, <<p>>, gs) :
             with \in {<<>>, <<"c">>}, p \in leaves,
             ts \in UpTo({<<"c">>, <<"c", "m">>}, 2), gs \in UpTo({<<"c">>}, 1)} :
     Cardinality({i \in DOMAIN q.walk : q.walk[i].op = "const"}) \in 1 .. most}

MCQueries ==
  PlainQueries \cup ParamQueries \cup Utilities \cup Subscriptions
    \cup LargeParams({"p17", "p18", "p19"}, 4)

(* SELECT .. WHERE $INT_MAX with constants of a character each. *)
MCOverflowQueries == LargeParams({"p19"}, 2)

(* A target that holds a parameter and a constant, and a GROUP BY item     *)
(* that repeats it.                                                        *)
MCMixedQueries == {Select(<<>>, <<item>>, <<>>, <<item>>) : item \in {<<"p1", "c">>, <<"c", "p2">>}}

(* Numbers from 4 on have two digits, as MaxInt has. *)
MCWidth(n) == (IF n < 0 THEN 2 ELSE 1) + (IF n \in -3 .. 3 THEN 1 ELSE 2)
=============================================================================
