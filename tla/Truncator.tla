----------------------------- MODULE Truncator -----------------------------
(***************************************************************************)
(* Truncator.truncate: shortens the text of a statement to at most         *)
(* maxLength characters, by putting "..." in the place of whole parts of   *)
(* its tree, the deepest and longest first, and by cutting the text when   *)
(* that is not enough.                                                     *)
(*                                                                         *)
(* A statement is a record with the fields                                 *)
(*   deparses  whether the tree can be turned back into text               *)
(*   fixed     characters of the text that belong to no part               *)
(*   parts     the nodes that candidate_specs names, in the breadth-first  *)
(*             order of AST.reduce, each a record                          *)
(*     path    where it is in the tree                                     *)
(*     kind    one of Kinds; a target_list of an UPDATE or an ON CONFLICT  *)
(*             is a "set_list"                                             *)
(*     text    its characters, those of the parts inside it left out       *)
(*     shown   whether the deparser prints it: a SELECT with VALUES or     *)
(*             UNION has an (empty) group_clause that it does not print    *)
(* The only parts that may be empty are the lists that AST.reduce visits   *)
(* although the statement has none: target_list, group_clause and cols.    *)
(***************************************************************************)
EXTENDS Integers, Sequences, FiniteSets, SequencesExt

CONSTANTS Statements, Limits

Kinds == {"target_list", "set_list", "group_clause", "where_clause",
          "values_lists", "ctequery", "cols"}

ASSUME LimitsAssumption == Limits \subseteq Int

ASSUME StatementsAssumption ==
  \A s \in Statements :
    /\ s.deparses \in BOOLEAN /\ s.fixed \in Nat
    /\ s.parts \in Seq([path : Seq(STRING), kind : Kinds, text : Nat, shown : BOOLEAN])

(* What the deparser does not print of a SELECT with VALUES or UNION is    *)
(* empty: the grammar has no place for it.                                 *)
ASSUME HiddenAssumption ==
  \A s \in Statements : \A i \in DOMAIN s.parts : ~s.parts[i].shown =>
    /\ s.parts[i].text = 0
    /\ \A j \in DOMAIN s.parts : ~IsStrictPrefix(s.parts[i].path, s.parts[j].path)

VARIABLES
  statement,  \* tree
  maxLength,  \* max_length
  todo,       \* truncations that try_smart_truncation has not tried
  replaced,   \* parts that hold "..." in tree_acc
  result,     \* "none" until truncate returns, or how it came to its answer
  length      \* length of the text truncate returns

vars == <<statement, maxLength, todo, replaced, result, length>>

Ellipsis == 3

Parts == DOMAIN statement.parts
Part(i) == statement.parts[i]
Depth(i) == Len(Part(i).path)
Inside(i, j) == IsStrictPrefix(Part(j).path, Part(i).path)

(* A list that the statement does not have. *)
Empty(i) == Part(i).kind \in {"group_clause", "cols"} /\ Part(i).text = 0

(* The characters that the replacement of a part prints.  That of a list   *)
(* the statement does not have brings its keyword or brackets with it:     *)
(* " GROUP BY ..." and " (...)".                                           *)
Filler(i) ==
  IF ~Part(i).shown THEN 0
  ELSE IF Empty(i) THEN IF Part(i).kind = "group_clause" THEN 13 ELSE 6
  ELSE IF Part(i).kind = "set_list" THEN 9   \* "... = ..."
  ELSE Ellipsis

(* The sum of a sequence of lengths. *)
Total(f) ==
  LET sum[n \in 0 .. Len(f)] == IF n = 0 THEN 0 ELSE sum[n - 1] + f[n]
  IN  sum[Len(f)]

(* What a part adds to the text of the tree in which the parts of R are    *)
(* replaced.                                                               *)
Printed(R, i) ==
  IF \E j \in R : Inside(i, j) THEN 0
  ELSE IF i \in R THEN Filler(i) ELSE Part(i).text

(* query_length of the tree in which the parts of R are replaced. *)
Length(R) == statement.fixed + Total([i \in Parts |-> Printed(R, i)])

(* The text of that tree is short enough. *)
Fits(R) == Length(R) <= maxLength

(* The length that select_target_list_length and its like measure: the     *)
(* part in a statement of its own, less the keywords.  Around an empty     *)
(* list these are not the ones the code strips: "SELECT" stays, and        *)
(* "INSERT INTO x DEFAULT VALUES".                                         *)
Alone(i) ==
  IF Empty(i) THEN IF Part(i).kind = "group_clause" THEN 6 ELSE 28
  ELSE Total([j \in Parts |-> IF j = i \/ Inside(j, i) THEN Part(j).text ELSE 0])

(* find_possible_truncations, without the ones that are too short. *)
Candidates == {i \in Parts : Alone(i) >= Ellipsis}

(* Mutants: the length comes first; the order of the visits, unreversed.   *)
BeforeLongest(i, j) == Alone(i) > Alone(j) \/ (Alone(i) = Alone(j) /\ i > j)
BeforeVisited(i, j) == i < j

(* sort_by is stable, and find_possible_truncations has put the part that  *)
(* was visited last in front.                                              *)
Before(i, j) ==
  \/ Depth(i) > Depth(j)
  \/ Depth(i) = Depth(j) /\ Alone(i) > Alone(j)
  \/ Depth(i) = Depth(j) /\ Alone(i) = Alone(j) /\ i > j

(* AST.put follows the path from the root: what a replacement put there is *)
(* not what the path was made for.                                         *)
Unreachable(i) == \E j \in replaced : Inside(i, j)

(* Mutants: a slice of maxLength; no clause for limits below 1. *)
HardLengthKeepsMax(n) ==
  IF maxLength <= 0 THEN 0
  ELSE IF maxLength <= Ellipsis THEN maxLength
  ELSE (IF n < maxLength THEN n ELSE maxLength) + Ellipsis

HardLengthOfNothing(n) ==
  IF maxLength <= Ellipsis THEN maxLength
  ELSE (IF n < maxLength - Ellipsis THEN n ELSE maxLength - Ellipsis) + Ellipsis

(* hard_truncate *)
HardLength(n) ==
  IF maxLength <= 0 THEN 0
  ELSE IF maxLength <= Ellipsis THEN maxLength
  ELSE (IF n < maxLength - Ellipsis THEN n ELSE maxLength - Ellipsis) + Ellipsis

---------------------------------------------------------------------------
Init ==
  /\ statement \in Statements
  /\ maxLength \in Limits
  /\ todo = {} /\ replaced = {}
  /\ result = "none" /\ length = 0

Return(how, n) == result' = how /\ length' = n

(* truncate/2 on the whole tree. *)
Whole ==
  /\ result = "none" /\ todo = {} /\ replaced = {}
  /\ \/ /\ ~statement.deparses
        /\ Return("error", 0) /\ UNCHANGED todo
     \/ /\ statement.deparses /\ Fits({})
        /\ Return("whole", Length({})) /\ UNCHANGED todo
     \/ /\ statement.deparses /\ ~Fits({}) /\ Candidates = {}
        /\ Return("hard", HardLength(Length({}))) /\ UNCHANGED todo
     \/ /\ statement.deparses /\ ~Fits({}) /\ Candidates # {}
        /\ todo' = Candidates /\ UNCHANGED <<result, length>>
  /\ UNCHANGED <<statement, maxLength, replaced>>

(* Mutant: every round starts from the whole tree. *)
OmitFromScratch ==
  /\ result = "none"
  /\ \E i \in todo :
       LET R == {i}
       IN  /\ \A j \in todo \ {i} : Before(i, j)
           /\ todo' = todo \ {i}
           /\ replaced' = R
           /\ IF Fits(R) THEN Return("smart", Length(R))
              ELSE IF todo' = {} THEN Return("hard", HardLength(Length(R)))
              ELSE UNCHANGED <<result, length>>
  /\ UNCHANGED <<statement, maxLength>>

(* One round of reduce_while, and the end of do_truncate with the last     *)
(* one.  An {:error, _} of AST.put is neither {:cont, _} nor {:halt, _}:   *)
(* reduce_while raises.  So it would on one of query_length: that the      *)
(* deparser fails of the new tree and not of the old one is left out.      *)
Omit ==
  /\ result = "none"
  /\ \E i \in todo :
       LET R == replaced \cup {i}
       IN  /\ \A j \in todo \ {i} : Before(i, j)
           /\ todo' = todo \ {i}
           /\ replaced' = R
           /\ IF Unreachable(i) THEN Return("raised", 0)
              ELSE IF Fits(R) THEN Return("smart", Length(R))
              ELSE IF todo' = {} THEN Return("hard", HardLength(Length(R)))
              ELSE UNCHANGED <<result, length>>
  /\ UNCHANGED <<statement, maxLength>>

Next == Whole \/ Omit

Spec == Init /\ [][Next]_vars

---------------------------------------------------------------------------
(* The types of the state.  (truncate/2) *)
TypeOK ==
  /\ statement \in Statements /\ maxLength \in Limits
  /\ todo \subseteq Parts /\ replaced \subseteq Parts
  /\ result \in {"none", "error", "raised", "whole", "smart", "hard"}
  /\ length \in Nat

(* The text that truncate returns is within the limit, also for the limits *)
(* that are too small for an ellipsis and for those below zero.            *)
FitsMaxLength ==
  result \in {"whole", "smart", "hard"} =>
    length <= (IF maxLength < 0 THEN 0 ELSE maxLength)

(* Every path that was found in the whole tree still leads to its part in  *)
(* the tree in which other parts are replaced already, so that AST.put     *)
(* never fails and reduce_while never raises.                              *)
NeverRaises == result # "raised"

(* A part is only given up when giving up all the parts deeper than it was *)
(* not enough.  (sort_by in do_truncate)                                   *)
InnermostFirst ==
  \A i \in replaced : ~Fits({j \in Candidates : Depth(j) > Depth(i)})

(* When no replacement is longer than what it stands for, truncate cuts    *)
(* the text only if there is no choice of parts, greedy or not, that would *)
(* have made it fit.  (try_smart_truncation)                               *)
GreedyIsEnough ==
  result = "hard" /\ (\A i \in Candidates : Filler(i) <= Part(i).text) =>
    \A R \in SUBSET Parts : ~Fits(R)

(* The same for every statement, as "falls back to hard truncation when    *)
(* smart truncation is not enough" says of it.  The code breaks it: the    *)
(* lists a statement does not have are candidates, and replacing them, or  *)
(* a short SET list, makes the text longer.                                *)
HardOnlyWhenSmartIsNotEnough ==
  result = "hard" => \A R \in SUBSET Parts : ~Fits(R)
=============================================================================
