-------------------------- MODULE NormalizeProofs --------------------------
(***************************************************************************)
(* What holds of Normalize for every query, every width of int and every   *)
(* way to write numbers: its variables keep their types, and the buffer    *)
(* palloc'ed for the result is large enough.  For every query with no more *)
(* constants than INT_MAX, no new parameter has the number of a parameter  *)
(* the query had before; for every query whose targets and GROUP BY items  *)
(* hold no sub-select, the new ones are dense, and if they fit into an     *)
(* int, they are written as they should be, in the space made for them.    *)
(***************************************************************************)
EXTENDS Normalize, FiniteSetTheorems, SequenceTheorems, TLAPS

(* The result of int arithmetic is an int. *)
LEMMA WrapIsInt ==
  ASSUME NEW n \in Int
  PROVE  Wrap(n) \in -(MaxInt + 1) .. MaxInt
BY NormalizeAssumption DEF Wrap

(* sprintf writes some bytes for every parameter. *)
LEMMA WidthIsNat ==
  ASSUME NEW param \in Int, extern \in 0 .. MaxInt
  PROVE  Final(param) \in Int /\ Width(Final(param)) \in Nat
<1>1. Final(param) \in -(MaxInt + 1) .. MaxInt
  BY WrapIsInt, NormalizeAssumption DEF Final
<1>2. CASE Final(param) \in 0 .. MaxInt
  BY <1>2, NormalizeAssumption
<1>3. CASE Final(param) \in -(MaxInt + 1) .. -1
  BY <1>3, NormalizeAssumption
<1> QED
  BY <1>1, <1>2, <1>3, NormalizeAssumption

(* The lexer's tokens. *)
LEMMA Tokens ==
  ASSUME query \in Queries, NEW j \in DOMAIN query.tokens
  PROVE  /\ j \in Nat /\ Len(query.tokens) \in Nat
         /\ query.tokens[j].at \in Nat /\ query.tokens[j].end \in Nat
         /\ query.tokens[j].at < query.tokens[j].end
         /\ query.tokens[j].end <= query.len
<1>1. query.tokens \in Seq([at : Nat, end : Nat])
  BY QueriesAssumption
<1>2. j \in 1 .. Len(query.tokens) /\ Len(query.tokens) \in Nat
  BY <1>1, LenProperties
<1>3. query.tokens[j] \in [at : Nat, end : Nat]
  BY <1>1, <1>2, ElementOfSeq
<1> QED
  BY <1>2, <1>3, QueriesAssumption

-----------------------------------------------------------------------------
(* Types.                                                                  *)

Clocation == [location : Nat, param : Int]
Target == [fp : Prints, ids : Seq(Int)]
Select == [list : Seq(Target), prev : Nat, match : Seq(Seq(Int))]

TypeInv ==
  /\ TypeOK
  /\ query \in Queries
  /\ pos # 0

(* A function on the places of a sequence is a sequence as long. *)
LEMMA MappedSequence ==
  ASSUME NEW S, NEW T, NEW s \in Seq(S), NEW f, f \in [DOMAIN s -> T]
  PROVE  f \in Seq(T) /\ Len(f) = Len(s)
<1>1. DOMAIN s = 1 .. Len(s) /\ Len(s) \in Nat
  BY LenProperties
<1> QED
  BY <1>1

LEMMA WithoutType ==
  ASSUME NEW S, NEW s \in Seq(S), NEW i \in DOMAIN s
  PROVE  RemoveAt(s, i) \in Seq(S)
<1>1. SubSeq(s, 1, i - 1) \in Seq(S)
  OBVIOUS
<1>2. SubSeq(s, i + 1, Len(s)) \in Seq(S)
  OBVIOUS
<1> QED
  BY <1>1, <1>2, ConcatProperties DEF RemoveAt

LEMMA TypeInit == Init => TypeInv
<1> SUFFICES ASSUME Init PROVE TypeInv
  OBVIOUS
<1>1. \A S : <<>> \in Seq(S)
  BY EmptySeq
<1> QED
  BY <1>1, NormalizeAssumption DEF Init, TypeInv, TypeOK, NoRefs

(* RecordConstLocation, wherever the location comes from. *)
LEMMA RecordType ==
  ASSUME TypeInv, NEW loc \in Int, Record(loc)
  PROVE  /\ clocs' \in Seq(Clocation) /\ Len(clocs') >= Len(clocs)
         /\ high' \in Int
         /\ refs' \in [on : BOOLEAN, ids : Seq(Int)]
<1> USE DEF TypeInv, TypeOK, Clocation
<1>1. CASE loc >= 0
  <2>1. [location |-> loc, param |-> -high] \in Clocation
    BY <1>1
  <2>2. clocs' = Append(clocs, [location |-> loc, param |-> -high]) /\ high' = high + 1
    BY <1>1 DEF Record
  <2>3. clocs' \in Seq(Clocation) /\ Len(clocs') = Len(clocs) + 1
    BY <2>1, <2>2, AppendProperties
  <2>4. Append(refs.ids, -high) \in Seq(Int)
    BY AppendProperties
  <2>5. refs' \in [on : BOOLEAN, ids : Seq(Int)]
    BY <1>1, <2>4 DEF Record
  <2> QED
    BY <2>2, <2>3, <2>5, LenProperties
<1>2. CASE ~(loc >= 0)
  BY <1>2, LenProperties DEF Record
<1> QED
  BY <1>1, <1>2

(* The actions that call RecordConstLocation. *)
LEMMA ConstantRecorded ==
  ASSUME TypeInv, VisitConst \/ VisitDefElem \/ VisitSubscription
  PROVE  /\ clocs' \in Seq(Clocation) /\ Len(clocs') >= Len(clocs)
         /\ high' \in Int
         /\ refs' \in [on : BOOLEAN, ids : Seq(Int)]
<1>1. query \in Queries /\ pos \in DOMAIN query.walk
  <2>1. pos \in Nat /\ pos # 0 /\ pos <= Len(query.walk)
    BY DEF VisitConst, VisitDefElem, VisitSubscription, Visit, TypeInv, TypeOK
  <2> QED
    BY <2>1, QueriesAssumption DEF TypeInv
<1>2. Step.op \in {"const", "defelem", "matching"}
  BY DEF VisitConst, VisitDefElem, VisitSubscription, Visit
<1>3. Step.n \in Int
  BY <1>1, <1>2, QueriesAssumption DEF Step
<1>4. query.quotes \subseteq Nat
  BY <1>1, QueriesAssumption
<1>5. PICK loc \in Int : Record(loc)
  BY <1>3, <1>4 DEF VisitConst, VisitDefElem, VisitSubscription
<1> QED
  BY <1>5, RecordType

(* The constants of a GROUP BY item get other parameters and stay where    *)
(* they are.                                                               *)
LEMMA ItemLeft ==
  ASSUME TypeInv, LeaveGroupItem
  PROVE  clocs' \in Seq(Clocation) /\ Len(clocs') = Len(clocs) /\ high' \in Int
<1> DEFINE prev == Frame.prev
           ids == Frame.match[1]
           given == [i \in DOMAIN clocs |->
                       IF i <= prev THEN clocs[i]
                       ELSE [clocs[i] EXCEPT !.param = ids[i - prev]]]
<1> HIDE DEF prev, ids, given
<1>1. /\ clocs \in Seq(Clocation) /\ selects \in Seq(Select) /\ high \in Int
      /\ DOMAIN clocs = 1 .. Len(clocs) /\ Len(clocs) \in Nat
  BY LenProperties DEF TypeInv, TypeOK, Clocation, Select, Target
<1>2. Frame \in Select
  <2>1. Len(selects) \in Nat /\ Len(selects) # 0
    BY <1>1, EmptySeq, LenProperties DEF LeaveGroupItem, InSelect
  <2> QED
    BY <1>1, <2>1, ElementOfSeq DEF Frame, Last
<1>3. CASE Frame.match # <<>> /\ Len(ids) = Len(clocs) - prev
  <2>1. prev \in Nat /\ ids \in Seq(Int)
    <3>1. Frame.match \in Seq(Seq(Int)) /\ prev \in Nat
      BY <1>2 DEF Select, prev
    <3>2. 1 \in 1 .. Len(Frame.match)
      BY <1>3, <3>1, EmptySeq, LenProperties
    <3> QED
      BY <3>1, <3>2, ElementOfSeq DEF ids
  <2>2. given \in [DOMAIN clocs -> Clocation]
    <3> SUFFICES ASSUME NEW i \in DOMAIN clocs
                 PROVE  given[i] \in Clocation
      BY DEF given
    <3>1. clocs[i] \in Clocation /\ i \in 1 .. Len(clocs)
      BY <1>1, ElementOfSeq
    <3>2. CASE i <= prev
      BY <3>1, <3>2 DEF given
    <3>3. CASE ~(i <= prev)
      <4>1. i - prev \in 1 .. Len(ids)
        BY <1>1, <1>3, <2>1, <3>1, <3>3
      <4>2. ids[i - prev] \in Int
        BY <2>1, <4>1, ElementOfSeq
      <4> QED
        BY <3>1, <3>3, <4>2 DEF Clocation, given
    <3> QED
      BY <3>2, <3>3
  <2>3. given \in Seq(Clocation) /\ Len(given) = Len(clocs)
    BY <1>1, <2>2, MappedSequence
  <2>4. clocs' = given /\ high' = high - Len(ids) /\ Len(ids) \in Int
    BY <1>3, <2>1, LenProperties DEF LeaveGroupItem, given, ids, prev
  <2> QED
    BY <1>1, <2>3, <2>4
<1>4. CASE ~(Frame.match # <<>> /\ Len(ids) = Len(clocs) - prev)
  BY <1>1, <1>4 DEF LeaveGroupItem, ids, prev
<1> QED
  BY <1>3, <1>4

(* The next record in location order has no length, or one of at least 1   *)
(* that lies within the text.                                              *)
LEMMA LengthFilled ==
  ASSUME TypeInv, FillLength
  PROVE  \E r \in left, len \in Int :
           /\ sorted' = Append(sorted, [off |-> clocs[r].location, len |-> len,
                                        param |-> clocs[r].param])
           /\ left' = left \ {r}
           /\ clocs[r] \in Clocation
           /\ lexed' \in Nat /\ lastLoc' \in Int
           /\ len = -1 \/ (len >= 1 /\ clocs[r].location + len <= query.len)
<1> DEFINE tokens == query.tokens
           first(loc) == {j \in lexed + 1 .. Len(tokens) :
                            /\ tokens[j].at >= loc
                            /\ \A k \in lexed + 1 .. j - 1 : tokens[k].at < loc}
           ends(loc) == {IF loc \in query.minus THEN j + 1 ELSE j : j \in first(loc)}
                          \cap DOMAIN tokens
<1>1. clocs \in Seq(Clocation) /\ left \subseteq DOMAIN clocs /\ query \in Queries
        /\ lexed \in Nat /\ lastLoc \in Int
  BY DEF TypeInv, TypeOK, Clocation
<1>2. DOMAIN clocs = 1 .. Len(clocs) /\ Len(clocs) \in Nat
  BY <1>1, LenProperties
<1>3. Len(tokens) \in Nat /\ DOMAIN tokens = 1 .. Len(tokens)
  BY <1>1, QueriesAssumption, LenProperties
<1>4. ASSUME NEW loc \in Nat, NEW last \in ends(loc)
      PROVE  /\ last \in Nat /\ tokens[last].end \in Nat
             /\ tokens[last].end - loc >= 1 /\ tokens[last].end <= query.len
  <2>1. PICK j \in first(loc) : last = IF loc \in query.minus THEN j + 1 ELSE j
    OBVIOUS
  <2>2. j \in DOMAIN tokens /\ tokens[j].at >= loc /\ last \in DOMAIN tokens
    BY <1>1, <1>3
  <2>3. tokens[j].at \in Nat /\ tokens[j].end \in Nat /\ tokens[last].at \in Nat
          /\ tokens[last].end \in Nat /\ tokens[last].at < tokens[last].end
          /\ tokens[last].end <= query.len /\ tokens[j].at < tokens[j].end
    BY <1>1, <2>2, Tokens
  <2>4. query.len \in Nat /\ last \in Nat
    BY <1>1, <1>3, <2>2, QueriesAssumption
  <2>5. tokens[last].at >= tokens[j].at
    <3>1. CASE last = j
      BY <2>3, <3>1
    <3>2. CASE last = j + 1
      <4>1. j \in 1 .. Len(tokens) - 1
        BY <1>3, <2>2, <3>2
      <4>2. j + 1 \in DOMAIN tokens /\ j < j + 1
        BY <1>3, <4>1
      <4>3. tokens[j].end <= tokens[j + 1].at
        BY <1>1, <2>2, <4>2, QueriesAssumption
      <4>4. tokens[j + 1].at \in Nat
        BY <1>1, <4>2, Tokens
      <4> HIDE DEF tokens
      <4> QED
        BY <2>3, <3>2, <4>3, <4>4
    <3> QED
      BY <2>1, <3>1, <3>2
  <2>6. tokens[last].at >= loc
    BY <2>2, <2>3, <2>5
  <2> HIDE DEF tokens
  <2> QED
    BY <2>3, <2>4, <2>6
<1>5. PICK r \in left :
        LET loc == clocs[r].location
            With(len) == sorted' = Append(sorted, [off |-> loc, len |-> len,
                                                   param |-> clocs[r].param])
        IN  /\ left' = left \ {r}
            /\ \/ With(-1) /\ lexed' = lexed /\ lastLoc' = lastLoc
               \/ \E last \in ends(loc) :
                    With(tokens[last].end - loc) /\ lexed' = last /\ lastLoc' = loc
               \/ With(-1) /\ lexed' = Len(tokens) /\ lastLoc' = lastLoc
  BY DEF FillLength
<1>6. clocs[r] \in Clocation
  BY <1>1, <1>2, ElementOfSeq
<1>7. clocs[r].location \in Nat
  BY <1>6 DEF Clocation
<1>8. query.len \in Nat
  BY <1>1, QueriesAssumption
<1> HIDE DEF ends, tokens
<1>9. CASE \E last \in ends(clocs[r].location) :
             /\ sorted' = Append(sorted, [off |-> clocs[r].location,
                                          len |-> tokens[last].end - clocs[r].location,
                                          param |-> clocs[r].param])
             /\ lexed' = last /\ lastLoc' = clocs[r].location
  <2>1. PICK last \in ends(clocs[r].location) :
             /\ sorted' = Append(sorted, [off |-> clocs[r].location,
                                          len |-> tokens[last].end - clocs[r].location,
                                          param |-> clocs[r].param])
             /\ lexed' = last /\ lastLoc' = clocs[r].location
    BY <1>9
  <2> DEFINE len == tokens[last].end - clocs[r].location
  <2>2. len \in Int /\ len >= 1 /\ last \in Nat /\ tokens[last].end \in Nat
          /\ tokens[last].end <= query.len
    BY <1>4, <1>7
  <2>3. clocs[r].location + len = tokens[last].end
    BY <1>7, <2>2
  <2>4. left' = left \ {r}
    BY <1>5
  <2>5. lexed' \in Nat /\ lastLoc' \in Int
    BY <1>7, <2>1, <2>2
  <2>6. len \in Int
    BY <2>2
  <2> HIDE DEF len
  <2> WITNESS r \in left, len \in Int
  <2> QED
    BY <1>6, <2>1, <2>2, <2>3, <2>4, <2>5 DEF len
<1>10. CASE sorted' = Append(sorted, [off |-> clocs[r].location, len |-> -1,
                                      param |-> clocs[r].param])
             /\ lexed' \in Nat /\ lastLoc' = lastLoc
  <2>1. left' = left \ {r}
    BY <1>5
  <2>2. lexed' \in Nat /\ lastLoc' \in Int
    BY <1>1, <1>10
  <2> WITNESS r \in left, -1 \in Int
  <2> QED
    BY <1>6, <1>10, <2>1, <2>2
<1> QED
  BY <1>1, <1>3, <1>5, <1>9, <1>10

LEMMA TypeStep ==
  ASSUME TypeInv, [Next]_vars
  PROVE  TypeInv'
<1> DEFINE Rest == /\ phase' \in {"walk", "lengths", "text", "done"}
                   /\ pos' \in Nat /\ pos' # 0
                   /\ query' \in Queries
                   /\ left' \subseteq DOMAIN clocs'
                   /\ lexed' \in Nat
                   /\ lastLoc' \in Int
                   /\ sorted' \in Seq(Replacement)
                   /\ queryLoc' \in Nat
                   /\ normLoc' \in Int
                   /\ out' \in Seq(Replacement)
           Walks == /\ clocs' \in Seq(Clocation)
                    /\ high' \in Int
                    /\ extern' \in 0 .. MaxInt
                    /\ refs' \in [on : BOOLEAN, ids : Seq(Int)]
                    /\ selects' \in Seq(Select)
<1>a. /\ phase \in {"walk", "lengths", "text", "done"}
      /\ pos \in Nat /\ pos # 0 /\ query \in Queries
      /\ clocs \in Seq(Clocation) /\ high \in Int /\ extern \in 0 .. MaxInt
      /\ refs \in [on : BOOLEAN, ids : Seq(Int)] /\ selects \in Seq(Select)
      /\ left \subseteq DOMAIN clocs /\ lexed \in Nat /\ lastLoc \in Int
      /\ sorted \in Seq(Replacement)
      /\ queryLoc \in Nat /\ normLoc \in Int /\ out \in Seq(Replacement)
  BY DEF TypeInv, TypeOK, Clocation, Select, Target
<1>b. query.walk[pos] = Step
  BY DEF Step
<1>c. SUFFICES (query' = query /\ Walks /\ Rest)
  BY DEF TypeInv, TypeOK, Prints, Clocation, Select, Target
<1>1. ASSUME NEW op, Visit(op)
      PROVE  /\ query' = query /\ pos \in DOMAIN query.walk
             /\ (Len(clocs') >= Len(clocs) /\ clocs' \in Seq(Clocation)) => Rest
  <2>1. pos \in DOMAIN query.walk
    BY <1>1, <1>a DEF Visit
  <2> QED
    BY <1>1, <2>1, <1>a, LenProperties DEF Visit, lengthVars, textVars
<1>2. Len(clocs) \in Nat /\ DOMAIN clocs = 1 .. Len(clocs)
  BY <1>a, LenProperties
<1>c1. ASSUME NEW op, InSelect(op)
       PROVE  /\ Visit(op) /\ Len(selects) \in Nat \ {0}
              /\ Frame \in Select /\ Len(selects) \in 1 .. Len(selects)
  <2>1. Len(selects) \in Nat /\ Len(selects) # 0
    BY <1>c1, <1>a, EmptySeq, LenProperties DEF InSelect
  <2> QED
    BY <1>c1, <1>a, <2>1, ElementOfSeq DEF InSelect, Frame, Last
<1>3. CASE VisitConst
  BY <1>1, <1>3, <1>a, ConstantRecorded DEF VisitConst
<1>4. CASE VisitParamRef
  <2>1. Step.n \in 0 .. MaxInt
    BY <1>a, <1>1, <1>4, <1>b, QueriesAssumption DEF VisitParamRef, Visit
  <2>2. Append(refs.ids, Step.n) \in Seq(Int)
    BY <1>a, <2>1, AppendProperties
  <2>3. refs' \in [on : BOOLEAN, ids : Seq(Int)]
    BY <1>a, <1>4, <2>2 DEF VisitParamRef
  <2> QED
    BY <1>1, <1>2, <1>4, <1>a, <2>1, <2>3 DEF VisitParamRef
<1>5. CASE VisitDefElem
  BY <1>1, <1>5, <1>a, ConstantRecorded DEF VisitDefElem
<1>6. CASE VisitSubscription
  BY <1>1, <1>6, <1>a, ConstantRecorded DEF VisitSubscription
<1>7. CASE EnterSelect
  <2> DEFINE frame == [list |-> <<>>, prev |-> 0, match |-> <<>>]
  <2>1. frame \in Select
    BY EmptySeq DEF Select
  <2>2. selects' \in Seq(Select)
    BY <1>7, <1>a, <2>1, AppendProperties DEF EnterSelect
  <2> QED
    BY <1>1, <1>2, <1>7, <1>a, <2>2 DEF EnterSelect
<1>8. CASE LeaveSelect
  <2>1. Len(selects) \in Nat \ {0} /\ Visit("select_end")
    BY <1>8, <1>c1 DEF LeaveSelect
  <2>2. SubSeq(selects, 1, Len(selects) - 1) \in Seq(Select)
    BY <1>a, <2>1, SubSeqProperties, LenProperties
  <2>3. selects' \in Seq(Select)
    BY <1>8, <2>2 DEF LeaveSelect, Front
  <2> QED
    BY <1>1, <1>2, <1>8, <1>a, <2>1, <2>3 DEF LeaveSelect
<1>9. CASE EnterTarget
  <2>1. Visit("target") /\ <<>> \in Seq(Int)
    BY <1>9, <1>c1, EmptySeq DEF EnterTarget
  <2> QED
    BY <1>1, <1>2, <1>9, <1>a, <2>1 DEF EnterTarget
<1>10. CASE LeaveTarget
  <2> DEFINE target == [fp |-> Step.fp, ids |-> refs.ids]
             frame == [Frame EXCEPT !.list = Append(@, target)]
  <2>1. Visit("target_end") /\ Frame \in Select /\ Len(selects) \in 1 .. Len(selects)
    BY <1>10, <1>c1 DEF LeaveTarget
  <2>2. target \in Target
    BY <1>a, <1>1, <1>b, <2>1 DEF Target, Prints
  <2>3. Append(Frame.list, target) \in Seq(Target)
    BY <2>1, <2>2, AppendProperties DEF Select
  <2>4. frame \in Select
    BY <2>1, <2>3 DEF Select
  <2>5. selects' = [selects EXCEPT ![Len(selects)] = frame]
    BY <1>10 DEF LeaveTarget, Frame, Last
  <2>6. selects' \in Seq(Select)
    BY <1>a, <2>1, <2>4, <2>5, ExceptSeq
  <2>7. NoRefs \in [on : BOOLEAN, ids : Seq(Int)]
    BY EmptySeq DEF NoRefs
  <2> QED
    BY <1>1, <1>2, <1>10, <1>a, <2>1, <2>6, <2>7 DEF LeaveTarget
<1>11. CASE EnterGroupItem
  <2> DEFINE frame(list, match) == [list |-> list, prev |-> Len(clocs), match |-> match]
  <2>1. Visit("group") /\ Frame \in Select /\ Len(selects) \in 1 .. Len(selects)
    BY <1>11, <1>c1 DEF EnterGroupItem
  <2>2. PICK list \in Seq(Target), match \in Seq(Seq(Int)) : Matching(list, match)
    <3>1. Frame.list \in Seq(Target) /\ <<>> \in Seq(Seq(Int))
      BY <2>1, EmptySeq DEF Select
    <3>2. ASSUME NEW m \in DOMAIN Frame.list
          PROVE  RemoveAt(Frame.list, m) \in Seq(Target)
                   /\ <<Frame.list[m].ids>> \in Seq(Seq(Int))
      <4>1. Frame.list[m] \in Target
        BY <3>1, <3>2, ElementOfSeq, LenProperties
      <4>2. Frame.list[m].ids \in Seq(Int)
        BY <4>1 DEF Target
      <4> QED
        BY <3>1, <3>2, <4>2, WithoutType
    <3> QED
      BY <1>11, <3>1, <3>2 DEF EnterGroupItem
  <2>3. frame(list, match) \in Select
    BY <1>2 DEF Select
  <2>4. selects' \in Seq(Select)
    BY <1>a, <2>1, <2>2, <2>3, ExceptSeq DEF Matching
  <2> QED
    BY <1>1, <1>2, <1>11, <1>a, <2>1, <2>4 DEF EnterGroupItem
<1>12. CASE LeaveGroupItem
  <2>1. /\ clocs' \in Seq(Clocation) /\ Len(clocs') = Len(clocs)
        /\ high' \in Int
    BY <1>12, ItemLeft
  <2>2. InSelect("group_end") /\ UNCHANGED <<extern, refs, selects>>
    BY <1>12 DEF LeaveGroupItem
  <2>3. Visit("group_end")
    BY <1>c1, <2>2
  <2>4. query' = query /\ Rest
    BY <1>1, <1>2, <2>1, <2>3
  <2> QED
    BY <1>a, <2>1, <2>2, <2>4
<1>13. CASE EndWalk
  BY <1>13, <1>a DEF EndWalk, walkVars, textVars
<1>14. CASE FillLength
  <2>1. PICK r \in left, len \in Int :
          /\ sorted' = Append(sorted, [off |-> clocs[r].location, len |-> len,
                                       param |-> clocs[r].param])
          /\ left' = left \ {r} /\ clocs[r] \in Clocation
          /\ lexed' \in Nat /\ lastLoc' \in Int
    BY <1>14, LengthFilled
  <2>2. [off |-> clocs[r].location, len |-> len, param |-> clocs[r].param]
          \in Replacement
    BY <2>1 DEF Clocation, Replacement
  <2>3. sorted' \in Seq(Replacement)
    BY <1>a, <2>1, <2>2, AppendProperties
  <2> QED
    BY <1>14, <1>a, <2>1, <2>3 DEF FillLength, walkVars, textVars
<1>15. CASE EndLengths
  BY <1>15, <1>a DEF EndLengths, walkVars, lengthVars, textVars
<1>16. CASE WriteParam
  <2>1. Head(sorted) \in Replacement /\ Tail(sorted) \in Seq(Replacement)
    BY <1>a, <1>16, HeadTailProperties DEF WriteParam
  <2> DEFINE c == Head(sorted)
             bytes == Width(Final(c.param))
             written == [off |-> c.off, len |-> c.len, param |-> Final(c.param)]
  <2>2. Final(c.param) \in Int /\ bytes \in Nat
    BY <1>a, <2>1, WidthIsNat DEF Replacement
  <2>3. written \in Replacement /\ c.off \in Nat /\ c.len \in Int
    BY <2>1, <2>2 DEF Replacement
  <2>4. Append(out, written) \in Seq(Replacement)
    BY <1>a, <2>3, AppendProperties
  <2>5. \/ queryLoc' = queryLoc /\ normLoc' = normLoc /\ out' = out
        \/ /\ c.len >= 0
           /\ queryLoc' = c.off + c.len
           /\ normLoc' = normLoc + (c.off - queryLoc) + bytes
           /\ out' = Append(out, written)
    BY <1>16, <2>3 DEF WriteParam, textVars
  <2> HIDE DEF c, bytes, written
  <2>6. out' \in Seq(Replacement)
    BY <1>a, <2>4, <2>5
  <2>7. queryLoc' \in Nat /\ normLoc' \in Int
    <3>1. /\ queryLoc \in Nat /\ normLoc \in Int /\ bytes \in Nat
          /\ c.off \in Nat /\ c.len \in Int
      BY <1>a, <2>2, <2>3
    <3>2. CASE queryLoc' = queryLoc /\ normLoc' = normLoc
      BY <3>1, <3>2
    <3>3. CASE /\ c.len >= 0 /\ queryLoc' = c.off + c.len
               /\ normLoc' = normLoc + (c.off - queryLoc) + bytes
      BY <3>1, <3>3
    <3> QED
      BY <2>5, <3>2, <3>3
  <2> QED
    BY <1>16, <1>a, <2>1, <2>6, <2>7 DEF WriteParam, walkVars
<1>17. CASE WriteRest
  BY <1>17, <1>a, QueriesAssumption DEF WriteRest, walkVars, lengthVars
<1>18. CASE UNCHANGED vars
  BY <1>18, <1>a DEF vars, walkVars, lengthVars, textVars
<1> QED
  BY <1>3, <1>4, <1>5, <1>6, <1>7, <1>8, <1>9, <1>10, <1>11, <1>12, <1>13,
     <1>14, <1>15, <1>16, <1>17, <1>18 DEF Next

(* The variables keep their types.                                         *)
THEOREM TypeCorrect == Spec => []TypeOK
<1>1. TypeInv => TypeOK
  BY DEF TypeInv
<1> QED
  BY <1>1, TypeInit, TypeStep, PTL DEF Spec

-----------------------------------------------------------------------------
(* The buffer.  Each constant replaced takes at least one byte away and    *)
(* adds at most Slack + 1, so the text written is never more than Slack    *)
(* bytes per constant ahead of the text read; and no more is replaced than *)
(* was recorded.                                                           *)

Copied == IF phase = "done" THEN query.len ELSE queryLoc

BufferInv ==
  /\ phase \in {"walk", "lengths"} => out = <<>> /\ queryLoc = 0 /\ normLoc = 0
  /\ phase = "walk" => left = {} /\ sorted = <<>>
  /\ IsFiniteSet(left)
  /\ Len(out) + Len(sorted) + Cardinality(left) <= Len(clocs)
  /\ \A i \in DOMAIN sorted :
       \/ sorted[i].len = -1
       \/ sorted[i].len >= 1 /\ sorted[i].off + sorted[i].len <= query.len
  /\ queryLoc <= query.len
  /\ WrittenAsNumbers => normLoc <= Copied + Len(out) * Slack

LEMMA BufferInit == Init => BufferInv
<1> SUFFICES ASSUME Init PROVE BufferInv
  OBVIOUS
<1>1. query.len \in Nat
  BY QueriesAssumption DEF Init
<1>2. IsFiniteSet({}) /\ Cardinality({}) = 0
  BY FS_EmptySet
<1>3. Len(out) = 0 /\ Len(sorted) = 0 /\ Len(clocs) = 0
  BY EmptySeq DEF Init
<1> QED
  BY <1>1, <1>2, <1>3, NormalizeAssumption DEF Init, BufferInv, Copied

LEMMA BufferStep ==
  ASSUME TypeInv, BufferInv, [Next]_vars
  PROVE  BufferInv'
<1> DEFINE Walked == VisitConst \/ VisitParamRef \/ VisitDefElem \/ VisitSubscription
              \/ EnterSelect \/ LeaveSelect \/ EnterTarget \/ LeaveTarget
              \/ EnterGroupItem \/ LeaveGroupItem
<1>a. /\ phase \in {"walk", "lengths", "text", "done"}
      /\ query \in Queries /\ clocs \in Seq(Clocation)
      /\ left \subseteq DOMAIN clocs
      /\ sorted \in Seq(Replacement) /\ out \in Seq(Replacement)
      /\ queryLoc \in Nat /\ normLoc \in Int
  BY DEF TypeInv, TypeOK, Clocation
<1>d. extern \in 0 .. MaxInt
  BY DEF TypeInv, TypeOK
<1>b. /\ Len(clocs) \in Nat /\ Len(sorted) \in Nat /\ Len(out) \in Nat
      /\ DOMAIN clocs = 1 .. Len(clocs) /\ query.len \in Nat /\ Slack \in Nat
  BY <1>a, LenProperties, QueriesAssumption, NormalizeAssumption
<1>c. Cardinality(left) \in Nat
  BY FS_CardinalityType DEF BufferInv
<1>1. CASE Walked
  <2>1. Len(clocs') \in Nat /\ Len(clocs') >= Len(clocs)
    <3>1. CASE VisitConst \/ VisitDefElem \/ VisitSubscription
      BY <3>1, ConstantRecorded, LenProperties
    <3>2. CASE LeaveGroupItem
      BY <1>b, <3>2, ItemLeft
    <3>3. CASE \/ VisitParamRef \/ EnterSelect \/ LeaveSelect
               \/ EnterTarget \/ LeaveTarget \/ EnterGroupItem
      BY <1>b, <3>3 DEF VisitParamRef, EnterSelect, LeaveSelect, EnterTarget,
                        LeaveTarget, EnterGroupItem
    <3> QED
      BY <1>1, <3>1, <3>2, <3>3
  <2>2. phase = "walk" /\ phase' = phase /\ UNCHANGED <<query, lengthVars, textVars>>
    BY <1>1 DEF VisitConst, VisitParamRef, VisitDefElem, VisitSubscription,
                EnterSelect, LeaveSelect, EnterTarget, LeaveTarget,
                EnterGroupItem, LeaveGroupItem, InSelect, Visit
  <2> QED
    BY <1>b, <1>c, <2>1, <2>2
    DEF BufferInv, Copied, WrittenAsNumbers, lengthVars, textVars
<1>2. CASE EndWalk
  <2>1. IsFiniteSet(left') /\ Cardinality(left') = Len(clocs)
    <3>1. left' = 1 .. Len(clocs)
      BY <1>2, <1>b DEF EndWalk
    <3>2. \A n \in Nat : /\ IsFiniteSet(1 .. n)
                         /\ Cardinality(1 .. n) = IF 1 > n THEN 0 ELSE n - 1 + 1
      BY FS_Interval
    <3>3. \A n \in Nat : IsFiniteSet(1 .. n) /\ Cardinality(1 .. n) = n
      BY <3>2
    <3> QED
      BY <1>b, <3>1, <3>3
  <2>2. Len(out) = 0 /\ Len(sorted) = 0
    BY <1>2, EmptySeq DEF EndWalk, BufferInv
  <2> QED
    BY <1>2, <1>b, <2>1, <2>2
    DEF EndWalk, BufferInv, Copied, WrittenAsNumbers, walkVars, textVars
<1>3. CASE FillLength
  <2>1. PICK r \in left, len \in Int :
          /\ sorted' = Append(sorted, [off |-> clocs[r].location, len |-> len,
                                       param |-> clocs[r].param])
          /\ left' = left \ {r} /\ clocs[r] \in Clocation
          /\ len = -1 \/ (len >= 1 /\ clocs[r].location + len <= query.len)
    BY <1>3, LengthFilled
  <2> DEFINE c == [off |-> clocs[r].location, len |-> len, param |-> clocs[r].param]
  <2>2. c \in Replacement
    BY <2>1 DEF Clocation, Replacement
  <2> HIDE DEF c
  <2>3. /\ Len(sorted') = Len(sorted) + 1
        /\ \A i \in 1 .. Len(sorted) : sorted'[i] = sorted[i]
        /\ sorted'[Len(sorted) + 1] = c
        /\ DOMAIN sorted' = 1 .. Len(sorted) + 1 /\ DOMAIN sorted = 1 .. Len(sorted)
    BY <1>a, <2>1, <2>2, AppendProperties, LenProperties DEF c
  <2>4. IsFiniteSet(left') /\ Cardinality(left') = Cardinality(left) - 1
    BY <2>1, FS_RemoveElement DEF BufferInv
  <2>5. c.len = -1 \/ (c.len >= 1 /\ c.off + c.len <= query.len)
    BY <2>1 DEF c
  <2>6. \A i \in DOMAIN sorted' :
          \/ sorted'[i].len = -1
          \/ sorted'[i].len >= 1 /\ sorted'[i].off + sorted'[i].len <= query.len
    BY <1>b, <2>3, <2>5 DEF BufferInv
  <2>7. phase = "lengths" /\ phase' = phase /\ UNCHANGED <<query, clocs, textVars>>
    BY <1>3 DEF FillLength, walkVars
  <2> QED
    BY <1>b, <1>c, <2>3, <2>4, <2>6, <2>7
    DEF BufferInv, Copied, WrittenAsNumbers, textVars
<1>4. CASE EndLengths
  BY <1>4, <1>b, FS_EmptySet
  DEF EndLengths, BufferInv, Copied, WrittenAsNumbers, walkVars, lengthVars, textVars
<1>5. CASE WriteParam
  <2> DEFINE c == Head(sorted)
             bytes == Width(Final(c.param))
             written == [off |-> c.off, len |-> c.len, param |-> Final(c.param)]
  <2>1. c \in Replacement /\ sorted # <<>> /\ c = sorted[1]
    BY <1>5, <1>a, HeadTailProperties DEF WriteParam
  <2>2. Tail(sorted) \in Seq(Replacement) /\ Len(Tail(sorted)) = Len(sorted) - 1
          /\ \A i \in 1 .. Len(sorted) - 1 : Tail(sorted)[i] = sorted[i + 1]
    BY <1>a, <2>1, HeadTailProperties
  <2>3. c.off \in Nat /\ c.len \in Int /\ Final(c.param) \in Int
    BY <1>d, <2>1, WidthIsNat DEF Replacement
  <2>4. written \in Replacement
    BY <2>3 DEF Replacement
  <2>5. c.len = -1 \/ (c.len >= 1 /\ c.off + c.len <= query.len)
    BY <1>b, <2>1 DEF BufferInv
  <2>6. \A i \in DOMAIN sorted' :
          \/ sorted'[i].len = -1
          \/ sorted'[i].len >= 1 /\ sorted'[i].off + sorted'[i].len <= query.len
    <3>1. sorted' = Tail(sorted)
      BY <1>5 DEF WriteParam
    <3>2. \A i \in DOMAIN sorted' : /\ i \in 1 .. Len(sorted) - 1
                                    /\ i + 1 \in DOMAIN sorted
      BY <1>a, <1>b, <2>2, <3>1, LenProperties
    <3> QED
      BY <2>2, <3>1, <3>2 DEF BufferInv
  <2>7. phase = "text" /\ phase' = phase /\ sorted' = Tail(sorted)
          /\ UNCHANGED <<query, clocs, left>>
    BY <1>5 DEF WriteParam, walkVars
  <2>8. \/ UNCHANGED textVars
        \/ /\ c.len >= 0
           /\ queryLoc' = c.off + c.len
           /\ normLoc' = normLoc + (c.off - queryLoc) + bytes
           /\ out' = Append(out, written)
    BY <1>5, <2>3 DEF WriteParam, textVars
  <2>9. CASE UNCHANGED textVars
    BY <1>b, <1>c, <2>2, <2>6, <2>7, <2>9
    DEF BufferInv, Copied, WrittenAsNumbers, textVars
  <2>10. CASE /\ c.len >= 0
              /\ queryLoc' = c.off + c.len
              /\ normLoc' = normLoc + (c.off - queryLoc) + bytes
              /\ out' = Append(out, written)
    <3>1. /\ Len(out') = Len(out) + 1
          /\ \A i \in 1 .. Len(out) : out'[i] = out[i]
          /\ out'[Len(out) + 1] = written
          /\ DOMAIN out' = 1 .. Len(out) + 1 /\ DOMAIN out = 1 .. Len(out)
      BY <1>a, <2>4, <2>10, AppendProperties, LenProperties
    <3>2. WrittenAsNumbers' =>
            WrittenAsNumbers /\ bytes \in 1 .. Slack + 1
      <4> SUFFICES ASSUME WrittenAsNumbers'
                   PROVE  WrittenAsNumbers /\ bytes \in 1 .. Slack + 1
        OBVIOUS
      <4>1. \A i \in 1 .. Len(out) + 1 : out'[i].param \in 1 .. MaxInt
        BY <3>1 DEF WrittenAsNumbers
      <4>2. WrittenAsNumbers
        BY <1>b, <3>1, <4>1 DEF WrittenAsNumbers
      <4>3. Final(c.param) \in 1 .. MaxInt
        BY <1>b, <3>1, <4>1
      <4> QED
        BY <4>2, <4>3, NormalizeAssumption
    <3>3. WrittenAsNumbers => normLoc <= queryLoc + Len(out) * Slack
      BY <2>7 DEF BufferInv, Copied
    <3>4. c.len >= 1 /\ c.off + c.len <= query.len
      BY <2>3, <2>5, <2>10
    <3>5. Len(out') * Slack = Len(out) * Slack + Slack /\ Len(out) * Slack \in Nat
      BY <1>b, <3>1
    <3> HIDE DEF c, bytes, written
    <3>6. WrittenAsNumbers' => normLoc' <= queryLoc' + Len(out') * Slack
      <4> SUFFICES ASSUME WrittenAsNumbers'
                   PROVE  normLoc' <= queryLoc' + Len(out') * Slack
        OBVIOUS
      <4> DEFINE before == Len(out) * Slack
                 after == Len(out') * Slack
      <4>1. /\ normLoc <= queryLoc + before /\ bytes \in 1 .. Slack + 1
            /\ after = before + Slack /\ before \in Nat
        BY <3>2, <3>3, <3>5
      <4> HIDE DEF before, after
      <4>2. /\ queryLoc \in Nat /\ normLoc \in Int /\ Slack \in Nat
            /\ c.off \in Nat /\ c.len \in Int
        BY <1>a, <1>b, <2>3
      <4>3. normLoc' = normLoc + (c.off - queryLoc) + bytes /\ queryLoc' = c.off + c.len
        BY <2>10
      <4>4. normLoc' <= queryLoc' + after
        BY <3>4, <4>1, <4>2, <4>3
      <4> QED
        BY <4>4 DEF after
    <3> QED
      BY <1>b, <1>c, <2>2, <2>3, <2>6, <2>7, <2>10, <3>1, <3>4, <3>6
      DEF BufferInv, Copied
  <2> QED
    BY <2>8, <2>9, <2>10
<1>6. CASE WriteRest
  <2>1. phase = "text" /\ phase' = "done" /\ UNCHANGED <<query, clocs, left, sorted, queryLoc, out>>
          /\ normLoc' = normLoc + (query.len - queryLoc)
    BY <1>6 DEF WriteRest, walkVars, lengthVars
  <2>2. Len(out) * Slack \in Nat
    BY <1>b
  <2>3. WrittenAsNumbers' => WrittenAsNumbers
    BY <2>1 DEF WrittenAsNumbers
  <2>4. WrittenAsNumbers => normLoc <= queryLoc + Len(out) * Slack
    BY <2>1 DEF BufferInv, Copied
  <2>5. WrittenAsNumbers => normLoc' <= query.len + Len(out) * Slack
    BY <1>a, <1>b, <2>1, <2>2, <2>4
  <2> QED
    BY <1>b, <2>1, <2>3, <2>5 DEF BufferInv, Copied
<1>7. CASE UNCHANGED vars
  BY <1>7 DEF vars, walkVars, lengthVars, textVars, BufferInv, Copied, WrittenAsNumbers
<1> QED
  BY <1>1, <1>2, <1>3, <1>4, <1>5, <1>6, <1>7 DEF Next

LEMMA BufferInvSuffices ==
  ASSUME TypeInv, BufferInv
  PROVE  WrittenAsNumbers => WithinBuffer
<1>1. /\ normLoc \in Int /\ queryLoc \in Nat /\ query.len \in Nat
      /\ Len(out) \in Nat /\ Len(sorted) \in Nat /\ Len(clocs) \in Nat
      /\ Slack \in Nat
  BY LenProperties, QueriesAssumption, NormalizeAssumption DEF TypeInv, TypeOK
<1>2. Len(out) <= Len(clocs)
  <2>1. Cardinality(left) \in Nat
    BY FS_CardinalityType DEF BufferInv
  <2> QED
    BY <1>1, <2>1 DEF BufferInv
<1>3. \A a, b, c \in Nat : a <= b => a * c <= b * c
  OBVIOUS
<1>4. /\ Len(out) * Slack <= Len(clocs) * Slack
      /\ Len(out) * Slack \in Nat /\ Len(clocs) * Slack \in Nat
  BY <1>1, <1>2, <1>3
<1>5. Copied \in Nat /\ Copied <= query.len
  BY <1>1 DEF Copied, BufferInv
<1>6. WrittenAsNumbers => normLoc <= Copied + Len(out) * Slack
  BY DEF BufferInv
<1> QED
  BY <1>1, <1>4, <1>5, <1>6 DEF WithinBuffer, BufferLength

(* As long as the numbers written are positive ints, the text written fits *)
(* the buffer palloc'ed for it, whatever the statement and its constants:  *)
(* the assertion of pg_query_normalize.c:299.                              *)
THEOREM BufferLargeEnough == Spec => [](WrittenAsNumbers => WithinBuffer)
<1>1. Init => TypeInv /\ BufferInv
  BY TypeInit, BufferInit
<1>2. TypeInv /\ BufferInv /\ [Next]_vars => (TypeInv /\ BufferInv)'
  BY TypeStep, BufferStep
<1>3. TypeInv /\ BufferInv => (WrittenAsNumbers => WithinBuffer)
  BY BufferInvSuffices
<1> QED
  BY <1>1, <1>2, <1>3, PTL DEF Spec

-----------------------------------------------------------------------------
(* The numbers of the parameters. *)

(* int arithmetic leaves an int alone and makes what is past INT_MAX       *)
(* negative.                                                               *)
LEMMA WrapOnce ==
  ASSUME NEW n \in 0 .. 2 * MaxInt
  PROVE  Wrap(n) = n \/ Wrap(n) < 0
<1> DEFINE w == 2 * (MaxInt + 1)
           y == n + MaxInt + 1
<1>1. w \in Nat \ {0} /\ y \in Nat /\ MaxInt \in Nat
  BY NormalizeAssumption
<1>2. CASE y < w
  <2>1. y % w = y
    BY <1>1, <1>2
  <2> QED
    BY <1>1, <2>1 DEF Wrap
<1>3. CASE y >= w
  <2>1. y - w \in 0 .. w - 1
    BY <1>1, <1>3
  <2>2. y % w = y - w
    <3> HIDE DEF y, w
    <3> QED
      BY <1>1, <2>1
  <2> QED
    BY <1>1, <2>2 DEF Wrap
<1> QED
  BY <1>1, <1>2, <1>3

LEMMA IntIsKept ==
  ASSUME NEW n \in 1 .. MaxInt
  PROVE  Wrap(n) = n
<1>1. n \in 0 .. 2 * MaxInt /\ MaxInt \in Nat
  BY NormalizeAssumption
<1>2. (n + MaxInt + 1) % (2 * (MaxInt + 1)) = n + MaxInt + 1
  BY <1>1
<1> QED
  BY <1>1, <1>2 DEF Wrap

-----------------------------------------------------------------------------
(* The walk only moves numbers: it records the next one, keeps those that  *)
(* it meets with a target and takes them from there.  What it has so far   *)
(* of numbers is in S.                                                     *)
NumberedClocation(S) == [location : Nat, param : S]
NumberedTarget(S) == [fp : Prints, ids : Seq(S)]
NumberedSelect(S) == [list : Seq(NumberedTarget(S)), prev : Nat, match : Seq(Seq(S))]

NumbersIn(S) ==
  /\ clocs \in Seq(NumberedClocation(S))
  /\ refs.ids \in Seq(S)
  /\ selects \in Seq(NumberedSelect(S))

(* What Visit says of the places in the walk. *)
LEMMA Visited ==
  ASSUME TypeInv, NEW op, Visit(op)
  PROVE  /\ pos \in DOMAIN query.walk /\ pos \in Nat \ {0} /\ Len(query.walk) \in Nat
         /\ DOMAIN query.walk = 1 .. Len(query.walk)
         /\ pos' = pos + 1 /\ pos' <= Len(query.walk) + 1
         /\ query' = query /\ phase' = "walk" /\ query.walk[pos] = Step /\ Step.op = op
BY QueriesAssumption DEF TypeInv, TypeOK, Visit, Step

(* A new constant gets the next number. *)
LEMMA NumberRecorded ==
  ASSUME TypeInv, NEW S, NumbersIn(S), -high \in S, VisitConst \/ VisitDefElem \/ VisitSubscription
  PROVE  /\ clocs' \in Seq(NumberedClocation(S)) /\ refs'.ids \in Seq(S)
         /\ high' \in {high, high + 1}
<1>1. PICK op \in {"const", "defelem", "matching"} : Visit(op)
  BY DEF VisitConst, VisitDefElem, VisitSubscription
<1>2. query.walk[pos].op \in {"const", "defelem", "matching"} /\ query \in Queries
  BY <1>1, Visited DEF TypeInv
<1>3. Step.n \in Int /\ query.quotes \subseteq Nat
  BY <1>1, <1>2, Visited, QueriesAssumption
<1>4. PICK loc \in Int : Record(loc)
  BY <1>3 DEF VisitConst, VisitDefElem, VisitSubscription
<1>5. high \in Int /\ refs \in [on : BOOLEAN, ids : Seq(Int)]
      /\ clocs \in Seq(NumberedClocation(S)) /\ refs.ids \in Seq(S)
  BY DEF NumbersIn, TypeInv, TypeOK
<1>7. CASE loc >= 0
  <2>1. [location |-> loc, param |-> -high] \in NumberedClocation(S)
    BY <1>7 DEF NumberedClocation
  <2>1a. clocs' = Append(clocs, [location |-> loc, param |-> -high]) /\ high' = high + 1
    BY <1>4, <1>7 DEF Record
  <2>2. clocs' \in Seq(NumberedClocation(S))
    BY <1>5, <2>1, <2>1a, AppendProperties
  <2>3. Append(refs.ids, -high) \in Seq(S)
    BY <1>5, AppendProperties
  <2>4. refs'.ids \in Seq(S)
    BY <1>4, <1>5, <1>7, <2>3 DEF Record
  <2> QED
    BY <1>1, <1>5, <2>1a, <2>2, <2>4, Visited
<1>8. CASE ~(loc >= 0)
  BY <1>1, <1>4, <1>5, <1>8, Visited DEF Record
<1> QED
  BY <1>7, <1>8

(* The constants of a GROUP BY item get the numbers of its target. *)
LEMMA NumbersGiven ==
  ASSUME TypeInv, NEW S, NumbersIn(S), LeaveGroupItem
  PROVE  clocs' \in Seq(NumberedClocation(S)) /\ high' <= high
<1> DEFINE prev == Frame.prev
           ids == Frame.match[1]
           given == [i \in DOMAIN clocs |->
                       IF i <= prev THEN clocs[i]
                       ELSE [clocs[i] EXCEPT !.param = ids[i - prev]]]
<1> HIDE DEF prev, ids, given
<1>1. /\ clocs \in Seq(NumberedClocation(S)) /\ selects \in Seq(NumberedSelect(S)) /\ high \in Int
      /\ DOMAIN clocs = 1 .. Len(clocs) /\ Len(clocs) \in Nat
  BY LenProperties DEF NumbersIn, TypeInv, TypeOK
<1>2. Frame \in NumberedSelect(S)
  <2>1. Len(selects) \in Nat /\ Len(selects) # 0
    BY <1>1, EmptySeq, LenProperties DEF LeaveGroupItem, InSelect
  <2> QED
    BY <1>1, <2>1, ElementOfSeq DEF Frame, Last
<1>3. CASE Frame.match # <<>> /\ Len(ids) = Len(clocs) - prev
  <2>1. prev \in Nat /\ ids \in Seq(S)
    <3>1. Frame.match \in Seq(Seq(S)) /\ prev \in Nat
      BY <1>2 DEF NumberedSelect, prev
    <3>2. 1 \in 1 .. Len(Frame.match)
      BY <1>3, <3>1, EmptySeq, LenProperties
    <3> QED
      BY <3>1, <3>2, ElementOfSeq DEF ids
  <2>2. given \in [DOMAIN clocs -> NumberedClocation(S)]
    <3> SUFFICES ASSUME NEW i \in DOMAIN clocs
                 PROVE  given[i] \in NumberedClocation(S)
      BY DEF given
    <3>1. clocs[i] \in NumberedClocation(S) /\ i \in 1 .. Len(clocs)
      BY <1>1, ElementOfSeq
    <3>2. CASE i <= prev
      BY <3>1, <3>2 DEF given
    <3>3. CASE ~(i <= prev)
      <4>1. i - prev \in 1 .. Len(ids)
        BY <1>1, <1>3, <2>1, <3>1, <3>3
      <4>2. ids[i - prev] \in S
        BY <2>1, <4>1, ElementOfSeq
      <4> QED
        BY <3>1, <3>3, <4>2 DEF NumberedClocation, given
    <3> QED
      BY <3>2, <3>3
  <2>3. given \in Seq(NumberedClocation(S))
    BY <1>1, <2>2, MappedSequence
  <2>4. clocs' = given /\ high' = high - Len(ids) /\ Len(ids) \in Nat
    BY <1>3, <2>1, LenProperties DEF LeaveGroupItem, given, ids, prev
  <2> QED
    BY <1>1, <2>3, <2>4
<1>4. CASE ~(Frame.match # <<>> /\ Len(ids) = Len(clocs) - prev)
  BY <1>1, <1>4 DEF LeaveGroupItem, ids, prev
<1> QED
  BY <1>3, <1>4

(* No step brings in other numbers. *)
LEMMA NumbersMoved ==
  ASSUME TypeInv, NEW S, NumbersIn(S), -high \in S,
         \A j \in DOMAIN query.walk : query.walk[j].op = "param" => query.walk[j].n \in S,
         [Next]_vars
  PROVE  NumbersIn(S)'
<1> DEFINE Numbers == /\ clocs' \in Seq(NumberedClocation(S))
                      /\ refs'.ids \in Seq(S)
                      /\ selects' \in Seq(NumberedSelect(S))
<1>a. /\ query \in Queries /\ Len(clocs) \in Nat
      /\ refs \in [on : BOOLEAN, ids : Seq(Int)]
      /\ clocs \in Seq(NumberedClocation(S)) /\ refs.ids \in Seq(S)
      /\ selects \in Seq(NumberedSelect(S))
  BY LenProperties DEF NumbersIn, TypeInv, TypeOK
<1>b. query' = query
  BY DEF Next, VisitConst, VisitParamRef, VisitDefElem, VisitSubscription, EnterSelect,
         LeaveSelect, EnterTarget, LeaveTarget, EnterGroupItem, LeaveGroupItem, EndWalk,
         FillLength, EndLengths, WriteParam, WriteRest, InSelect, Visit, vars
<1>c. SUFFICES Numbers
  BY <1>b DEF NumbersIn, NumberedSelect, NumberedTarget, NumberedClocation, Prints
<1>2. ASSUME NEW op, InSelect(op)
      PROVE  /\ Visit(op) /\ Len(selects) \in Nat \ {0}
             /\ Frame \in NumberedSelect(S) /\ Len(selects) \in 1 .. Len(selects)
  <2>1. Len(selects) \in Nat /\ Len(selects) # 0
    BY <1>2, <1>a, EmptySeq, LenProperties DEF InSelect
  <2> QED
    BY <1>2, <1>a, <2>1, ElementOfSeq DEF InSelect, Frame, Last
<1>3. CASE VisitConst \/ VisitDefElem \/ VisitSubscription
  BY <1>a, <1>3, NumberRecorded DEF VisitConst, VisitDefElem, VisitSubscription
<1>4. CASE VisitParamRef
  <2>1. Visit("param") /\ UNCHANGED <<clocs, high, selects>>
    BY <1>4 DEF VisitParamRef
  <2>2. query.walk[pos] = Step /\ Step.op = "param" /\ pos \in DOMAIN query.walk
    BY <2>1, Visited
  <2>3. Append(refs.ids, Step.n) \in Seq(S)
    BY <1>a, <2>2, AppendProperties
  <2>4. refs'.ids \in Seq(S)
    BY <1>4, <1>a, <2>3 DEF VisitParamRef
  <2> QED
    BY <1>a, <2>1, <2>4
<1>5. CASE EnterSelect
  <2> DEFINE frame == [list |-> <<>>, prev |-> 0, match |-> <<>>]
  <2>1. frame \in NumberedSelect(S)
    BY EmptySeq DEF NumberedSelect
  <2>2. selects' \in Seq(NumberedSelect(S))
    BY <1>5, <1>a, <2>1, AppendProperties DEF EnterSelect
  <2> QED
    BY <1>5, <1>a, <2>2 DEF EnterSelect
<1>6. CASE LeaveSelect
  <2>1. Len(selects) \in Nat \ {0} /\ Visit("select_end")
    BY <1>6, <1>2 DEF LeaveSelect
  <2>2. SubSeq(selects, 1, Len(selects) - 1) \in Seq(NumberedSelect(S))
    BY <1>a, <2>1, SubSeqProperties, LenProperties
  <2>3. selects' \in Seq(NumberedSelect(S))
    BY <1>6, <2>2 DEF LeaveSelect, Front
  <2> QED
    BY <1>6, <1>a, <2>1, <2>3 DEF LeaveSelect
<1>7. CASE EnterTarget
  <2>1. Visit("target") /\ <<>> \in Seq(S)
    BY <1>7, <1>2, EmptySeq DEF EnterTarget
  <2> QED
    BY <1>7, <1>a, <2>1 DEF EnterTarget
<1>8. CASE LeaveTarget
  <2> DEFINE target == [fp |-> Step.fp, ids |-> refs.ids]
             frame == [Frame EXCEPT !.list = Append(@, target)]
  <2>1. Visit("target_end") /\ Frame \in NumberedSelect(S) /\ Len(selects) \in 1 .. Len(selects)
    BY <1>8, <1>2 DEF LeaveTarget
  <2>2. target \in NumberedTarget(S)
    BY <1>a, <2>1, Visited DEF NumberedTarget, Prints
  <2>3. Append(Frame.list, target) \in Seq(NumberedTarget(S))
    BY <2>1, <2>2, AppendProperties DEF NumberedSelect
  <2>4. frame \in NumberedSelect(S)
    BY <2>1, <2>3 DEF NumberedSelect
  <2>5. selects' = [selects EXCEPT ![Len(selects)] = frame]
    BY <1>8 DEF LeaveTarget, Frame, Last
  <2>6. selects' \in Seq(NumberedSelect(S))
    BY <1>a, <2>1, <2>4, <2>5, ExceptSeq
  <2>7. NoRefs.ids \in Seq(S)
    BY EmptySeq DEF NoRefs
  <2> QED
    BY <1>8, <1>a, <2>1, <2>6, <2>7 DEF LeaveTarget
<1>9. CASE EnterGroupItem
  <2> DEFINE frame(list, match) == [list |-> list, prev |-> Len(clocs), match |-> match]
  <2>1. Visit("group") /\ Frame \in NumberedSelect(S) /\ Len(selects) \in 1 .. Len(selects)
    BY <1>9, <1>2 DEF EnterGroupItem
  <2>2. PICK list \in Seq(NumberedTarget(S)), match \in Seq(Seq(S)) : Matching(list, match)
    <3>1. Frame.list \in Seq(NumberedTarget(S)) /\ <<>> \in Seq(Seq(S))
      BY <2>1, EmptySeq DEF NumberedSelect
    <3>2. ASSUME NEW m \in DOMAIN Frame.list
          PROVE  RemoveAt(Frame.list, m) \in Seq(NumberedTarget(S))
                   /\ <<Frame.list[m].ids>> \in Seq(Seq(S))
      <4>1. Frame.list[m] \in NumberedTarget(S)
        BY <3>1, <3>2, ElementOfSeq, LenProperties
      <4>2. Frame.list[m].ids \in Seq(S)
        BY <4>1 DEF NumberedTarget
      <4> QED
        BY <3>1, <3>2, <4>2, WithoutType
    <3> QED
      BY <1>9, <3>1, <3>2 DEF EnterGroupItem
  <2>3. frame(list, match) \in NumberedSelect(S)
    BY <1>a DEF NumberedSelect
  <2>4. selects' \in Seq(NumberedSelect(S))
    BY <1>a, <2>1, <2>2, <2>3, ExceptSeq DEF Matching
  <2>5. UNCHANGED <<clocs, high, extern, refs>>
    BY <1>9 DEF EnterGroupItem
  <2> QED
    BY <1>a, <2>4, <2>5
<1>10. CASE LeaveGroupItem
  <2>1. UNCHANGED <<refs, selects>>
    BY <1>10 DEF LeaveGroupItem
  <2> QED
    BY <1>10, <1>a, <2>1, NumbersGiven
<1>11. CASE \/ EndWalk \/ FillLength \/ EndLengths \/ WriteParam \/ WriteRest
            \/ UNCHANGED vars
  <2>1. UNCHANGED walkVars
    BY <1>11 DEF EndWalk, FillLength, EndLengths, WriteParam, WriteRest, vars
  <2> QED
    BY <1>a, <2>1 DEF walkVars
<1> QED
  BY <1>3, <1>4, <1>5, <1>6, <1>7, <1>8, <1>9, <1>10, <1>11 DEF Next

-----------------------------------------------------------------------------
(* The inductive invariant: every number that was recorded, kept for a     *)
(* target or taken from one is one of the query's or counts a step of the  *)
(* walk, and extern is no less than the numbers of the parameters met.     *)
Ids == {n \in Int : n >= -Len(query.walk)}

NumbersInv ==
  /\ TypeInv
  /\ high <= pos /\ pos <= Len(query.walk) + 1
  /\ phase # "walk" => pos = Len(query.walk) + 1
  /\ NumbersIn(Ids)
  /\ \A j \in DOMAIN query.walk :
       j < pos /\ query.walk[j].op = "param" => query.walk[j].n <= extern

LEMMA NumbersInit == Init => NumbersInv
<1> SUFFICES ASSUME Init PROVE NumbersInv
  OBVIOUS
<1>1. TypeInv
  BY TypeInit
<1>2. \A S : <<>> \in Seq(S)
  BY EmptySeq
<1>3. Len(query.walk) \in Nat /\ DOMAIN query.walk = 1 .. Len(query.walk)
  BY QueriesAssumption DEF Init
<1> QED
  BY <1>1, <1>2, <1>3 DEF Init, NoRefs, NumbersInv, NumbersIn

LEMMA NumbersStep ==
  ASSUME NumbersInv, [Next]_vars
  PROVE  NumbersInv'
<1> DEFINE Places == /\ high' <= pos' /\ pos' <= Len(query.walk) + 1
                     /\ phase' # "walk" => pos' = Len(query.walk) + 1
           Seen == \A j \in DOMAIN query.walk :
                     j < pos' /\ query.walk[j].op = "param" => query.walk[j].n <= extern'
<1>a. /\ TypeInv /\ query \in Queries /\ pos \in Nat /\ pos # 0 /\ high \in Int
      /\ extern \in 0 .. MaxInt
      /\ high <= pos /\ pos <= Len(query.walk) + 1
      /\ phase # "walk" => pos = Len(query.walk) + 1
      /\ NumbersIn(Ids)
  BY DEF NumbersInv, TypeInv, TypeOK
<1>b. Len(query.walk) \in Nat /\ DOMAIN query.walk = 1 .. Len(query.walk)
  BY <1>a, QueriesAssumption
<1>c. TypeInv'
  BY <1>a, TypeStep
<1>d. high' \in Int /\ extern' \in Int
  BY <1>c DEF TypeInv, TypeOK
<1>e. SUFFICES query' = query /\ Places /\ Seen /\ NumbersIn(Ids)'
  BY <1>c DEF NumbersInv
<1>1. ASSUME NEW op, Visit(op), high' <= high + 1
      PROVE  /\ query' = query /\ Places
             /\ pos' = pos + 1
             /\ op # "param" /\ extern' = extern => Seen
  BY <1>a, <1>b, <1>d, <1>1, Visited DEF NumbersInv
<1>2. query' = query /\ Places /\ Seen
  <2>1. CASE VisitConst \/ VisitDefElem \/ VisitSubscription
    <3>1. high' <= high + 1
      <4>1. PICK op : Visit(op)
        BY <2>1 DEF VisitConst, VisitDefElem, VisitSubscription
      <4>2. -high \in Ids
        BY <1>a, <4>1, Visited DEF Ids
      <4> QED
        BY <1>a, <2>1, <4>2, NumberRecorded
    <3> QED
      BY <1>1, <2>1, <3>1 DEF VisitConst, VisitDefElem, VisitSubscription
  <2>2. CASE VisitParamRef
    <3>1. Visit("param") /\ high' = high
      BY <2>2 DEF VisitParamRef
    <3>2. query.walk[pos] = Step /\ Step.op = "param" /\ pos \in DOMAIN query.walk
      BY <1>a, <3>1, Visited
    <3>3. Step.n \in 0 .. MaxInt
      BY <1>a, <3>2, QueriesAssumption
    <3>4. extern' >= extern /\ extern' >= Step.n
      BY <2>2, <1>a, <3>3 DEF VisitParamRef
    <3>5. query' = query /\ Places /\ pos' = pos + 1
      BY <1>1, <1>a, <3>1
    <3>6. Seen
      <4> SUFFICES ASSUME NEW j \in DOMAIN query.walk, j < pos', query.walk[j].op = "param"
                   PROVE  query.walk[j].n <= extern'
        OBVIOUS
      <4>1. query.walk[j].n \in Int
        BY <1>a, QueriesAssumption
      <4>2. CASE j = pos
        BY <3>2, <3>4, <4>2
      <4>3. CASE j < pos
        BY <1>a, <1>d, <3>4, <4>1, <4>3 DEF NumbersInv
      <4> QED
        BY <1>a, <1>b, <3>5, <4>2, <4>3
    <3> QED
      BY <3>5, <3>6
  <2>3. CASE \/ EnterSelect \/ LeaveSelect \/ EnterTarget \/ LeaveTarget \/ EnterGroupItem
    <3>1. high' = high /\ extern' = extern
      BY <2>3 DEF EnterSelect, LeaveSelect, EnterTarget, LeaveTarget, EnterGroupItem
    <3>2. \E op \in {"select", "select_end", "target", "target_end", "group"} : Visit(op)
      BY <2>3 DEF EnterSelect, LeaveSelect, EnterTarget, LeaveTarget, EnterGroupItem, InSelect
    <3> QED
      BY <1>1, <1>a, <3>1, <3>2
  <2>4. CASE LeaveGroupItem
    <3>1. high' <= high
      BY <1>a, <2>4, NumbersGiven
    <3>2. Visit("group_end") /\ extern' = extern
      BY <2>4 DEF LeaveGroupItem, InSelect
    <3> QED
      BY <1>1, <1>a, <1>d, <3>1, <3>2
  <2>5. CASE EndWalk
    BY <2>5, <1>a, <1>b DEF EndWalk, walkVars, NumbersInv
  <2>6. CASE FillLength \/ EndLengths \/ WriteParam \/ WriteRest
    <3>1. UNCHANGED <<query, pos, walkVars>> /\ phase # "walk"
      BY <2>6 DEF FillLength, EndLengths, WriteParam, WriteRest
    <3> QED
      BY <1>a, <3>1 DEF walkVars, NumbersInv
  <2>7. CASE UNCHANGED vars
    BY <2>7, <1>a DEF vars, walkVars, NumbersInv
  <2> QED
    BY <2>1, <2>2, <2>3, <2>4, <2>5, <2>6, <2>7 DEF Next
<1>3. NumbersIn(Ids)'
  <2>1. Ids' = Ids
    BY <1>2 DEF Ids
  <2>2. \A j \in DOMAIN query.walk : query.walk[j].op = "param" => query.walk[j].n \in Ids
    BY <1>a, <1>b, QueriesAssumption, NormalizeAssumption DEF Ids
  <2>3. CASE phase = "walk" /\ pos <= Len(query.walk)
    <3>1. -high \in Ids
      BY <1>a, <1>b, <2>3 DEF Ids
    <3> QED
      BY <1>a, <2>1, <2>2, <3>1, NumbersMoved
  <2>4. CASE ~(phase = "walk" /\ pos <= Len(query.walk))
    <3>1. UNCHANGED walkVars
      BY <2>4 DEF Next, VisitConst, VisitParamRef, VisitDefElem, VisitSubscription,
           EnterSelect, LeaveSelect, EnterTarget, LeaveTarget, EnterGroupItem,
           LeaveGroupItem, EndWalk, FillLength, EndLengths, WriteParam, WriteRest,
           InSelect, Visit, vars
    <3> QED
      BY <1>2, <1>a, <2>1, <3>1
      DEF NumbersIn, NumberedClocation, NumberedSelect, NumberedTarget, Prints, walkVars
  <2> QED
    BY <2>3, <2>4
<1> QED
  BY <1>2, <1>3

(* A new parameter is past the last one of the query, or out of the range  *)
(* of parameters altogether.                                               *)
LEMMA PastTheLast ==
  ASSUME NumbersInv, Len(query.walk) <= MaxInt
  PROVE  NewParametersAreNew
<1> SUFFICES ASSUME NEW i \in DOMAIN clocs, NEW j \in DOMAIN query.walk,
                    phase # "walk", clocs[i].param < 0, query.walk[j].op = "param"
             PROVE  Final(clocs[i].param) # query.walk[j].n
  BY DEF NewParametersAreNew
<1>1. /\ Len(query.walk) \in Nat /\ DOMAIN query.walk = 1 .. Len(query.walk)
      /\ query.walk[j].n \in 0 .. MaxInt /\ MaxInt \in Nat /\ extern \in 0 .. MaxInt
  BY QueriesAssumption, NormalizeAssumption DEF NumbersInv, TypeInv, TypeOK
<1>2. query.walk[j].n <= extern
  BY <1>1 DEF NumbersInv
<1>3. clocs[i].param \in Int /\ clocs[i].param >= -Len(query.walk)
  <2>1. clocs[i] \in NumberedClocation(Ids)
    BY ElementOfSeq, LenProperties DEF NumbersInv, NumbersIn
  <2> QED
    BY <2>1 DEF NumberedClocation, Ids
<1>4. extern - clocs[i].param \in 0 .. 2 * MaxInt /\ extern - clocs[i].param > extern
  BY <1>1, <1>3
<1>5. Final(clocs[i].param) = Wrap(extern - clocs[i].param)
  BY DEF Final
<1>6. Final(clocs[i].param) = extern - clocs[i].param \/ Final(clocs[i].param) < 0
  BY <1>4, <1>5, WrapOnce
<1> QED
  BY <1>1, <1>2, <1>3, <1>4, <1>6

(* A new parameter never has the number of one of the query, wherever in   *)
(* the query that is and whatever was given back or taken from a target,   *)
(* for every query whose walk is no longer than INT_MAX                    *)
(* (pg_query_normalize.c:275).                                             *)
THEOREM NewNumbersAreNew ==
  Spec => [](Len(query.walk) <= MaxInt => NewParametersAreNew)
<1>1. NumbersInv => (Len(query.walk) <= MaxInt => NewParametersAreNew)
  BY PastTheLast
<1> QED
  BY <1>1, NumbersInit, NumbersStep, PTL DEF Spec
-----------------------------------------------------------------------------
(* Dense numbering, for queries whose targets and GROUP BY items hold no   *)
(* sub-select.                                                             *)

Plain == {"const", "param", "defelem", "matching"}
Op(j) == query.walk[j].op
EndOp(op) == IF op = "target" THEN "target_end" ELSE "group_end"

(* Step g starts a target or an item that is not over before step k. *)
OpenAt(g, k) ==
  /\ g \in DOMAIN query.walk /\ g < k
  /\ \A e \in g + 1 .. k - 1 : Op(e) \in Plain

Flat ==
  \A k \in DOMAIN query.walk :
    /\ \A g \in DOMAIN query.walk : OpenAt(g, k) /\ Op(g) \in {"target", "group"} =>
         Op(k) \in Plain \cup {EndOp(Op(g))}
    /\ Op(k) = "group_end" => \E g \in DOMAIN query.walk : OpenAt(g, k) /\ Op(g) = "group"

(* The walk is in a target or an item. *)
In(op) == \E g \in DOMAIN query.walk : OpenAt(g, pos) /\ Op(g) = op

LEMMA InOne ==
  ASSUME NumbersInv, In("target"), In("group") PROVE FALSE
<1>1. PICK g \in DOMAIN query.walk : OpenAt(g, pos) /\ Op(g) = "target"
  BY DEF In
<1>2. PICK h \in DOMAIN query.walk : OpenAt(h, pos) /\ Op(h) = "group"
  BY DEF In
<1>3. g \in Nat /\ h \in Nat /\ pos \in Nat
  BY QueriesAssumption DEF NumbersInv, TypeInv, TypeOK
<1>4. g \in h + 1 .. pos - 1 \/ h \in g + 1 .. pos - 1
  BY <1>1, <1>2, <1>3 DEF OpenAt
<1> QED BY <1>1, <1>2, <1>4 DEF OpenAt, Plain

LEMMA Nested ==
  ASSUME NumbersInv, Flat, NEW op, Visit(op), op \notin Plain
  PROVE  /\ In("target") => op = "target_end"
         /\ In("group") => op = "group_end"
         /\ op = "group_end" => In("group")
BY Visited DEF NumbersInv, Flat, In, Op, EndOp

LEMMA Inside ==
  ASSUME NumbersInv, NEW op, Visit(op), NEW item \in {"target", "group"}
  PROVE  In(item)' <=> op = item \/ (op \in Plain /\ In(item))
<1>1. /\ pos \in DOMAIN query.walk /\ pos \in Nat \ {0} /\ Len(query.walk) \in Nat
      /\ DOMAIN query.walk = 1 .. Len(query.walk)
      /\ pos' = pos + 1 /\ query' = query /\ Op(pos) = op
  BY Visited DEF NumbersInv, Op
<1>2. \A g : OpenAt(g, pos)' <=> OpenAt(g, pos + 1)
  BY <1>1 DEF OpenAt, Op
<1>3. ASSUME NEW g \in DOMAIN query.walk
      PROVE  OpenAt(g, pos + 1) <=> g = pos \/ (OpenAt(g, pos) /\ op \in Plain)
  <2>1. g \in Nat
    BY <1>1
  <2>2. CASE g < pos
    <3>1. g + 1 .. pos + 1 - 1 = (g + 1 .. pos - 1) \cup {pos}
      BY <1>1, <2>1, <2>2
    <3> QED BY <1>1, <2>1, <2>2, <3>1 DEF OpenAt
  <2>3. CASE g = pos
    <3>1. g + 1 .. pos + 1 - 1 = {}
      BY <1>1, <2>3
    <3> QED BY <1>1, <2>3, <3>1 DEF OpenAt
  <2>4. CASE g > pos
    BY <1>1, <2>1, <2>4 DEF OpenAt
  <2> QED BY <1>1, <2>1, <2>2, <2>3, <2>4
<1>4. In(item)' <=> \E g \in DOMAIN query.walk : OpenAt(g, pos + 1) /\ Op(g) = item
  BY <1>1, <1>2 DEF In, Op
<1> QED BY <1>1, <1>3, <1>4 DEF In, Plain

(* Where numbers above -b are: in the query's targets, and elsewhere. *)
Above(b) == {n \in Int : n > -b}
TargetAbove(b) == [fp : Prints, ids : Seq(Above(b))]
SelectAbove(b) == [list : Seq(TargetAbove(b)), prev : Nat, match : Seq(Seq(Int))]

LEMMA SeqGrows ==
  ASSUME NEW S, NEW T, S \subseteq T
  PROVE  Seq(S) \subseteq Seq(T)
OBVIOUS

LEMMA AboveGrows ==
  ASSUME NEW b \in Int, NEW c \in Int, b <= c
  PROVE  /\ Seq(Above(b)) \subseteq Seq(Above(c))
         /\ Seq(SelectAbove(b)) \subseteq Seq(SelectAbove(c))
<1>1. Above(b) \subseteq Above(c)
  BY DEF Above
<1>2. Seq(Above(b)) \subseteq Seq(Above(c))
  BY <1>1, SeqGrows
<1>3. TargetAbove(b) \subseteq TargetAbove(c)
  BY <1>2 DEF TargetAbove
<1>4. Seq(TargetAbove(b)) \subseteq Seq(TargetAbove(c))
  BY <1>3, SeqGrows
<1>5. SelectAbove(b) \subseteq SelectAbove(c)
  BY <1>4 DEF SelectAbove
<1> QED BY <1>2, <1>5, SeqGrows

(* The first constants have the numbers below base, each at least once,    *)
(* and those of the item that is open, if one is, the numbers from base on *)
(* in their order.  No target holds a number that the item may give back.  *)
DenseAt(base, settled) ==
  /\ high = base + (Len(clocs) - settled) /\ settled <= Len(clocs)
  /\ \A i \in 1 .. settled : clocs[i].param > -base
  /\ \A n \in 1 .. base - 1 : \E i \in 1 .. settled : clocs[i].param = -n
  /\ \A i \in settled + 1 .. Len(clocs) : clocs[i].param = -(base + i - settled - 1)
  /\ refs.ids \in Seq(Above(base)) /\ selects \in Seq(SelectAbove(base))
  /\ In("group") => settled = Frame.prev /\ Frame.match \in Seq(Seq(Above(base)))
  /\ ~In("group") => settled = Len(clocs)
  /\ refs.on => In("target")

DenseInv == \E base \in Nat \ {0}, settled \in Nat : DenseAt(base, settled)

LEMMA DenseInit == Init => DenseInv
<1> SUFFICES ASSUME Init PROVE DenseAt(1, 0)
  BY DEF DenseInv
<1>1. Len(clocs) = 0 /\ \A S : <<>> \in Seq(S)
  BY EmptySeq DEF Init
<1>2. ~In("group")
  BY QueriesAssumption DEF Init, In, OpenAt
<1> QED BY <1>1, <1>2 DEF Init, NoRefs, DenseAt

LEMMA DenseRecord ==
  ASSUME NumbersInv, DenseInv, VisitConst \/ VisitDefElem \/ VisitSubscription
  PROVE  DenseInv'
<1>1. PICK op \in {"const", "defelem", "matching"} : Visit(op)
  BY DEF VisitConst, VisitDefElem, VisitSubscription
<1>2. query.walk[pos].op \in {"const", "defelem", "matching"} /\ query \in Queries
  BY <1>1, Visited DEF NumbersInv, TypeInv
<1>3. Step.n \in Int /\ query.quotes \subseteq Nat
  BY <1>1, <1>2, Visited, QueriesAssumption DEF NumbersInv
<1>4. PICK loc \in Int : Record(loc)
  BY <1>3 DEF VisitConst, VisitDefElem, VisitSubscription
<1>5. query' = query /\ selects' = selects /\ Prints' = Prints
  BY <1>1, Visited DEF NumbersInv, VisitConst, VisitDefElem, VisitSubscription, Prints
<1>6. (In("group")' <=> In("group")) /\ (In("target")' <=> In("target"))
  <2>1. op \in Plain /\ op # "target" /\ op # "group"
    BY <1>1 DEF Plain
  <2>2. \A item \in {"target", "group"} : In(item)' <=> In(item)
    BY <1>1, <2>1, Inside
  <2> QED BY <2>2
<1>7. PICK base \in Nat \ {0}, settled \in Nat : DenseAt(base, settled)
  BY DEF DenseInv
<1>8. CASE ~(loc >= 0)
  <2>1. UNCHANGED <<clocs, high, refs>>
    BY <1>4, <1>8 DEF Record
  <2>2. DenseAt(base, settled)'
    BY <1>5, <1>6, <1>7, <2>1 DEF DenseAt, SelectAbove, TargetAbove, Frame
  <2> QED BY <2>2 DEF DenseInv
<1>9. CASE loc >= 0
  <2> DEFINE c == [location |-> loc, param |-> -high]
  <2>1. /\ clocs \in Seq(Clocation) /\ high \in Int /\ refs \in [on : BOOLEAN, ids : Seq(Int)]
        /\ clocs' = Append(clocs, c) /\ high' = high + 1
    BY <1>4, <1>9 DEF Record, NumbersInv, TypeInv, TypeOK, Clocation
  <2>2. c \in Clocation /\ c.param = -high
    BY <1>9, <2>1 DEF Clocation
  <2> HIDE DEF c
  <2>3. /\ Len(clocs) \in Nat /\ Len(clocs') = Len(clocs) + 1
        /\ \A i \in 1 .. Len(clocs) : clocs'[i] = clocs[i]
        /\ clocs'[Len(clocs) + 1].param = -high
    BY <2>1, <2>2, AppendProperties, LenProperties
  <2>4. /\ high = base + (Len(clocs) - settled) /\ settled <= Len(clocs)
        /\ \A i \in 1 .. settled : clocs[i].param > -base
        /\ \A n \in 1 .. base - 1 : \E i \in 1 .. settled : clocs[i].param = -n
        /\ \A i \in settled + 1 .. Len(clocs) : clocs[i].param = -(base + i - settled - 1)
        /\ \A i \in 1 .. Len(clocs) : clocs[i].param \in Int
    <3>1. \A i \in 1 .. Len(clocs) : clocs[i] \in Clocation
      BY <2>1, ElementOfSeq
    <3> QED BY <1>7, <3>1 DEF DenseAt, Clocation
  <2>5. CASE In("group")
    <3>1. refs' = refs
      BY <1>4, <1>7, <1>9, <2>5, InOne DEF Record, DenseAt
    <3>2. ASSUME NEW i \in settled + 1 .. Len(clocs')
          PROVE  clocs'[i].param = -(base + i - settled - 1)
      <4>1. CASE i \in settled + 1 .. Len(clocs)
        <5>1. i \in 1 .. Len(clocs)
          BY <2>3, <4>1
        <5>2. clocs'[i] = clocs[i] /\ clocs[i].param = -(base + i - settled - 1)
          BY <2>3, <2>4, <4>1, <5>1
        <5> QED BY <5>2
      <4>2. CASE i = Len(clocs) + 1
        <5>1. high = base + i - settled - 1
          BY <2>3, <2>4, <4>2
        <5> QED BY <2>3, <4>2, <5>1
      <4> QED BY <2>3, <3>2, <4>1, <4>2
    <3>3. ASSUME NEW i \in 1 .. settled PROVE clocs'[i] = clocs[i]
      <4>1. i \in 1 .. Len(clocs)
        BY <2>3, <2>4
      <4> QED BY <2>3, <4>1
    <3>4. high' = base + (Len(clocs') - settled) /\ settled <= Len(clocs')
      BY <2>1, <2>3, <2>4
    <3>5. DenseAt(base, settled)'
      BY <1>5, <1>6, <1>7, <2>4, <2>5, <3>1, <3>2, <3>3, <3>4
      DEF DenseAt, SelectAbove, TargetAbove, Frame
    <3> QED BY <3>5 DEF DenseInv
  <2>6. CASE ~In("group")
    <3>0. settled = Len(clocs)
      BY <1>7, <2>6 DEF DenseAt
    <3>1. settled = Len(clocs) /\ base = high
      BY <2>3, <2>4, <3>0
    <3>2. refs.ids \in Seq(Above(base + 1)) /\ selects \in Seq(SelectAbove(base + 1))
      BY <1>7, AboveGrows DEF DenseAt
    <3>3. -high \in Above(base + 1)
      BY <2>1, <3>1 DEF Above
    <3>4. Append(refs.ids, -high) \in Seq(Above(base + 1))
      BY <3>2, <3>3, AppendProperties
    <3>5. refs'.ids \in Seq(Above(base + 1)) /\ refs'.on = refs.on
      BY <1>4, <1>9, <2>1, <3>2, <3>4 DEF Record
    <3>6. \A i \in 1 .. settled + 1 : clocs'[i].param > -(base + 1)
      BY <2>1, <2>3, <2>4, <3>1
    <3>7. ASSUME NEW n \in 1 .. base + 1 - 1
          PROVE  \E i \in 1 .. settled + 1 : clocs'[i].param = -n
      <4>1. CASE n = base
        BY <2>3, <3>1, <4>1
      <4>2. CASE n < base
        <5>0. n \in 1 .. base - 1
          BY <4>2
        <5>1. PICK i \in 1 .. settled : clocs[i].param = -n
          BY <2>4, <5>0
        <5> QED BY <2>3, <3>1, <5>1
      <4> QED BY <4>1, <4>2
    <3>8. /\ high' = base + 1 + (Len(clocs') - (settled + 1)) /\ settled + 1 = Len(clocs')
          /\ \A i \in settled + 1 + 1 .. Len(clocs') : FALSE
      BY <2>1, <2>3, <3>1
    <3>9. DenseAt(base + 1, settled + 1)'
      BY <1>5, <1>6, <1>7, <2>6, <3>2, <3>5, <3>6, <3>7, <3>8
      DEF DenseAt, SelectAbove, TargetAbove
    <3>10. base + 1 \in Nat \ {0} /\ settled + 1 \in Nat
      OBVIOUS
    <3> QED BY <3>9, <3>10 DEF DenseInv
  <2> QED BY <2>5, <2>6
<1> QED BY <1>8, <1>9

(* Leaving a GROUP BY item, whether its numbers are given back or not. *)
LEMMA DenseItemLeft ==
  ASSUME NumbersInv, Flat, DenseInv, LeaveGroupItem
  PROVE  DenseInv'
<1> DEFINE prev == Frame.prev
           ids == Frame.match[1]
           given == [i \in DOMAIN clocs |->
                       IF i <= prev THEN clocs[i]
                       ELSE [clocs[i] EXCEPT !.param = ids[i - prev]]]
<1>1. Visit("group_end") /\ UNCHANGED <<extern, refs, selects>>
  BY DEF LeaveGroupItem, InSelect
<1>2. In("group") /\ ~In("target")
  <2>1. "group_end" \notin Plain
    BY DEF Plain
  <2> QED BY <1>1, <2>1, Nested
<1>3. ~In("group")' /\ query' = query /\ Prints' = Prints
  <2>1. "group_end" \notin Plain
    BY DEF Plain
  <2> QED BY <1>1, <2>1, Inside, Visited DEF NumbersInv, Prints
<1>4. PICK base \in Nat \ {0}, settled \in Nat : DenseAt(base, settled)
  BY DEF DenseInv
<1>5. settled = prev /\ Frame.match \in Seq(Seq(Above(base))) /\ ~refs.on
      /\ refs.ids \in Seq(Above(base)) /\ selects \in Seq(SelectAbove(base))
  BY <1>2, <1>4 DEF DenseAt
<1>6. /\ high = base + (Len(clocs) - settled) /\ settled <= Len(clocs)
      /\ \A i \in 1 .. settled : clocs[i].param > -base
      /\ \A n \in 1 .. base - 1 : \E i \in 1 .. settled : clocs[i].param = -n
      /\ \A i \in settled + 1 .. Len(clocs) : clocs[i].param = -(base + i - settled - 1)
  BY <1>4 DEF DenseAt
<1>7. /\ clocs \in Seq(Clocation) /\ Len(clocs) \in Nat /\ DOMAIN clocs = 1 .. Len(clocs)
      /\ high \in Int
  BY LenProperties DEF NumbersInv, TypeInv, TypeOK, Clocation
<1>8. \A i \in 1 .. Len(clocs) : clocs[i] \in Clocation /\ clocs[i].param \in Int
  <2>1. \A i \in 1 .. Len(clocs) : clocs[i] \in Clocation
    BY <1>7, ElementOfSeq
  <2> QED BY <2>1 DEF Clocation
<1> HIDE DEF prev, ids, given
<1>9. CASE Frame.match # <<>> /\ Len(ids) = Len(clocs) - prev
  <2>1. clocs' = given /\ high' = high - Len(ids)
    BY <1>9 DEF LeaveGroupItem, given, ids, prev
  <2>2. ids \in Seq(Above(base))
    <3>1. 1 \in 1 .. Len(Frame.match)
      BY <1>5, <1>9, EmptySeq, LenProperties
    <3> QED BY <1>5, <3>1, ElementOfSeq DEF ids
  <2>3. given \in [DOMAIN clocs -> Clocation] /\ \A i \in 1 .. Len(clocs) : given[i].param > -base
    <3> SUFFICES ASSUME NEW i \in 1 .. Len(clocs)
                 PROVE  given[i] \in Clocation /\ given[i].param > -base
      BY <1>7 DEF given
    <3>1. CASE i <= prev
      <4>1. i \in 1 .. settled /\ given[i] = clocs[i]
        BY <1>5, <1>7, <3>1 DEF given
      <4> QED BY <1>6, <1>8, <4>1
    <3>2. CASE ~(i <= prev)
      <4>1. i - prev \in 1 .. Len(ids)
        BY <1>5, <1>7, <1>9, <3>2
      <4>2. ids[i - prev] \in Above(base)
        BY <2>2, <4>1, ElementOfSeq
      <4>3. given[i] = [clocs[i] EXCEPT !.param = ids[i - prev]]
        BY <1>7, <3>2 DEF given
      <4> QED BY <1>8, <4>2, <4>3 DEF Clocation, Above
    <3> QED BY <3>1, <3>2
  <2>4. Len(given) = Len(clocs)
    BY <1>7, <2>3, MappedSequence
  <2>5. ASSUME NEW n \in 1 .. base - 1
        PROVE  \E i \in 1 .. Len(clocs) : given[i].param = -n
    <3>1. PICK i \in 1 .. settled : clocs[i].param = -n
      BY <1>6
    <3>2. i \in 1 .. Len(clocs) /\ i <= prev
      BY <1>5, <1>6, <1>7
    <3> QED BY <1>7, <3>1, <3>2 DEF given
  <2>6. high' = base + (Len(clocs') - Len(clocs)) /\ Len(clocs') = Len(clocs)
    BY <1>5, <1>6, <1>7, <1>9, <2>1, <2>4
  <2>7. \A i \in Len(clocs) + 1 .. Len(clocs') : FALSE
    BY <1>7, <2>6
  <2>8. ASSUME NEW s \in Nat, s = Len(clocs) PROVE DenseAt(base, s)'
    <3>1. high' = base + (Len(clocs') - s) /\ s <= Len(clocs')
      BY <1>7, <2>6, <2>8
    <3>2. /\ \A i \in 1 .. s : clocs'[i].param > -base
          /\ \A n \in 1 .. base - 1 : \E i \in 1 .. s : clocs'[i].param = -n
          /\ \A i \in s + 1 .. Len(clocs') : clocs'[i].param = -(base + i - s - 1)
      BY <2>1, <2>3, <2>5, <2>7, <2>8
    <3>3. refs' = refs /\ selects' = selects /\ s = Len(clocs')
      BY <1>1, <2>6, <2>8
    <3> QED BY <1>3, <1>5, <3>1, <3>2, <3>3 DEF DenseAt, SelectAbove, TargetAbove
  <2> QED BY <1>7, <2>6, <2>8 DEF DenseInv
<1>10. CASE ~(Frame.match # <<>> /\ Len(ids) = Len(clocs) - prev)
  <2>1. clocs' = clocs /\ high' = high
    BY <1>10 DEF LeaveGroupItem, ids, prev
  <2>2. high \in Nat \ {0} /\ base <= high
    BY <1>6, <1>7
  <2>3. \A i \in 1 .. Len(clocs) : clocs[i].param > -high
    <3> SUFFICES ASSUME NEW i \in 1 .. Len(clocs) PROVE clocs[i].param > -high
      OBVIOUS
    <3>1. CASE i \in 1 .. settled
      BY <1>6, <1>8, <2>2, <3>1
    <3>2. CASE i \in settled + 1 .. Len(clocs)
      <4>1. clocs[i].param = -(base + i - settled - 1)
        BY <1>6, <3>2
      <4> QED BY <1>6, <1>7, <3>2, <4>1
    <3> QED BY <3>1, <3>2
  <2>4. ASSUME NEW n \in 1 .. high - 1
        PROVE  \E i \in 1 .. Len(clocs) : clocs[i].param = -n
    <3>1. CASE n < base
      <4>1. n \in 1 .. base - 1
        BY <3>1
      <4>2. PICK i \in 1 .. settled : clocs[i].param = -n
        BY <1>6, <4>1
      <4>3. i \in 1 .. Len(clocs)
        BY <1>6, <1>7
      <4> QED BY <4>2, <4>3
    <3>2. CASE ~(n < base)
      <4> DEFINE i == settled + 1 + n - base
      <4>1. i \in settled + 1 .. Len(clocs) /\ i \in 1 .. Len(clocs)
            /\ base + i - settled - 1 = n
        BY <1>6, <1>7, <2>2, <3>2
      <4> HIDE DEF i
      <4>2. clocs[i].param = -n
        BY <1>6, <4>1
      <4> QED BY <4>1, <4>2
    <3> QED BY <3>1, <3>2
  <2>5. refs.ids \in Seq(Above(high)) /\ selects \in Seq(SelectAbove(high))
    BY <1>5, <1>7, <2>2, AboveGrows
  <2>6. /\ high' = high + (Len(clocs') - Len(clocs))
        /\ \A i \in Len(clocs) + 1 .. Len(clocs') : FALSE
    BY <1>7, <2>1
  <2>7. \A b \in Nat \ {0}, s \in Nat :
          b = high /\ s = Len(clocs) => DenseAt(b, s)'
    BY <1>1, <1>3, <1>5, <1>7, <2>1, <2>3, <2>4, <2>5, <2>6
    DEF DenseAt, SelectAbove, TargetAbove
  <2> QED BY <1>7, <2>2, <2>7 DEF DenseInv
<1> QED BY <1>9, <1>10

(* Every other step of the walk. *)
LEMMA DenseWalk ==
  ASSUME NumbersInv, Flat, DenseInv,
         \/ VisitParamRef \/ EnterSelect \/ LeaveSelect
         \/ EnterTarget \/ LeaveTarget \/ EnterGroupItem
  PROVE  DenseInv'
<1>1. PICK base \in Nat \ {0}, settled \in Nat : DenseAt(base, settled)
  BY DEF DenseInv
<1>2. /\ refs \in [on : BOOLEAN, ids : Seq(Int)]
      /\ refs.ids \in Seq(Above(base)) /\ selects \in Seq(SelectAbove(base))
      /\ \A S : <<>> \in Seq(S)
      /\ Len(clocs) \in Nat /\ high \in Int
  BY <1>1, EmptySeq, LenProperties DEF DenseAt, NumbersInv, TypeInv, TypeOK
<1>3. UNCHANGED <<clocs, high>>
  BY DEF VisitParamRef, EnterSelect, LeaveSelect, EnterTarget, LeaveTarget, EnterGroupItem
<1>4. ASSUME NEW op, InSelect(op)
      PROVE  /\ Visit(op) /\ Len(selects) \in Nat \ {0}
             /\ Frame \in SelectAbove(base) /\ Len(selects) \in 1 .. Len(selects)
  <2>1. Len(selects) \in Nat /\ Len(selects) # 0
    BY <1>2, <1>4, EmptySeq, LenProperties DEF InSelect
  <2> QED BY <1>2, <1>4, <2>1, ElementOfSeq DEF InSelect, Frame, Last
<1>5. CASE VisitParamRef
  <2>1. Visit("param") /\ selects' = selects
    BY <1>5 DEF VisitParamRef
  <2>2. /\ query.walk[pos] = Step /\ Step.op = "param" /\ pos \in DOMAIN query.walk
        /\ query' = query /\ query \in Queries
    BY <2>1, Visited DEF NumbersInv, TypeInv
  <2>3. Step.n \in 0 .. MaxInt
    BY <2>2, QueriesAssumption
  <2>4. Append(refs.ids, Step.n) \in Seq(Above(base))
    BY <1>2, <2>3, NormalizeAssumption, AppendProperties DEF Above
  <2>5. refs'.ids \in Seq(Above(base)) /\ refs'.on = refs.on
    BY <1>2, <1>5, <2>4 DEF VisitParamRef
  <2>6. (In("group")' <=> In("group")) /\ (In("target")' <=> In("target"))
    <3>1. "param" \in Plain /\ "param" # "group" /\ "param" # "target"
      BY DEF Plain
    <3>2. \A item \in {"target", "group"} : In(item)' <=> In(item)
      BY <2>1, <3>1, Inside
    <3> QED BY <3>2
  <2>7. DenseAt(base, settled)'
    BY <1>1, <1>3, <2>1, <2>2, <2>5, <2>6 DEF DenseAt, SelectAbove, TargetAbove, Frame, Prints
  <2> QED BY <2>7 DEF DenseInv
<1>6. ASSUME NEW op \in {"select", "select_end", "target", "target_end", "group"}, Visit(op),
             selects' \in Seq(SelectAbove(base)), refs'.ids \in Seq(Above(base)),
             op # "target" => refs'.on = FALSE \/ refs' = refs,
             op = "target_end" => ~refs'.on,
             op = "group" => /\ Last(selects').prev = Len(clocs)
                             /\ Last(selects').match \in Seq(Seq(Above(base)))
      PROVE  DenseInv'
  <2>1. op \notin Plain /\ op # "group_end"
    BY DEF Plain
  <2>2. ~In("group") /\ (In("target") => op = "target_end")
    BY <1>6, <2>1, Nested
  <2>3. (In("group")' <=> op = "group") /\ (In("target")' <=> op = "target")
    BY <1>6, <2>1, Inside
  <2>4. query' = query
    BY <1>6, Visited DEF NumbersInv
  <2>5. settled = Len(clocs) /\ (refs.on => op = "target_end")
    BY <1>1, <2>2 DEF DenseAt
  <2>6. refs'.on => In("target")'
    BY <1>6, <2>3, <2>5
  <2>7. DenseAt(base, settled)'
    BY <1>1, <1>3, <1>6, <2>3, <2>4, <2>5, <2>6
    DEF DenseAt, SelectAbove, TargetAbove, Frame, Prints
  <2> QED BY <2>7 DEF DenseInv
<1>7. CASE EnterSelect
  <2> DEFINE frame == [list |-> <<>>, prev |-> 0, match |-> <<>>]
  <2>1. frame \in SelectAbove(base)
    BY <1>2 DEF SelectAbove
  <2>2. selects' \in Seq(SelectAbove(base)) /\ refs' = refs /\ Visit("select")
    BY <1>2, <1>7, <2>1, AppendProperties DEF EnterSelect
  <2> QED BY <1>2, <1>6, <2>2
<1>8. CASE LeaveSelect
  <2>1. Len(selects) \in Nat \ {0} /\ Visit("select_end")
    BY <1>4, <1>8 DEF LeaveSelect
  <2>2. SubSeq(selects, 1, Len(selects) - 1) \in Seq(SelectAbove(base))
    BY <1>2, <2>1, SubSeqProperties, LenProperties
  <2>3. selects' \in Seq(SelectAbove(base)) /\ refs' = refs
    BY <1>8, <2>2 DEF LeaveSelect, Front
  <2> QED BY <1>2, <1>6, <2>1, <2>3
<1>9. CASE EnterTarget
  <2>1. Visit("target") /\ selects' = selects /\ refs'.ids = <<>>
    BY <1>4, <1>9 DEF EnterTarget
  <2> QED BY <1>2, <1>6, <2>1
<1>10. CASE LeaveTarget
  <2> DEFINE target == [fp |-> Step.fp, ids |-> refs.ids]
             frame == [Frame EXCEPT !.list = Append(@, target)]
  <2>1. Visit("target_end") /\ Frame \in SelectAbove(base) /\ Len(selects) \in 1 .. Len(selects)
    BY <1>4, <1>10 DEF LeaveTarget
  <2>2. target \in TargetAbove(base)
    BY <1>2, <2>1, Visited DEF NumbersInv, TargetAbove, Prints
  <2>3. Append(Frame.list, target) \in Seq(TargetAbove(base))
    BY <2>1, <2>2, AppendProperties DEF SelectAbove
  <2>4. frame \in SelectAbove(base)
    BY <2>1, <2>3 DEF SelectAbove
  <2>5. selects' = [selects EXCEPT ![Len(selects)] = frame]
    BY <1>10 DEF LeaveTarget, Frame, Last
  <2>6. selects' \in Seq(SelectAbove(base))
    BY <1>2, <2>1, <2>4, <2>5, ExceptSeq
  <2>7. refs'.on = FALSE /\ refs'.ids = <<>>
    BY <1>10 DEF LeaveTarget, NoRefs
  <2> QED BY <1>2, <1>6, <2>1, <2>6, <2>7
<1>11. CASE EnterGroupItem
  <2> DEFINE frame(list, match) == [list |-> list, prev |-> Len(clocs), match |-> match]
  <2>1. /\ Visit("group") /\ Frame \in SelectAbove(base) /\ refs' = refs
        /\ Len(selects) \in 1 .. Len(selects) /\ Len(selects) \in Nat \ {0}
    BY <1>4, <1>11 DEF EnterGroupItem
  <2>2. PICK list \in Seq(TargetAbove(base)), match \in Seq(Seq(Above(base))) : Matching(list, match)
    <3>1. Frame.list \in Seq(TargetAbove(base)) /\ <<>> \in Seq(Seq(Above(base)))
      BY <1>2, <2>1 DEF SelectAbove
    <3>2. ASSUME NEW m \in DOMAIN Frame.list
          PROVE  RemoveAt(Frame.list, m) \in Seq(TargetAbove(base))
                   /\ <<Frame.list[m].ids>> \in Seq(Seq(Above(base)))
      <4>1. Frame.list[m] \in TargetAbove(base)
        BY <3>1, <3>2, ElementOfSeq, LenProperties
      <4>2. Frame.list[m].ids \in Seq(Above(base))
        BY <4>1 DEF TargetAbove
      <4> QED BY <3>1, <3>2, <4>2, WithoutType
    <3> QED BY <1>11, <3>1, <3>2 DEF EnterGroupItem
  <2>3. Seq(Seq(Above(base))) \subseteq Seq(Seq(Int))
    <3>1. Above(base) \subseteq Int
      BY DEF Above
    <3>2. Seq(Above(base)) \subseteq Seq(Int)
      BY <3>1, SeqGrows
    <3> QED BY <3>2, SeqGrows
  <2>4. frame(list, match) \in SelectAbove(base)
    BY <1>2, <2>3 DEF SelectAbove
  <2>5. selects' = [selects EXCEPT ![Len(selects)] = frame(list, match)]
    BY <2>2 DEF Matching
  <2>6. selects' \in Seq(SelectAbove(base)) /\ Len(selects') = Len(selects)
        /\ selects'[Len(selects)] = frame(list, match)
    BY <1>2, <2>1, <2>4, <2>5, ExceptSeq, LenProperties
  <2>7. Last(selects') = frame(list, match)
    BY <2>6 DEF Last
  <2> QED BY <1>2, <1>6, <2>1, <2>2, <2>6, <2>7
<1> QED BY <1>5, <1>7, <1>8, <1>9, <1>10, <1>11

LEMMA DenseStep ==
  ASSUME NumbersInv, Flat, DenseInv, [Next]_vars
  PROVE  DenseInv'
<1>1. CASE VisitConst \/ VisitDefElem \/ VisitSubscription
  BY <1>1, DenseRecord
<1>2. CASE \/ VisitParamRef \/ EnterSelect \/ LeaveSelect
           \/ EnterTarget \/ LeaveTarget \/ EnterGroupItem
  BY <1>2, DenseWalk
<1>3. CASE LeaveGroupItem
  BY <1>3, DenseItemLeft
<1>4. CASE EndWalk \/ FillLength \/ EndLengths \/ WriteParam \/ WriteRest \/ UNCHANGED vars
  <2>1. UNCHANGED <<query, pos, clocs, high, refs, selects>>
    BY <1>4 DEF EndWalk, FillLength, EndLengths, WriteParam, WriteRest, vars, walkVars
  <2>2. PICK base \in Nat \ {0}, settled \in Nat : DenseAt(base, settled)
    BY DEF DenseInv
  <2>3. \A op : In(op)' <=> In(op)
    BY <2>1 DEF In, OpenAt, Op
  <2>4. DenseAt(base, settled)'
    BY <2>1, <2>2, <2>3 DEF DenseAt, SelectAbove, TargetAbove, Frame, Prints
  <2> QED BY <2>4 DEF DenseInv
<1> QED BY <1>1, <1>2, <1>3, <1>4 DEF Next

(* The numbers below base and those from base on are all there are. *)
LEMMA DenseInvSuffices ==
  ASSUME NumbersInv, DenseInv
  PROVE  DenseNumbering
<1>1. PICK base \in Nat \ {0}, settled \in Nat : DenseAt(base, settled)
  BY DEF DenseInv
<1>2. /\ clocs \in Seq(Clocation) /\ Len(clocs) \in Nat /\ DOMAIN clocs = 1 .. Len(clocs)
      /\ high \in Int
  BY LenProperties DEF NumbersInv, TypeInv, TypeOK, Clocation
<1>3. \A i \in 1 .. Len(clocs) : clocs[i].param \in Int
  <2>1. \A i \in 1 .. Len(clocs) : clocs[i] \in Clocation
    BY <1>2, ElementOfSeq
  <2> QED BY <2>1 DEF Clocation
<1>4. /\ high = base + (Len(clocs) - settled) /\ settled <= Len(clocs)
      /\ \A i \in 1 .. settled : clocs[i].param > -base
      /\ \A n \in 1 .. base - 1 : \E i \in 1 .. settled : clocs[i].param = -n
      /\ \A i \in settled + 1 .. Len(clocs) : clocs[i].param = -(base + i - settled - 1)
  BY <1>1 DEF DenseAt
<1>5. ASSUME NEW i \in 1 .. Len(clocs), clocs[i].param < 0
      PROVE  -clocs[i].param \in 1 .. high - 1
  <2>1. CASE i \in 1 .. settled
    <3>1. clocs[i].param > -base /\ base <= high
      BY <1>2, <1>4, <2>1
    <3> QED BY <1>2, <1>3, <1>5, <3>1
  <2>2. CASE i \in settled + 1 .. Len(clocs)
    <3>1. clocs[i].param = -(base + i - settled - 1)
      BY <1>4, <2>2
    <3> QED BY <1>2, <1>4, <1>5, <2>2, <3>1
  <2> QED BY <2>1, <2>2
<1>6. ASSUME NEW n \in 1 .. high - 1
      PROVE  \E i \in 1 .. Len(clocs) : clocs[i].param < 0 /\ n = -clocs[i].param
  <2>1. CASE n < base
    <3>1. n \in 1 .. base - 1
      BY <2>1
    <3>2. PICK i \in 1 .. settled : clocs[i].param = -n
      BY <1>4, <3>1
    <3>3. i \in 1 .. Len(clocs)
      BY <1>2, <1>4
    <3> QED BY <3>2, <3>3
  <2>2. CASE ~(n < base)
    <3> DEFINE i == settled + 1 + n - base
    <3>1. i \in settled + 1 .. Len(clocs) /\ i \in 1 .. Len(clocs)
          /\ base + i - settled - 1 = n
      BY <1>2, <1>4, <2>2
    <3> HIDE DEF i
    <3>2. clocs[i].param = -n
      BY <1>4, <3>1
    <3>3. clocs[i].param < 0 /\ n = -clocs[i].param
      BY <3>2
    <3> QED BY <3>1, <3>3
  <2> QED BY <2>1, <2>2
<1> QED BY <1>2, <1>5, <1>6 DEF DenseNumbering

(* The new parameters in use are at all times 1, 2, .. up to the last one, *)
(* for every query whose targets and GROUP BY items hold no sub-select,    *)
(* whatever items repeat whatever targets (pg_query_normalize.c:513-518).  *)
THEOREM NumbersAreDense == Spec => [](Flat => DenseNumbering)
<1> DEFINE I == NumbersInv /\ (Flat => DenseInv)
<1>1. Init => I
  BY NumbersInit, DenseInit
<1>2. I /\ [Next]_vars => I'
  <2> SUFFICES ASSUME I, [Next]_vars PROVE I'
    OBVIOUS
  <2>1. query' = query
    BY DEF Next, VisitConst, VisitParamRef, VisitDefElem, VisitSubscription, EnterSelect,
           LeaveSelect, EnterTarget, LeaveTarget, EnterGroupItem, LeaveGroupItem, EndWalk,
           FillLength, EndLengths, WriteParam, WriteRest, InSelect, Visit, vars
  <2>2. Flat' <=> Flat
    BY <2>1 DEF Flat, OpenAt, Op
  <2> QED BY <2>2, NumbersStep, DenseStep
<1>3. I => (Flat => DenseNumbering)
  BY DenseInvSuffices
<1> QED BY <1>1, <1>2, <1>3, PTL DEF Spec

-----------------------------------------------------------------------------
(* The numbers that are written.  The inductive invariant: no number kept  *)
(* is 0 or past INT_MAX, none of the sorted constants has one that was not *)
(* handed out, and if the last one handed out fits, so do those written.   *)
Positive ==
  \A i \in DOMAIN query.walk : query.walk[i].op = "param" => query.walk[i].n # 0

Given == {n \in Int : n # 0 /\ n <= MaxInt}
HandedOut == {n \in Given : n >= 1 - high}

NumberedReplacement(S) == [off : Nat, len : Int, param : S]

WrittenInv ==
  /\ NumbersIn(Given)
  /\ phase = "walk" => sorted = <<>> /\ out = <<>>
  /\ sorted \in Seq(NumberedReplacement(HandedOut))
  /\ NumbersFit => out \in Seq(NumberedReplacement(1 .. MaxInt))

LEMMA WrittenInit ==
  ASSUME Init
  PROVE  WrittenInv
<1>1. \A S : <<>> \in Seq(S)
  BY EmptySeq
<1> QED
  BY <1>1 DEF Init, NoRefs, WrittenInv, NumbersIn

(* A number that was handed out is written as a parameter. *)
LEMMA HandedOutIsWritten ==
  ASSUME TypeInv, NumbersFit, NEW n \in HandedOut
  PROVE  Final(n) \in 1 .. MaxInt
<1>1. /\ MaxInt \in Nat /\ extern \in 0 .. MaxInt /\ high \in Int
      /\ n \in Int /\ n # 0 /\ n >= 1 - high /\ n <= MaxInt
      /\ extern + high - 1 <= MaxInt
  BY NormalizeAssumption DEF TypeInv, TypeOK, HandedOut, Given, NumbersFit
<1>2. CASE n < 0
  <2>1. extern - n \in 1 .. MaxInt
    BY <1>1, <1>2
  <2>2. Final(n) = Wrap(extern - n)
    BY <1>2 DEF Final
  <2> QED
    BY <2>1, <2>2, <1>1, IntIsKept
<1>3. CASE ~(n < 0)
  <2>1. n \in 1 .. MaxInt
    BY <1>1, <1>3
  <2>2. Final(n) = Wrap(n)
    BY <1>3 DEF Final
  <2> QED
    BY <2>1, <2>2, <1>1, IntIsKept
<1> QED
  BY <1>2, <1>3

(* What the walk keeps of numbers: a step records the next number, which   *)
(* is never 0, or one of the query's own.                                  *)
LEMMA GivenStep ==
  ASSUME NumbersInv, DenseInv, Positive, NumbersIn(Given), [Next]_vars
  PROVE  NumbersIn(Given)'
<1>a. /\ TypeInv /\ query \in Queries /\ MaxInt \in Nat
      /\ Len(query.walk) \in Nat /\ DOMAIN query.walk = 1 .. Len(query.walk)
  BY QueriesAssumption, NormalizeAssumption DEF NumbersInv, TypeInv, TypeOK
<1>1. \A j \in DOMAIN query.walk : query.walk[j].op = "param" => query.walk[j].n \in Given
  BY <1>a, QueriesAssumption DEF Positive, Given
<1>2. high >= 1 /\ high \in Int
  <2>1. PICK base \in Nat \ {0}, settled \in Nat : DenseAt(base, settled)
    BY DEF DenseInv
  <2>2. high = base + (Len(clocs) - settled) /\ settled <= Len(clocs)
    BY <2>1 DEF DenseAt
  <2>3. Len(clocs) \in Nat
    BY LenProperties DEF NumbersInv, TypeInv, TypeOK
  <2> QED
    BY <2>2, <2>3
<1>3. -high \in Given
  BY <1>a, <1>2 DEF Given
<1> QED
  BY <1>a, <1>1, <1>3, NumbersMoved

(* The number of a constant was handed out: new numbers are dense.         *)
LEMMA RecordedIsHandedOut ==
  ASSUME NumbersInv, DenseInv, NumbersIn(Given), NEW r \in DOMAIN clocs
  PROVE  clocs[r].param \in HandedOut
<1>1. clocs \in Seq(NumberedClocation(Given))
  BY DEF NumbersIn
<1>2. clocs[r].param \in Given
  <2>1. clocs[r] \in NumberedClocation(Given)
    BY <1>1, ElementOfSeq, LenProperties
  <2> QED
    BY <2>1 DEF NumberedClocation
<1>3. clocs[r].param < 0 => -clocs[r].param \in 1 .. high - 1
  BY DenseInvSuffices DEF DenseNumbering
<1>4. high \in Int /\ high >= 1
  <2>1. PICK base \in Nat \ {0}, settled \in Nat : DenseAt(base, settled)
    BY DEF DenseInv
  <2>2. high = base + (Len(clocs) - settled) /\ settled <= Len(clocs)
    BY <2>1 DEF DenseAt
  <2>3. Len(clocs) \in Nat
    BY LenProperties DEF NumbersInv, TypeInv, TypeOK
  <2> QED
    BY <2>2, <2>3
<1>5. clocs[r].param \in Int
  BY <1>2 DEF Given
<1>6. clocs[r].param >= 1 - high
  BY <1>3, <1>4, <1>5
<1> QED
  BY <1>2, <1>6 DEF HandedOut

LEMMA WrittenStep ==
  ASSUME NumbersInv, DenseInv, Positive, WrittenInv, [Next]_vars
  PROVE  WrittenInv'
<1>a. /\ TypeInv /\ query \in Queries /\ MaxInt \in Nat
      /\ phase \in {"walk", "lengths", "text", "done"}
      /\ NumbersIn(Given)
      /\ sorted \in Seq(NumberedReplacement(HandedOut))
      /\ NumbersFit => out \in Seq(NumberedReplacement(1 .. MaxInt))
  BY NormalizeAssumption DEF NumbersInv, TypeInv, TypeOK, WrittenInv
<1>b. \A S : <<>> \in Seq(S)
  BY EmptySeq
<1>1. NumbersIn(Given)'
  BY <1>a, GivenStep
<1>2. CASE phase = "walk"
  <2>1. UNCHANGED <<sorted, out>>
    BY <1>2 DEF Next, VisitConst, VisitParamRef, VisitDefElem, VisitSubscription,
         EnterSelect, LeaveSelect, EnterTarget, LeaveTarget, EnterGroupItem,
         LeaveGroupItem, EndWalk, FillLength, EndLengths, WriteParam, WriteRest,
         InSelect, Visit, lengthVars, textVars, vars
  <2>2. sorted' = <<>> /\ out' = <<>>
    BY <1>2, <2>1 DEF WrittenInv
  <2> QED
    BY <1>b, <1>1, <2>2 DEF WrittenInv
<1>3. CASE phase # "walk"
  <2>1. UNCHANGED walkVars /\ phase' # "walk"
    BY <1>3 DEF Next, VisitConst, VisitParamRef, VisitDefElem, VisitSubscription,
         EnterSelect, LeaveSelect, EnterTarget, LeaveTarget, EnterGroupItem,
         LeaveGroupItem, EndWalk, FillLength, EndLengths, WriteParam, WriteRest,
         InSelect, Visit, vars
  <2>2. HandedOut' = HandedOut /\ (NumbersFit' <=> NumbersFit)
    BY <2>1 DEF HandedOut, NumbersFit, walkVars
  <2>3. sorted' \in Seq(NumberedReplacement(HandedOut))
    <3>1. CASE FillLength
      <4>1. PICK r \in left, len \in Int :
              sorted' = Append(sorted, [off |-> clocs[r].location, len |-> len,
                                        param |-> clocs[r].param])
        BY <1>a, <3>1, LengthFilled
      <4>2. r \in DOMAIN clocs /\ clocs \in Seq(NumberedClocation(Given))
        BY <1>a, <4>1 DEF TypeInv, TypeOK, NumbersIn
      <4>3. clocs[r] \in NumberedClocation(Given) /\ clocs[r].param \in HandedOut
        BY <1>a, <4>2, ElementOfSeq, LenProperties, RecordedIsHandedOut
      <4>4. [off |-> clocs[r].location, len |-> len, param |-> clocs[r].param]
              \in NumberedReplacement(HandedOut)
        BY <4>1, <4>3 DEF NumberedClocation, NumberedReplacement
      <4> QED
        BY <1>a, <4>1, <4>4, AppendProperties
    <3>2. CASE WriteParam
      BY <1>a, <3>2, HeadTailProperties DEF WriteParam
    <3>3. CASE ~FillLength /\ ~WriteParam
      <4>1. sorted' = sorted
        BY <3>3 DEF Next, VisitConst, VisitParamRef, VisitDefElem, VisitSubscription,
             EnterSelect, LeaveSelect, EnterTarget, LeaveTarget, EnterGroupItem,
             LeaveGroupItem, EndWalk, EndLengths, WriteRest, InSelect, Visit,
             lengthVars, vars
      <4> QED
        BY <1>a, <4>1
    <3> QED
      BY <3>1, <3>2, <3>3
  <2>4. NumbersFit => out' \in Seq(NumberedReplacement(1 .. MaxInt))
    <3> SUFFICES ASSUME NumbersFit
                 PROVE  out' \in Seq(NumberedReplacement(1 .. MaxInt))
      OBVIOUS
    <3>0. out \in Seq(NumberedReplacement(1 .. MaxInt))
      BY <1>a
    <3>1. CASE WriteParam
      <4> DEFINE c == Head(sorted)
                 written == [off |-> c.off, len |-> c.len, param |-> Final(c.param)]
      <4>1. c \in NumberedReplacement(HandedOut)
        BY <1>a, <3>1, HeadTailProperties DEF WriteParam
      <4>2. Final(c.param) \in 1 .. MaxInt
        BY <1>a, <4>1, HandedOutIsWritten DEF NumberedReplacement
      <4>3. written \in NumberedReplacement(1 .. MaxInt)
        BY <4>1, <4>2 DEF NumberedReplacement
      <4>4. Append(out, written) \in Seq(NumberedReplacement(1 .. MaxInt))
        BY <3>0, <4>3, AppendProperties
      <4>5. out' = out \/ out' = Append(out, written)
        BY <3>1 DEF WriteParam, textVars
      <4> QED
        BY <3>0, <4>4, <4>5
    <3>2. CASE ~WriteParam
      <4>1. out' = out
        BY <3>2 DEF Next, VisitConst, VisitParamRef, VisitDefElem, VisitSubscription,
             EnterSelect, LeaveSelect, EnterTarget, LeaveTarget, EnterGroupItem,
             LeaveGroupItem, EndWalk, FillLength, EndLengths, WriteRest, InSelect, Visit,
             textVars, vars
      <4> QED
        BY <3>0, <4>1
    <3> QED
      BY <3>1, <3>2
  <2> QED
    BY <1>1, <2>1, <2>2, <2>3, <2>4 DEF WrittenInv
<1> QED
  BY <1>2, <1>3

LEMMA WrittenInvSuffices ==
  ASSUME WrittenInv
  PROVE  PlaceholdersAreNumbers
<1> SUFFICES ASSUME NumbersFit, NEW i \in DOMAIN out PROVE out[i].param \in 1 .. MaxInt
  BY DEF PlaceholdersAreNumbers, WrittenAsNumbers
<1>1. out[i] \in NumberedReplacement(1 .. MaxInt)
  BY ElementOfSeq, LenProperties DEF WrittenInv
<1> QED
  BY <1>1 DEF NumberedReplacement

(* Every number that is written is a positive int as long as the highest   *)
(* one is, for every query whose targets and GROUP BY items hold no        *)
(* sub-select and which has no $0 (pg_query_normalize.c:246-247, 279).     *)
THEOREM WrittenAreNumbers == Spec => [](Flat /\ Positive => PlaceholdersAreNumbers)
<1> DEFINE I == NumbersInv /\ (Flat => DenseInv) /\ (Flat /\ Positive => WrittenInv)
<1>1. Init => I
  BY NumbersInit, DenseInit, WrittenInit
<1>2. I /\ [Next]_vars => I'
  <2> SUFFICES ASSUME I, [Next]_vars PROVE I'
    OBVIOUS
  <2>1. query' = query
    BY DEF Next, VisitConst, VisitParamRef, VisitDefElem, VisitSubscription, EnterSelect,
           LeaveSelect, EnterTarget, LeaveTarget, EnterGroupItem, LeaveGroupItem, EndWalk,
           FillLength, EndLengths, WriteParam, WriteRest, InSelect, Visit, vars
  <2>2. (Flat' <=> Flat) /\ (Positive' <=> Positive)
    BY <2>1 DEF Flat, OpenAt, Op, Positive
  <2> QED
    BY <2>1, <2>2, NumbersStep, DenseStep, WrittenStep
<1>3. I => (Flat /\ Positive => PlaceholdersAreNumbers)
  BY WrittenInvSuffices
<1> QED
  BY <1>1, <1>2, <1>3, PTL DEF Spec

(* The text of these queries stays within the buffer, up to and including  *)
(* those whose highest number is INT_MAX (pg_query_normalize.c:244-250,    *)
(* 299).                                                                   *)
THEOREM TextFits == Spec => [](Flat /\ Positive => BufferSuffices)
<1>1. Flat /\ Positive /\ PlaceholdersAreNumbers /\ (WrittenAsNumbers => WithinBuffer)
        => BufferSuffices
  BY DEF PlaceholdersAreNumbers, BufferSuffices
<1> QED
  BY <1>1, WrittenAreNumbers, BufferLargeEnough, PTL
=============================================================================
