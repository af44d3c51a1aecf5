---------------------------- MODULE AstWalkProofs ----------------------------
(***************************************************************************)
(* The walk over any tree, whatever its messages are, whatever scope they  *)
(* make and whatever the caller collects: it visits breadth-first, nothing *)
(* twice, and the scope of a visit comes from the nodes above it only.     *)
(***************************************************************************)
EXTENDS AstWalk, SequenceTheorems, TLAPS

(* Where an entry of the queue comes from: it is a child of the root, or   *)
(* of an entry that is out of the queue.                                   *)
ChildOf(entry, node, path, scope) ==
  \E k \in DOMAIN Children(node) : entry = PushChildren(node, path, scope)[k]

Origin(entry, root, entries, n) ==
  \/ ChildOf(entry, root, <<>>, EnterNode(root, NoScope))
  \/ \E j \in 1..n :
       ChildOf(entry, entries[j].node, entries[j].path,
               EnterNode(entries[j].node, entries[j].scope))

Origins == \A i \in DOMAIN queue : Origin(queue[i], tree, queue, next - 1)

(* What is in the queue is at most one level below what comes out next.    *)
OneLevelAhead ==
  next <= Len(queue) =>
    \A i \in DOMAIN queue : Len(queue[i].path) <= Len(queue[next].path) + 1

IInv == TypeOK /\ VisitedOnce /\ BreadthFirst /\ Origins /\ OneLevelAhead
-----------------------------------------------------------------------------
(* Sequences of no particular set.                                         *)
LEMMA FunctionIsSequence ==
  ASSUME NEW n \in Nat, NEW r, r = [i \in 1..n |-> r[i]]
  PROVE  IsSequence(r)
<1> DEFINE T == {r[i] : i \in DOMAIN r}
<1>1. DOMAIN r = 1..n
  OBVIOUS
<1>2. \A i \in 1..n : r[i] \in T
  BY <1>1
<1> HIDE DEF T
<1>3. r \in [1..n -> T]
  BY <1>2
<1>4. r \in Seq(T)
  BY <1>3
<1> QED
  BY <1>4 DEF IsSequence, T

LEMMA ConcatSequences ==
  ASSUME NEW s, NEW t, IsSequence(s), IsSequence(t)
  PROVE  /\ IsSequence(s \o t)
         /\ Len(s \o t) = Len(s) + Len(t)
         /\ Len(s) \in Nat /\ Len(t) \in Nat
         /\ DOMAIN s = 1..Len(s) /\ DOMAIN t = 1..Len(t)
         /\ DOMAIN (s \o t) = 1..(Len(s) + Len(t))
         /\ \A i \in 1..Len(s) : (s \o t)[i] = s[i]
         /\ \A i \in 1..Len(t) : (s \o t)[Len(s) + i] = t[i]
<1> DEFINE S == {s[i] : i \in DOMAIN s} \cup {t[i] : i \in DOMAIN t}
<1>1. s \in Seq(S) /\ t \in Seq(S)
  BY DEF IsSequence
<1> HIDE DEF S
<1>2. /\ s \o t \in Seq(S)
      /\ Len(s \o t) = Len(s) + Len(t)
      /\ Len(s) \in Nat /\ Len(t) \in Nat
      /\ DOMAIN s = 1..Len(s) /\ DOMAIN t = 1..Len(t)
      /\ DOMAIN (s \o t) = 1..(Len(s) + Len(t))
      /\ \A i \in 1..Len(s) : (s \o t)[i] = s[i]
      /\ \A i \in 1..Len(t) : (s \o t)[Len(s) + i] = t[i]
  BY <1>1
<1>3. ASSUME NEW r \in Seq(S) PROVE IsSequence(r)
  <2>1. r = [i \in 1..Len(r) |-> r[i]] /\ Len(r) \in Nat
    BY <1>3
  <2> QED
    BY <2>1, FunctionIsSequence
<1> QED
  BY <1>2, <1>3

(* A step adds entries to the queue and changes none.                      *)
LEMMA StepAppends ==
  ASSUME TypeOK, Origins, Reduce
  PROVE  LET e   == queue[next]
             new == PushChildren(e.node, e.path, EnterNode(e.node, e.scope))
         IN /\ next \in DOMAIN queue
            /\ IsEntry(e)
            /\ queue' = queue \o new
            /\ next' = next + 1
            /\ tree' = tree
<1> DEFINE e == queue[next]
<1>1. next \in DOMAIN queue /\ IsEntry(e)
  BY ConcatSequences DEF TypeOK, Reduce
<1>2. e = [node |-> e.node, path |-> e.path, scope |-> e.scope]
  BY <1>1 DEF Origins, Origin, ChildOf, PushChildren
<1>3. Visit(e) = [node |-> e.node, path |-> e.path, scope |-> EnterNode(e.node, e.scope)]
  BY <1>2 DEF Visit
<1> QED
  BY <1>1, <1>3 DEF Reduce

(* What is put into the queue for a node: children in order, each one      *)
(* segment below it.                                                       *)
LEMMA PushedEntries ==
  ASSUME NEW n \in Nodes, NEW p \in Seq(Segments), NEW sc,
         NEW new, new = PushChildren(n, p, sc)
  PROVE  /\ IsSequence(new)
         /\ DOMAIN new = DOMAIN Children(n)
         /\ \A k \in DOMAIN new :
              /\ IsEntry(new[k])
              /\ Children(n)[k].at \in Segments
              /\ new[k].path = Append(p, Children(n)[k].at)
              /\ new[k].scope = EnterField(n, Children(n)[k].at, sc)
              /\ new[k] = [node |-> new[k].node, path |-> new[k].path, scope |-> new[k].scope]
         /\ \A k, l \in DOMAIN new : new[k].path = new[l].path => k = l
<1>1. /\ Children(n) \in Seq([at : Segments, node : Nodes])
      /\ \A i, j \in DOMAIN Children(n) : Children(n)[i].at = Children(n)[j].at => i = j
  BY ChildrenAssumption
<1>2. DOMAIN new = DOMAIN Children(n) /\ DOMAIN new = 1..Len(Children(n)) /\ Len(Children(n)) \in Nat
  BY <1>1 DEF PushChildren
<1>3. ASSUME NEW k \in DOMAIN new
      PROVE  /\ Children(n)[k].at \in Segments /\ Children(n)[k].node \in Nodes
             /\ new[k] = [node |-> Children(n)[k].node, path |-> Append(p, Children(n)[k].at),
                          scope |-> EnterField(n, Children(n)[k].at, sc)]
  <2>1. k \in DOMAIN Children(n) /\ k \in 1..Len(Children(n))
    BY <1>2
  <2>2. Children(n)[k] \in [at : Segments, node : Nodes]
    BY <1>1, <2>1, ElementOfSeq
  <2>3. new[k] = [node |-> Children(n)[k].node, path |-> Append(p, Children(n)[k].at),
                  scope |-> EnterField(n, Children(n)[k].at, sc)]
    BY <2>1 DEF PushChildren
  <2> QED
    BY <2>2, <2>3
<1>4. IsSequence(new)
  <2>1. new = [i \in 1..Len(Children(n)) |-> new[i]]
    BY <1>2 DEF PushChildren
  <2> QED
    BY <2>1, <1>2, FunctionIsSequence
<1>5. \A k \in DOMAIN new : IsEntry(new[k])
  BY <1>3 DEF IsEntry
<1>6. ASSUME NEW k \in DOMAIN new, NEW l \in DOMAIN new, new[k].path = new[l].path
      PROVE  k = l
  <2>1. Append(p, Children(n)[k].at) = Append(p, Children(n)[l].at)
    BY <1>3, <1>6
  <2>2. Children(n)[k].at = Children(n)[l].at
    BY <2>1, <1>3
  <2> QED
    BY <2>2, <1>1, <1>2
<1> QED
  BY <1>2, <1>3, <1>4, <1>5, <1>6
(* The same of the root, whose path is empty.                              *)
LEMMA RootEntries ==
  ASSUME NEW n \in Nodes, NEW sc, NEW new, new = PushChildren(n, <<>>, sc)
  PROVE  /\ IsSequence(new)
         /\ DOMAIN new = DOMAIN Children(n)
         /\ \A k \in DOMAIN new :
              /\ IsEntry(new[k])
              /\ Children(n)[k].at \in Segments
              /\ new[k].path = <<Children(n)[k].at>>
              /\ new[k].scope = EnterField(n, Children(n)[k].at, sc)
         /\ \A k, l \in DOMAIN new : new[k].path = new[l].path => k = l
<1> DEFINE p == <<>>
<1>1. p \in Seq(Segments) /\ new = PushChildren(n, p, sc)
  OBVIOUS
<1>2. \A at \in Segments : Append(p, at) = <<at>>
  OBVIOUS
<1> HIDE DEF p
<1>3. /\ IsSequence(new)
      /\ DOMAIN new = DOMAIN Children(n)
      /\ \A k \in DOMAIN new :
           /\ IsEntry(new[k])
           /\ Children(n)[k].at \in Segments
           /\ new[k].path = Append(p, Children(n)[k].at)
           /\ new[k].scope = EnterField(n, Children(n)[k].at, sc)
      /\ \A k, l \in DOMAIN new : new[k].path = new[l].path => k = l
  BY <1>1, PushedEntries
<1> QED
  BY <1>2, <1>3

LEMMA AppendGrows ==
  ASSUME NEW S, NEW s \in Seq(S), NEW x \in S
  PROVE  /\ Append(s, x) \in Seq(S)
         /\ Append(s, x) # <<>>
         /\ Len(s) \in Nat
         /\ Len(Append(s, x)) = Len(s) + 1
OBVIOUS

LEMMA SamePathSameParent ==
  \A s, t \in Seq(Segments), x, y \in Segments : Append(s, x) = Append(t, y) => s = t
OBVIOUS
-----------------------------------------------------------------------------
(* The queue starts with the children of the root.                         *)
LEMMA InitIInv == Init => IInv
<1> SUFFICES ASSUME Init PROVE IInv
  OBVIOUS
<1> DEFINE new == PushChildren(tree, <<>>, EnterNode(tree, NoScope))
<1>1. tree \in Nodes /\ tree \in Trees /\ queue = new /\ next = 1
  BY ChildrenAssumption DEF Init
<1>3. /\ IsSequence(new)
      /\ DOMAIN new = DOMAIN Children(tree)
      /\ \A k \in DOMAIN new :
           /\ IsEntry(new[k])
           /\ Children(tree)[k].at \in Segments
           /\ new[k].path = <<Children(tree)[k].at>>
      /\ \A k, l \in DOMAIN new : new[k].path = new[l].path => k = l
  <2> HIDE DEF new
  <2>1. new = PushChildren(tree, <<>>, EnterNode(tree, NoScope))
    BY DEF new
  <2> QED
    BY <1>1, <2>1, RootEntries
<1> HIDE DEF new
<1>4. Len(queue) \in Nat /\ DOMAIN queue = 1..Len(queue)
  BY <1>1, <1>3, ConcatSequences
<1>5. TypeOK
  BY <1>1, <1>3, <1>4 DEF TypeOK
<1>6. \A i \in DOMAIN queue : Len(queue[i].path) = 1
  <2>1. \A at \in Segments : Len(<<at>>) = 1
    OBVIOUS
  <2> QED
    BY <1>1, <1>3, <2>1
<1>7. VisitedOnce
  BY <1>1, <1>3 DEF VisitedOnce
<1>8. BreadthFirst
  BY <1>6 DEF BreadthFirst
<1>9. OneLevelAhead
  BY <1>1, <1>4, <1>6 DEF OneLevelAhead
<1>10. Origins
  BY <1>1, <1>3 DEF Origins, Origin, ChildOf, new
<1> QED
  BY <1>5, <1>7, <1>8, <1>9, <1>10 DEF IInv

(* An entry keeps its origin: the entry it comes from stays in its place.  *)
LEMMA OriginKept ==
  ASSUME NEW entry, NEW root, NEW n \in Nat, NEW m \in Nat, n <= m,
         NEW q, NEW r, \A j \in 1..n : r[j] = q[j],
         Origin(entry, root, q, n)
  PROVE  Origin(entry, root, r, m)
<1>1. 1..n \subseteq 1..m
  OBVIOUS
<1> QED
  BY <1>1 DEF Origin

(* The path of an entry has a first segment, and what is left without the  *)
(* last one is the path of the entry it comes from, or nothing.            *)
LEMMA PathsGrow ==
  ASSUME TypeOK, Origins, NEW i \in DOMAIN queue
  PROVE  \E at \in Segments :
           \/ queue[i].path = <<at>>
           \/ \E j \in 1..(next - 1) :
                j \in DOMAIN queue /\ queue[i].path = Append(queue[j].path, at)
<1>1. /\ tree \in Nodes
      /\ \A j \in 1..(next - 1) : j \in DOMAIN queue /\ IsEntry(queue[j])
  <2>1. DOMAIN queue = 1..Len(queue) /\ Len(queue) \in Nat
    BY ConcatSequences DEF TypeOK
  <2>2. \A j \in 1..(next - 1) : j \in DOMAIN queue
    BY <2>1 DEF TypeOK
  <2>3. tree \in Nodes
    BY ChildrenAssumption DEF TypeOK
  <2> QED
    BY <2>2, <2>3 DEF TypeOK
<1>2. CASE ChildOf(queue[i], tree, <<>>, EnterNode(tree, NoScope))
  <2>1. PICK k \in DOMAIN Children(tree) :
          queue[i] = PushChildren(tree, <<>>, EnterNode(tree, NoScope))[k]
    BY <1>2 DEF ChildOf
  <2> DEFINE new == PushChildren(tree, <<>>, EnterNode(tree, NoScope))
  <2>2. DOMAIN new = DOMAIN Children(tree)
        /\ \A l \in DOMAIN new : /\ Children(tree)[l].at \in Segments
                                 /\ new[l].path = <<Children(tree)[l].at>>
    <3>1. new = PushChildren(tree, <<>>, EnterNode(tree, NoScope))
      OBVIOUS
    <3> HIDE DEF new
    <3> QED
      BY <3>1, <1>1, RootEntries
  <2> QED
    BY <2>1, <2>2
<1>3. ASSUME NEW j \in 1..(next - 1),
             ChildOf(queue[i], queue[j].node, queue[j].path,
                     EnterNode(queue[j].node, queue[j].scope))
      PROVE  \E at \in Segments : queue[i].path = Append(queue[j].path, at)
  <2> DEFINE new == PushChildren(queue[j].node, queue[j].path,
                                 EnterNode(queue[j].node, queue[j].scope))
  <2>1. PICK k \in DOMAIN Children(queue[j].node) : queue[i] = new[k]
    BY <1>3 DEF ChildOf
  <2>2. DOMAIN new = DOMAIN Children(queue[j].node)
        /\ \A l \in DOMAIN new :
             /\ Children(queue[j].node)[l].at \in Segments
             /\ new[l].path = Append(queue[j].path, Children(queue[j].node)[l].at)
    <3>1. new = PushChildren(queue[j].node, queue[j].path,
                             EnterNode(queue[j].node, queue[j].scope))
      OBVIOUS
    <3> HIDE DEF new
    <3> QED
      BY <3>1, <1>1, PushedEntries DEF IsEntry
  <2> QED
    BY <2>1, <2>2
<1> QED
  BY <1>1, <1>2, <1>3 DEF Origins, Origin

(* The children of what comes out go behind everything that waits.         *)
LEMMA StepIInv == IInv /\ [Reduce]_vars => IInv'
<1> SUFFICES ASSUME IInv, [Reduce]_vars PROVE IInv'
  OBVIOUS
<1>1. CASE UNCHANGED vars
  <2>1. tree' = tree /\ queue' = queue /\ next' = next
    BY <1>1 DEF vars
  <2> QED
    BY <2>1 DEF IInv, TypeOK, VisitedOnce, BreadthFirst, Origins, OneLevelAhead
<1>2. CASE Reduce
  <2> DEFINE e   == queue[next]
             new == PushChildren(e.node, e.path, EnterNode(e.node, e.scope))
             N   == Len(queue)
             M   == Len(new)
  <2>1. /\ next \in DOMAIN queue
        /\ IsEntry(e)
        /\ queue' = queue \o new
        /\ next' = next + 1
        /\ tree' = tree
    BY <1>2, StepAppends DEF IInv
  <2>2. /\ IsSequence(new)
        /\ DOMAIN new = DOMAIN Children(e.node)
        /\ \A k \in DOMAIN new :
             /\ IsEntry(new[k])
             /\ Children(e.node)[k].at \in Segments
             /\ new[k].path = Append(e.path, Children(e.node)[k].at)
        /\ \A k, l \in DOMAIN new : new[k].path = new[l].path => k = l
    <3>1. new = PushChildren(e.node, e.path, EnterNode(e.node, e.scope))
      OBVIOUS
    <3> HIDE DEF new, e
    <3> QED
      BY <3>1, <2>1, PushedEntries DEF IsEntry
  <2> HIDE DEF e, new
  <2>3. /\ IsSequence(queue')
        /\ N \in Nat /\ M \in Nat
        /\ Len(queue') = N + M
        /\ DOMAIN queue = 1..N /\ DOMAIN new = 1..M /\ DOMAIN queue' = 1..(N + M)
        /\ \A i \in 1..N : queue'[i] = queue[i]
        /\ \A k \in 1..M : queue'[N + k] = new[k]
    BY <2>1, <2>2, ConcatSequences DEF IInv, TypeOK
  <2> HIDE DEF N, M
  <2>4. \A i \in DOMAIN queue' : i \in 1..N \/ \E k \in 1..M : i = N + k
    <3> SUFFICES ASSUME NEW i \in 1..(N + M), i \notin 1..N
                 PROVE  \E k \in 1..M : i = N + k
      BY <2>3
    <3>1. i - N \in 1..M /\ i = N + (i - N)
      BY <2>3
    <3> QED
      BY <3>1
  <2>5. next \in 1..N /\ next' \in 1..(N + 1)
    BY <2>1, <2>3
  <2>6. /\ e.path \in Seq(Segments) /\ Len(e.path) \in Nat
        /\ \A i \in 1..N : queue[i].path \in Seq(Segments) /\ Len(queue[i].path) \in Nat
        /\ \A k \in 1..M : Len(new[k].path) = Len(e.path) + 1
    <3>1. e.path \in Seq(Segments) /\ Len(e.path) \in Nat
      BY <2>1 DEF IsEntry
    <3>2. ASSUME NEW i \in 1..N
          PROVE  queue[i].path \in Seq(Segments) /\ Len(queue[i].path) \in Nat
      <4>1. IsEntry(queue[i])
        BY <2>3 DEF IInv, TypeOK
      <4> QED
        BY <4>1 DEF IsEntry
    <3>3. ASSUME NEW k \in 1..M PROVE Len(new[k].path) = Len(e.path) + 1
      <4>1. Children(e.node)[k].at \in Segments
            /\ new[k].path = Append(e.path, Children(e.node)[k].at)
        BY <2>2, <2>3
      <4> QED
        BY <4>1, <3>1, AppendGrows
    <3> QED
      BY <3>1, <3>2, <3>3
  <2>7. TypeOK'
    <3>1. tree' \in Trees /\ next' \in 1..(Len(queue') + 1)
      BY <2>1, <2>3, <2>5 DEF IInv, TypeOK
    <3>2. ASSUME NEW i \in DOMAIN queue' PROVE IsEntry(queue'[i])
      <4>1. CASE i \in 1..N
        BY <4>1, <2>3 DEF IInv, TypeOK
      <4>2. ASSUME NEW k \in 1..M, i = N + k PROVE IsEntry(queue'[i])
        BY <4>2, <2>2, <2>3
      <4> QED
        BY <4>1, <4>2, <2>4
    <3> QED
      BY <2>3, <3>1, <3>2 DEF TypeOK
  <2>8. BreadthFirst'
    <3> SUFFICES ASSUME NEW i \in DOMAIN queue', NEW j \in DOMAIN queue', i < j
                 PROVE  Len(queue'[i].path) <= Len(queue'[j].path)
      BY DEF BreadthFirst
    <3>1. CASE i \in 1..N /\ j \in 1..N
      BY <3>1, <2>3 DEF IInv, BreadthFirst
    <3>2. ASSUME i \in 1..N, NEW k \in 1..M, j = N + k
          PROVE  Len(queue'[i].path) <= Len(queue'[j].path)
      <4>1. Len(queue[i].path) <= Len(e.path) + 1
        BY <3>2, <2>3, <2>5 DEF IInv, OneLevelAhead, e, N
      <4> QED
        BY <4>1, <3>2, <2>3, <2>6
    <3>3. ASSUME NEW k \in 1..M, NEW l \in 1..M, i = N + k, j = N + l
          PROVE  Len(queue'[i].path) <= Len(queue'[j].path)
      <4>1. Len(queue'[i].path) = Len(e.path) + 1 /\ Len(queue'[j].path) = Len(e.path) + 1
        BY <3>3, <2>3, <2>6
      <4> QED
        BY <4>1, <2>6
    <3>4. ASSUME NEW k \in 1..M, i = N + k, j \in 1..N PROVE FALSE
      BY <3>4, <2>3
    <3> QED
      BY <3>1, <3>2, <3>3, <3>4, <2>4
  <2>9. OneLevelAhead'
    <3> SUFFICES ASSUME next' <= Len(queue'), NEW i \in DOMAIN queue'
                 PROVE  Len(queue'[i].path) <= Len(queue'[next'].path) + 1
      BY DEF OneLevelAhead
    <3>1. next \in DOMAIN queue' /\ next' \in DOMAIN queue' /\ next < next'
      BY <2>1, <2>3, <2>5
    <3>2. Len(e.path) <= Len(queue'[next'].path)
      BY <3>1, <2>8, <2>3, <2>5 DEF BreadthFirst, e
    <3>3. Len(queue'[i].path) <= Len(e.path) + 1
      <4>1. CASE i \in 1..N
        BY <4>1, <2>3, <2>5 DEF IInv, OneLevelAhead, e, N
      <4>2. ASSUME NEW k \in 1..M, i = N + k
            PROVE  Len(queue'[i].path) <= Len(e.path) + 1
        <5>1. Len(queue'[i].path) = Len(e.path) + 1
          BY <4>2, <2>3, <2>6
        <5> QED
          BY <5>1, <2>6
      <4> QED
        BY <4>1, <4>2, <2>4
    <3>4. /\ Len(queue'[i].path) \in Nat /\ Len(queue'[next'].path) \in Nat
      BY <2>7, <3>1 DEF TypeOK, IsEntry
    <3> QED
      BY <3>2, <3>3, <3>4, <2>6
  <2>10. Origins'
    <3> SUFFICES ASSUME NEW i \in DOMAIN queue'
                 PROVE  Origin(queue'[i], tree, queue', next)
      BY <2>1, <2>5 DEF Origins
    <3>1. CASE i \in 1..N
      <4>1. Origin(queue'[i], tree, queue, next - 1)
        BY <3>1, <2>3 DEF IInv, Origins
      <4>2. next - 1 \in Nat /\ next \in Nat /\ next - 1 <= next
            /\ \A j \in 1..(next - 1) : queue'[j] = queue[j]
        BY <2>3, <2>5
      <4> QED
        BY <4>1, <4>2, OriginKept
    <3>2. ASSUME NEW k \in 1..M, i = N + k PROVE Origin(queue'[i], tree, queue', next)
      <4>1. queue'[i] = new[k] /\ k \in DOMAIN Children(e.node) /\ queue'[next] = e
        BY <3>2, <2>2, <2>3, <2>5 DEF e
      <4>2. ChildOf(queue'[i], e.node, e.path, EnterNode(e.node, e.scope))
        BY <4>1 DEF ChildOf, new
      <4> QED
        BY <4>1, <4>2, <2>5 DEF Origin
    <3> QED
      BY <3>1, <3>2, <2>4
  <2>11. ASSUME NEW i \in 1..N, NEW k \in 1..M PROVE queue[i].path # new[k].path
    <3> SUFFICES ASSUME queue[i].path = new[k].path PROVE FALSE
      OBVIOUS
    <3>1. PICK at \in Segments : new[k].path = Append(e.path, at)
      BY <2>2, <2>3
    <3>2. PICK bt \in Segments :
            \/ queue[i].path = <<bt>>
            \/ \E j \in 1..(next - 1) :
                 j \in DOMAIN queue /\ queue[i].path = Append(queue[j].path, bt)
      BY <2>3, PathsGrow DEF IInv
    <3>3. CASE queue[i].path = <<bt>>
      <4>1. e.path = <<>>
        BY <3>1, <3>3, <2>6, Len(<<bt>>) = 1, AppendGrows
      <4>2. PICK ct \in Segments :
              \/ e.path = <<ct>>
              \/ \E j \in 1..(next - 1) :
                   j \in DOMAIN queue /\ e.path = Append(queue[j].path, ct)
        BY <2>1, PathsGrow DEF IInv, e
      <4>3. \A j \in 1..(next - 1) : j \in DOMAIN queue => Append(queue[j].path, ct) # <<>>
        BY <2>3, <2>6, AppendGrows
      <4>4. <<ct>> # <<>>
        OBVIOUS
      <4> QED
        BY <4>1, <4>2, <4>3, <4>4
    <3>4. ASSUME NEW j \in 1..(next - 1), j \in DOMAIN queue,
                 queue[i].path = Append(queue[j].path, bt)
          PROVE  FALSE
      <4>1. Append(queue[j].path, bt) = Append(e.path, at)
        BY <3>1, <3>4
      <4>2. queue[j].path \in Seq(Segments) /\ e.path \in Seq(Segments)
        BY <3>4, <2>3, <2>6
      <4>3. queue[j].path = e.path
        <5> DEFINE above == queue[j].path
                   here  == e.path
        <5>1. /\ above \in Seq(Segments) /\ here \in Seq(Segments)
              /\ Append(above, bt) = Append(here, at)
          BY <4>1, <4>2
        <5> HIDE DEF above, here
        <5>2. above = here
          BY <5>1, SamePathSameParent
        <5> QED
          BY <5>2 DEF above, here
      <4>4. j = next
        BY <4>3, <3>4, <2>1 DEF IInv, VisitedOnce, e
      <4> QED
        BY <4>4, <2>5
    <3> QED
      BY <3>2, <3>3, <3>4
  <2>12. VisitedOnce'
    <3> SUFFICES ASSUME NEW i \in DOMAIN queue', NEW j \in DOMAIN queue',
                        queue'[i].path = queue'[j].path
                 PROVE  i = j
      BY DEF VisitedOnce
    <3>1. CASE i \in 1..N /\ j \in 1..N
      BY <3>1, <2>3 DEF IInv, VisitedOnce
    <3>2. ASSUME NEW k \in 1..M, NEW l \in 1..M, i = N + k, j = N + l
          PROVE  i = j
      <4>1. new[k].path = new[l].path
        BY <3>2, <2>3
      <4> QED
        BY <4>1, <3>2, <2>2, <2>3
    <3>3. ASSUME i \in 1..N, NEW k \in 1..M, j = N + k PROVE FALSE
      <4>1. queue[i].path = new[k].path
        BY <3>3, <2>3
      <4> QED
        BY <4>1, <3>3, <2>11
    <3>4. ASSUME NEW k \in 1..M, i = N + k, j \in 1..N PROVE FALSE
      <4>1. queue[j].path = new[k].path
        BY <3>4, <2>3
      <4> QED
        BY <4>1, <3>4, <2>11
    <3> QED
      BY <3>1, <3>2, <3>3, <3>4, <2>4
  <2> QED
    BY <2>7, <2>8, <2>9, <2>10, <2>12 DEF IInv
<1> QED
  BY <1>1, <1>2
-----------------------------------------------------------------------------
LEMMA LastOfAppend ==
  ASSUME NEW S, NEW s \in Seq(S), NEW x \in S
  PROVE  LET t == Append(s, x)
         IN t[Len(t)] = x /\ SubSeq(t, 1, Len(t) - 1) = s
<1> DEFINE t == Append(s, x)
           u == SubSeq(t, 1, Len(t) - 1)
<1>1. t \in Seq(S) /\ Len(t) = Len(s) + 1 /\ Len(s) \in Nat
      /\ t[Len(s) + 1] = x /\ \A i \in 1..Len(s) : t[i] = s[i]
  OBVIOUS
<1> HIDE DEF t
<1>2. u \in Seq(S) /\ Len(u) = Len(s) /\ \A i \in 1..Len(s) : u[i] = t[i]
  <2>1. 1 \in 1..(Len(t) + 1) /\ Len(t) - 1 \in 0..Len(t) /\ Len(t) - 1 = Len(s)
    BY <1>1
  <2> QED
    BY <2>1, <1>1, SubSeqProperties
<1> HIDE DEF u
<1>3. u = s
  BY <1>1, <1>2, SeqEqual
<1> QED
  BY <1>1, <1>3 DEF t, u

(* What an entry is, field by field: the walk shows the caller its node    *)
(* and path, and the scope inside the node.                                *)
LEMMA VisitedScope ==
  ASSUME IInv, NEW i \in DOMAIN queue
  PROVE  Visit(queue[i]).scope = EnterNode(queue[i].node, queue[i].scope)
<1>1. queue[i] = [node |-> queue[i].node, path |-> queue[i].path, scope |-> queue[i].scope]
  BY DEF IInv, Origins, Origin, ChildOf, PushChildren
<1> QED
  BY <1>1 DEF Visit

(* Where an entry comes from decides its scope.                            *)
LEMMA ScopeInherited == IInv => ScopeIsInherited
<1> SUFFICES ASSUME IInv, NEW i \in DOMAIN queue
             PROVE  LET at == queue[i].path[Len(queue[i].path)]
                        above == SubSeq(queue[i].path, 1, Len(queue[i].path) - 1)
                    IN IF above = <<>>
                       THEN queue[i].scope = EnterField(tree, at, EnterNode(tree, NoScope))
                       ELSE \E j \in 1..(next - 1) :
                              /\ queue[j].path = above
                              /\ queue[i].scope =
                                   EnterField(queue[j].node, at, Visit(queue[j]).scope)
  BY DEF ScopeIsInherited
<1> DEFINE at == queue[i].path[Len(queue[i].path)]
           above == SubSeq(queue[i].path, 1, Len(queue[i].path) - 1)
<1>1. /\ tree \in Nodes
      /\ \A j \in 1..(next - 1) : j \in DOMAIN queue /\ IsEntry(queue[j])
  <2>1. DOMAIN queue = 1..Len(queue) /\ Len(queue) \in Nat
    BY ConcatSequences DEF IInv, TypeOK
  <2>2. \A j \in 1..(next - 1) : j \in DOMAIN queue
    BY <2>1 DEF IInv, TypeOK
  <2>3. tree \in Nodes
    BY ChildrenAssumption DEF IInv, TypeOK
  <2> QED
    BY <2>2, <2>3 DEF IInv, TypeOK
<1>2. CASE ChildOf(queue[i], tree, <<>>, EnterNode(tree, NoScope))
  <2> DEFINE new == PushChildren(tree, <<>>, EnterNode(tree, NoScope))
  <2>1. PICK k \in DOMAIN Children(tree) : queue[i] = new[k]
    BY <1>2 DEF ChildOf
  <2>2. /\ DOMAIN new = DOMAIN Children(tree)
        /\ \A l \in DOMAIN new :
             /\ Children(tree)[l].at \in Segments
             /\ new[l].path = <<Children(tree)[l].at>>
             /\ new[l].scope = EnterField(tree, Children(tree)[l].at, EnterNode(tree, NoScope))
    <3>1. new = PushChildren(tree, <<>>, EnterNode(tree, NoScope))
      OBVIOUS
    <3> HIDE DEF new
    <3> QED
      BY <3>1, <1>1, RootEntries
  <2> HIDE DEF new
  <2>3. PICK bt \in Segments :
          /\ queue[i].path = <<bt>>
          /\ queue[i].scope = EnterField(tree, bt, EnterNode(tree, NoScope))
    BY <2>1, <2>2
  <2>4. at = bt /\ above = <<>>
    <3>1. <<>> \in Seq(Segments) /\ Append(<<>>, bt) = <<bt>>
      OBVIOUS
    <3> DEFINE p == <<>>
    <3>2. p \in Seq(Segments) /\ Append(p, bt) = <<bt>>
      BY <3>1
    <3> HIDE DEF p
    <3>3. <<bt>>[Len(<<bt>>)] = bt /\ SubSeq(<<bt>>, 1, Len(<<bt>>) - 1) = p
      BY <3>2, LastOfAppend
    <3> QED
      BY <2>3, <3>3 DEF p
  <2> QED
    BY <2>3, <2>4
<1>3. ASSUME NEW j \in 1..(next - 1),
             ChildOf(queue[i], queue[j].node, queue[j].path,
                     EnterNode(queue[j].node, queue[j].scope))
      PROVE  /\ above # <<>>
             /\ queue[j].path = above
             /\ queue[i].scope = EnterField(queue[j].node, at, Visit(queue[j]).scope)
  <2> DEFINE new == PushChildren(queue[j].node, queue[j].path,
                                 EnterNode(queue[j].node, queue[j].scope))
  <2>1. PICK k \in DOMAIN Children(queue[j].node) : queue[i] = new[k]
    BY <1>3 DEF ChildOf
  <2>2. /\ DOMAIN new = DOMAIN Children(queue[j].node)
        /\ \A l \in DOMAIN new :
             /\ Children(queue[j].node)[l].at \in Segments
             /\ new[l].path = Append(queue[j].path, Children(queue[j].node)[l].at)
             /\ new[l].scope = EnterField(queue[j].node, Children(queue[j].node)[l].at,
                                          EnterNode(queue[j].node, queue[j].scope))
    <3>1. new = PushChildren(queue[j].node, queue[j].path,
                             EnterNode(queue[j].node, queue[j].scope))
      OBVIOUS
    <3> HIDE DEF new
    <3> QED
      BY <3>1, <1>1, PushedEntries DEF IsEntry
  <2> HIDE DEF new
  <2>3. PICK bt \in Segments :
          /\ queue[i].path = Append(queue[j].path, bt)
          /\ queue[i].scope = EnterField(queue[j].node, bt,
                                         EnterNode(queue[j].node, queue[j].scope))
    BY <2>1, <2>2
  <2>4. j \in DOMAIN queue /\ queue[j].path \in Seq(Segments)
    BY <1>1 DEF IsEntry
  <2>5. at = bt /\ above = queue[j].path
    BY <2>3, <2>4, LastOfAppend
  <2>6. queue[j].path # <<>>
    <3>1. PICK ct \in Segments :
            \/ queue[j].path = <<ct>>
            \/ \E l \in 1..(next - 1) :
                 l \in DOMAIN queue /\ queue[j].path = Append(queue[l].path, ct)
      BY <2>4, PathsGrow DEF IInv
    <3>2. <<ct>> # <<>>
      OBVIOUS
    <3>3. \A l \in 1..(next - 1) : Append(queue[l].path, ct) # <<>>
      BY <1>1, AppendGrows DEF IsEntry
    <3> QED
      BY <3>1, <3>2, <3>3
  <2>7. Visit(queue[j]).scope = EnterNode(queue[j].node, queue[j].scope)
    BY <2>4, VisitedScope
  <2> QED
    BY <2>3, <2>5, <2>6, <2>7
<1>4. Origin(queue[i], tree, queue, next - 1)
  BY DEF IInv, Origins
<1>5. CASE above = <<>>
  BY <1>2, <1>3, <1>4, <1>5 DEF Origin
<1>6. CASE above # <<>>
  BY <1>2, <1>3, <1>4, <1>6 DEF Origin
<1> QED
  BY <1>5, <1>6
-----------------------------------------------------------------------------
(* The invariant the four theorems rest on.                                *)
THEOREM WalkInvariant == Spec => []IInv
  BY InitIInv, StepIInv, PTL DEF Spec

(* What waits are nodes of the tree under paths of its segments.           *)
THEOREM WalkTypeCorrect == Spec => []TypeOK
<1>1. IInv => TypeOK
  BY DEF IInv
<1> QED
  BY <1>1, WalkInvariant, PTL

(* reduce visits every node of any tree once, whatever the caller does     *)
(* with it.                                                                *)
THEOREM WalkVisitsOnce == Spec => []VisitedOnce
<1>1. IInv => VisitedOnce
  BY DEF IInv
<1> QED
  BY <1>1, WalkInvariant, PTL

(* The queue of reduce makes the walk breadth-first: no node is visited    *)
(* before one that is closer to the root.                                  *)
THEOREM WalkIsBreadthFirst == Spec => []BreadthFirst
<1>1. IInv => BreadthFirst
  BY DEF IInv
<1> QED
  BY <1>1, WalkInvariant, PTL

(* The scope of a visit is that of the node above it, taken into the       *)
(* field, however many nodes of other parts of the tree were visited in    *)
(* between: any scope rules may rely on it, those of the analysis too.     *)
THEOREM WalkInheritsScope == Spec => []ScopeIsInherited
  BY ScopeInherited, WalkInvariant, PTL
=============================================================================
