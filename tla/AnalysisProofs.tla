---------------------------- MODULE AnalysisProofs ----------------------------
(***************************************************************************)
(* What the analysis finds in any tree that the grammar can make.          *)
(***************************************************************************)
EXTENDS Analysis, AstWalkProofs, FiniteSetTheorems, NaturalsInduction, WellFoundedInduction

Root == [node |-> tree, path |-> <<>>, scope |-> NoScope]

(* What is put into the queue for the k-th child of an entry.              *)
ChildEntry(e, k) ==
  [node  |-> Children(e.node)[k].node,
   path  |-> Append(e.path, Children(e.node)[k].at),
   scope |-> EnterField(e.node, Children(e.node)[k].at, EnterNode(e.node, e.scope))]

LEMMA SameLength ==
  ASSUME NEW m \in Nat, NEW n \in Nat, 1..m = 1..n PROVE m = n
<1>1. m <= n
  <2>1. m = 0 \/ m \in 1..n
    OBVIOUS
  <2> QED BY <2>1
<1>2. n <= m
  <2>1. n = 0 \/ n \in 1..m
    OBVIOUS
  <2> QED BY <2>1
<1> QED BY <1>1, <1>2

(* The children of an entry.                                               *)
LEMMA ChildrenOf ==
  ASSUME NEW n \in Nodes
  PROVE  /\ Len(Children(n)) \in Nat
         /\ DOMAIN Children(n) = 1..Len(Children(n))
         /\ \A k \in 1..Len(Children(n)) :
              /\ Children(n)[k].at \in Segments /\ Children(n)[k].node \in Nodes
              /\ Children(n)[k] \in Range(Children(n))
         /\ \A k, l \in 1..Len(Children(n)) :
              Children(n)[k].at = Children(n)[l].at => k = l
         /\ \A kid \in Range(Children(n)) :
              \E k \in 1..Len(Children(n)) : kid = Children(n)[k]
<1>1. /\ Children(n) \in Seq([at : Segments, node : Nodes])
      /\ \A i, j \in DOMAIN Children(n) : Children(n)[i].at = Children(n)[j].at => i = j
  BY ChildrenAssumption
<1>2. Len(Children(n)) \in Nat /\ DOMAIN Children(n) = 1..Len(Children(n))
  BY <1>1
<1>3. \A k \in 1..Len(Children(n)) : Children(n)[k] \in [at : Segments, node : Nodes]
  BY <1>1, <1>2, ElementOfSeq
<1> QED BY <1>1, <1>2, <1>3 DEF Range

(* The queue at the start, and what a step does to it.                     *)
QueueFrom(e, q, n, r, c) ==
  /\ e.node \in Nodes /\ n \in Nat /\ c \in Nat /\ c = Len(Children(e.node))
  /\ DOMAIN r = 1..(n + c)
  /\ \A i \in 1..n : r[i] = q[i]
  /\ \A k \in 1..c : r[n + k] = ChildEntry(e, k)

LEMMA InitQueue ==
  ASSUME Init
  PROVE  /\ QueueFrom(Root, <<>>, 0, queue, Len(Children(tree)))
         /\ tree \in Trees /\ tree \in Nodes /\ next = 1 /\ acc = Nothing
<1>1. tree \in Trees /\ tree \in Nodes /\ next = 1 /\ acc = Nothing
  BY ChildrenAssumption DEF Init
<1>2. /\ Root.node = tree /\ Root.path = <<>> /\ Root.scope = NoScope
      /\ Len(Children(tree)) \in Nat /\ DOMAIN Children(tree) = 1..Len(Children(tree))
  BY <1>1, ChildrenOf DEF Root
<1>3. queue = PushChildren(tree, <<>>, EnterNode(tree, NoScope))
  BY DEF Init
<1>4. DOMAIN queue = 1..Len(Children(tree))
  BY <1>2, <1>3 DEF PushChildren
<1>5. \A k \in 1..Len(Children(tree)) : queue[k] = ChildEntry(Root, k)
  BY <1>2, <1>3 DEF PushChildren, ChildEntry
<1> QED BY <1>1, <1>2, <1>4, <1>5 DEF QueueFrom

LEMMA StepQueue ==
  ASSUME IInv, Reduce
  PROVE  /\ QueueFrom(queue[next], queue, Len(queue), queue', Len(Children(queue[next].node)))
         /\ next \in 1..Len(queue) /\ DOMAIN queue = 1..Len(queue)
         /\ queue[next].path \in Seq(Segments)
         /\ next' = next + 1 /\ tree' = tree /\ tree \in Trees /\ tree \in Nodes
         /\ acc' = Collect([node |-> queue[next].node, path |-> queue[next].path,
                            scope |-> EnterNode(queue[next].node, queue[next].scope)], acc)
<1> DEFINE e == queue[next]
           new == PushChildren(e.node, e.path, EnterNode(e.node, e.scope))
           c == Len(Children(e.node))
<1>1. /\ next \in DOMAIN queue /\ IsEntry(e) /\ queue' = queue \o new
      /\ next' = next + 1 /\ tree' = tree
  BY StepAppends DEF IInv
<1>2. e.node \in Nodes /\ e.path \in Seq(Segments) /\ tree \in Trees /\ tree \in Nodes
  BY <1>1, ChildrenAssumption DEF IsEntry, IInv, TypeOK
<1>3. e = [node |-> e.node, path |-> e.path, scope |-> e.scope]
  BY <1>1 DEF IInv, Origins, Origin, ChildOf, PushChildren
<1>4. acc' = Collect([node |-> e.node, path |-> e.path, scope |-> EnterNode(e.node, e.scope)], acc)
  BY <1>3 DEF Reduce, Visit
<1>5. c \in Nat /\ DOMAIN Children(e.node) = 1..c
  BY <1>2, ChildrenOf
<1>6. DOMAIN new = 1..c /\ \A k \in 1..c : new[k] = ChildEntry(e, k)
  BY <1>5 DEF PushChildren, ChildEntry
<1>7. IsSequence(new) /\ IsSequence(queue)
  <2>1. IsSequence(queue)
    BY DEF IInv, TypeOK
  <2>2. new = [k \in 1..c |-> new[k]]
    BY <1>5 DEF PushChildren
  <2> HIDE DEF new, c
  <2> QED BY <2>1, <2>2, <1>5, FunctionIsSequence
<1> HIDE DEF new, c
<1>8. Len(new) = c
  <2>1. Len(new) \in Nat /\ DOMAIN new = 1..Len(new)
    BY <1>7, ConcatSequences
  <2> QED BY <2>1, <1>5, <1>6, SameLength
<1>9. /\ Len(queue) \in Nat /\ DOMAIN queue = 1..Len(queue)
      /\ DOMAIN (queue \o new) = 1..(Len(queue) + c)
      /\ \A i \in 1..Len(queue) : (queue \o new)[i] = queue[i]
      /\ \A k \in 1..c : (queue \o new)[Len(queue) + k] = new[k]
  BY <1>7, <1>8, ConcatSequences
<1>10. QueueFrom(e, queue, Len(queue), queue', c)
  BY <1>1, <1>2, <1>5, <1>6, <1>9 DEF QueueFrom, c
<1> QED BY <1>1, <1>2, <1>4, <1>9, <1>10 DEF c
-----------------------------------------------------------------------------
(* What AST.update reaches.  The recursion of UpdateReaches defines it.    *)
Reached(r, node, path, n) ==
  r = [k \in 0..n |-> IF k = 0 THEN {node} ELSE AllAt(r[k - 1], path[k])]

LEMMA LeastNumber ==
  ASSUME NEW T \in SUBSET Nat, T # {}
  PROVE  \E n \in T : \A m \in T : n <= m
<1>1. PICK n \in T : \A m \in T : <<m, n>> \notin OpToRel(<, Nat)
  BY NatLessThanWellFounded, WFMin
<1>2. \A m \in T : ~(m < n)
  BY <1>1 DEF OpToRel
<1> QED BY <1>2

LEMMA FromZeroUp ==
  ASSUME NEW N \in Nat, NEW T, 0 \in T, \A n \in 1..N : n - 1 \in T => n \in T
  PROVE  N \in T
<1> DEFINE Bad == {n \in 0..N : n \notin T}
<1> SUFFICES ASSUME Bad # {} PROVE FALSE
  OBVIOUS
<1>1. PICK n \in Bad : \A m \in Bad : n <= m
  <2>1. Bad \in SUBSET Nat
    OBVIOUS
  <2> HIDE DEF Bad
  <2> QED BY <2>1, LeastNumber
<1>2. n \in 1..N /\ n - 1 \in 0..N /\ n - 1 \notin Bad
  BY <1>1
<1> QED BY <1>1, <1>2

LEMMA ReachedAre ==
  ASSUME NEW N \in Nat, NEW node, NEW path, NEW r, Reached(r, node, path, N)
  PROVE  r[0] = {node} /\ \A n \in 1..N : r[n] = AllAt(r[n - 1], path[n])
<1>1. 0 \in 0..N /\ \A n \in 1..N : n \in 0..N /\ n # 0
  OBVIOUS
<1>2. \A n \in 0..N : r[n] = IF n = 0 THEN {node} ELSE AllAt(r[n - 1], path[n])
  BY Zenon DEF Reached
<1> QED BY <1>1, <1>2

LEMMA ReachedExists ==
  ASSUME NEW node, NEW path, NEW N \in Nat
  PROVE  \E r : Reached(r, node, path, N)
<1> DEFINE T == {n \in Nat : \E r : Reached(r, node, path, n)}
<1>1. 0 \in T
  <2>1. Reached([k \in 0..0 |-> {node}], node, path, 0)
    BY DEF Reached
  <2> QED BY <2>1
<1>2. ASSUME NEW n \in 1..N, n - 1 \in T PROVE n \in T
  <2>1. PICK r : Reached(r, node, path, n - 1)
    BY <1>2
  <2> DEFINE t == [k \in 0..n |-> IF k = n THEN AllAt(r[n - 1], path[n]) ELSE r[k]]
  <2>2. ASSUME NEW k \in 0..n
        PROVE  t[k] = IF k = 0 THEN {node} ELSE AllAt(t[k - 1], path[k])
    <3>1. CASE k = n
      BY <3>1
    <3>2. CASE k # n
      <4>1. k \in 0..(n - 1)
        BY <3>2
      <4>2. r[k] = IF k = 0 THEN {node} ELSE AllAt(r[k - 1], path[k])
        BY <2>1, <4>1 DEF Reached
      <4> QED BY <3>2, <4>2
    <3> QED BY <3>1, <3>2
  <2>3. t = [k \in 0..n |-> IF k = 0 THEN {node} ELSE AllAt(t[k - 1], path[k])]
    BY <2>2
  <2>4. Reached(t, node, path, n)
    BY <2>3 DEF Reached
  <2> QED BY <2>4
<1> HIDE DEF T
<1>3. N \in T
  BY <1>1, <1>2, FromZeroUp
<1> QED BY <1>3 DEF T

LEMMA UpdateReachesIs ==
  ASSUME NEW node, NEW path, NEW N \in Nat, Len(path) = N
  PROVE  \E r : Reached(r, node, path, N) /\ UpdateReaches(node, path) = r[N]
<1> DEFINE Is(r) == r = [k \in 0..Len(path) |->
                           IF k = 0 THEN {node} ELSE AllAt(r[k - 1], path[k])]
<1>1. UpdateReaches(node, path) = (CHOOSE r : Is(r))[Len(path)]
  BY DEF UpdateReaches
<1>2. \A r : Is(r) <=> Reached(r, node, path, N)
  BY Zenon DEF Reached
<1>3. \E r : Reached(r, node, path, N)
  BY ReachedExists
<1> HIDE DEF Is
<1>4. Is(CHOOSE r : Is(r))
  BY <1>2, <1>3
<1> QED BY <1>1, <1>2, <1>4

(* One segment more: a step down.                                          *)
Starts(r, node, path, N) ==
  N \in Nat /\ r[0] = {node} /\ \A n \in 1..N : r[n] = AllAt(r[n - 1], path[n])

Alike(r, s, node, p, q, N) ==
  /\ Starts(r, node, p, N) /\ Starts(s, node, q, N + 1)
  /\ \A k \in 1..N : p[k] = q[k]

LEMMA ReachedAgrees ==
  ASSUME NEW node, NEW p, NEW q, NEW r, NEW s, NEW N, Alike(r, s, node, p, q, N)
  PROVE  r[N] = s[N]
<1> DEFINE T == {n \in 0..N : r[n] = s[n]}
<1>a. /\ Starts(r, node, p, N) /\ Starts(s, node, q, N + 1) /\ N \in Nat
      /\ \A k \in 1..N : p[k] = q[k]
  BY DEF Alike, Starts
<1>1. 0 \in T
  BY <1>a DEF Starts
<1>2. ASSUME NEW n \in 1..N, n - 1 \in T PROVE n \in T
  <2>1. n \in 1..(N + 1) /\ n \in 0..N
    BY <1>a
  <2>2. r[n] = AllAt(r[n - 1], p[n]) /\ s[n] = AllAt(s[n - 1], q[n])
    BY <1>a, <2>1 DEF Starts
  <2> QED BY <1>a, <1>2, <2>1, <2>2
<1> HIDE DEF T
<1>3. N \in T
  BY <1>a, <1>1, <1>2, FromZeroUp
<1> QED BY <1>3 DEF T

LEMMA UpdateReachesNothing ==
  ASSUME NEW node PROVE UpdateReaches(node, <<>>) = {node}
<1>1. Len(<<>>) = 0
  OBVIOUS
<1>2. PICK r : Reached(r, node, <<>>, 0) /\ UpdateReaches(node, <<>>) = r[0]
  BY <1>1, UpdateReachesIs
<1> QED BY <1>2 DEF Reached

LEMMA UpdateReachesMore ==
  ASSUME NEW node, NEW S, NEW path \in Seq(S), NEW at \in S
  PROVE  UpdateReaches(node, Append(path, at)) = AllAt(UpdateReaches(node, path), at)
<1> DEFINE longer == Append(path, at)
           N == Len(path)
<1>1. /\ N \in Nat /\ N + 1 \in Nat /\ Len(longer) = N + 1
      /\ longer[N + 1] = at /\ \A k \in 1..N : path[k] = longer[k]
  OBVIOUS
<1>2. PICK r : Starts(r, node, path, N) /\ UpdateReaches(node, path) = r[N]
  <2>1. PICK r : Reached(r, node, path, N) /\ UpdateReaches(node, path) = r[N]
    BY <1>1, UpdateReachesIs
  <2>2. r[0] = {node} /\ \A n \in 1..N : r[n] = AllAt(r[n - 1], path[n])
    BY <1>1, <2>1, ReachedAre
  <2> QED BY <1>1, <2>1, <2>2 DEF Starts
<1> HIDE DEF longer
<1>3. PICK s : Starts(s, node, longer, N + 1) /\ UpdateReaches(node, longer) = s[N + 1]
  <2> DEFINE M == N + 1
  <2>1. M \in Nat /\ Len(longer) = M
    BY <1>1
  <2> HIDE DEF M
  <2>2. PICK s : Reached(s, node, longer, M) /\ UpdateReaches(node, longer) = s[M]
    BY <2>1, UpdateReachesIs
  <2>3. s[0] = {node} /\ \A n \in 1..M : s[n] = AllAt(s[n - 1], longer[n])
    BY <2>1, <2>2, ReachedAre
  <2> QED BY <2>1, <2>2, <2>3 DEF Starts, M
<1> HIDE DEF N
<1>4. r[N] = s[N]
  <2>1. Alike(r, s, node, path, longer, N)
    BY <1>1, <1>2, <1>3 DEF Alike
  <2> QED BY <2>1, ReachedAgrees
<1>5. s[N + 1] = AllAt(s[(N + 1) - 1], longer[N + 1])
  <2>1. N + 1 \in 1..(N + 1)
    BY <1>1
  <2> QED BY <1>3, <2>1 DEF Starts
<1>6. (N + 1) - 1 = N
  BY <1>1
<1> QED BY <1>1, <1>2, <1>3, <1>4, <1>5, <1>6 DEF longer

LEMMA DownOne ==
  ASSUME NEW e, e.node \in Nodes, e.path \in Seq(Segments),
         NEW k \in 1..Len(Children(e.node)), NEW root,
         UpdateReaches(root, e.path) = {e.node}, Kind(e.node) # "A_Const"
  PROVE  UpdateReaches(root, ChildEntry(e, k).path) = {ChildEntry(e, k).node}
<1> DEFINE kid == Children(e.node)[k]
<1>1. /\ kid.at \in Segments /\ kid \in Range(Children(e.node))
      /\ \A other \in Range(Children(e.node)) : other.at = kid.at => other = kid
  BY ChildrenOf
<1>2. UpdateReaches(root, Append(e.path, kid.at)) = AllAt({e.node}, kid.at)
  <2> DEFINE at == kid.at
             p == e.path
  <2>1. p \in Seq(Segments) /\ at \in Segments
    BY <1>1
  <2>2. UpdateReaches(root, Append(p, at)) = AllAt(UpdateReaches(root, p), at)
    <3> HIDE DEF p, at
    <3> QED BY <2>1, UpdateReachesMore
  <2> QED BY <2>2
<1>3. AllAt({e.node}, kid.at) = {kid.node}
  <2> HIDE DEF kid
  <2> QED BY <1>1 DEF AllAt
<1> QED BY <1>2, <1>3 DEF ChildEntry

LEMMA PathsInit == Init => PathsLeadBack
<1> SUFFICES ASSUME Init PROVE PathsLeadBack
  OBVIOUS
<1>1. /\ QueueFrom(Root, <<>>, 0, queue, Len(Children(tree))) /\ tree \in Nodes
      /\ Kind(tree) # "A_Const"
  BY InitQueue, RootsAssumption
<1>2. /\ Root.node = tree /\ Root.path = <<>> /\ Root.path \in Seq(Segments)
  BY DEF Root
<1>3. /\ DOMAIN queue = 1..Len(Children(Root.node))
      /\ \A k \in 1..Len(Children(Root.node)) : queue[k] = ChildEntry(Root, k)
  BY <1>1, <1>2 DEF QueueFrom
<1>4. UpdateReaches(tree, Root.path) = {Root.node}
  BY <1>2, UpdateReachesNothing
<1>5. ASSUME NEW k \in 1..Len(Children(Root.node))
      PROVE  UpdateReaches(tree, queue[k].path) = {queue[k].node}
  <2>1. Root.node \in Nodes /\ Kind(Root.node) # "A_Const"
    BY <1>1, <1>2
  <2> HIDE DEF Root
  <2>2. UpdateReaches(tree, ChildEntry(Root, k).path) = {ChildEntry(Root, k).node}
    BY <1>2, <1>4, <1>5, <2>1, DownOne
  <2> QED BY <1>3, <2>2
<1> QED BY <1>3, <1>5 DEF PathsLeadBack

LEMMA StartOfLonger ==
  ASSUME NEW S, NEW p \in Seq(S), NEW at \in S, NEW n \in 0..Len(p)
  PROVE  SubSeq(Append(p, at), 1, n) = SubSeq(p, 1, n)
<1>1. /\ Append(p, at) \in Seq(S) /\ Len(p) \in Nat /\ n \in Nat
      /\ \A k \in 1..n : Append(p, at)[k] = p[k]
  OBVIOUS
<1>2. ASSUME NEW s \in Seq(S), n <= Len(s)
      PROVE  SubSeq(s, 1, n) \in Seq(S) /\ Len(SubSeq(s, 1, n)) = n
             /\ \A k \in 1..n : SubSeq(s, 1, n)[k] = s[k]
  BY <1>1, <1>2
<1>3. /\ SubSeq(Append(p, at), 1, n) \in Seq(S) /\ Len(SubSeq(Append(p, at), 1, n)) = n
      /\ \A k \in 1..n : SubSeq(Append(p, at), 1, n)[k] = Append(p, at)[k]
  <2>1. n <= Len(Append(p, at))
    BY <1>1
  <2> QED BY <1>1, <1>2, <2>1
<1>4. /\ SubSeq(p, 1, n) \in Seq(S) /\ Len(SubSeq(p, 1, n)) = n
      /\ \A k \in 1..n : SubSeq(p, 1, n)[k] = p[k]
  BY <1>1, <1>2
<1>5. ASSUME NEW s \in Seq(S), NEW t \in Seq(S), Len(s) = n, Len(t) = n,
             \A k \in 1..n : s[k] = t[k]
      PROVE  s = t
  BY <1>5
<1> QED BY <1>1, <1>3, <1>4, <1>5

LEMMA PathsStep == IInv /\ PathsLeadBack /\ Reduce => PathsLeadBack'
<1> SUFFICES ASSUME IInv, PathsLeadBack, Reduce PROVE PathsLeadBack'
  OBVIOUS
<1> DEFINE e == queue[next]
           n == Len(queue)
           c == Len(Children(e.node))
           Back(i) ==
             \/ UpdateReaches(tree, queue'[i].path) = {queue'[i].node}
             \/ \E j \in 1..(i - 1) :
                  /\ Kind(queue'[j].node) = "A_Const"
                  /\ queue'[j].path = SubSeq(queue'[i].path, 1, Len(queue'[j].path))
<1>1. /\ QueueFrom(e, queue, n, queue', c) /\ next \in 1..n /\ DOMAIN queue = 1..n
      /\ e.path \in Seq(Segments) /\ tree' = tree
  BY StepQueue
<1> HIDE DEF n, c
<1>2. /\ e.node \in Nodes /\ n \in Nat /\ c \in Nat /\ c = Len(Children(e.node))
      /\ DOMAIN queue' = 1..(n + c)
      /\ \A i \in 1..n : queue'[i] = queue[i]
      /\ \A k \in 1..c : queue'[n + k] = ChildEntry(e, k)
  BY <1>1 DEF QueueFrom
<1>3. ASSUME NEW i \in 1..n
      PROVE  \/ UpdateReaches(tree, queue[i].path) = {queue[i].node}
             \/ \E j \in 1..(i - 1) : /\ Kind(queue[j].node) = "A_Const"
                                      /\ queue[j].path = SubSeq(queue[i].path, 1, Len(queue[j].path))
  BY <1>1 DEF PathsLeadBack
<1>4. ASSUME NEW i \in 1..n PROVE Back(i)
  <2>1. \A j \in 1..(i - 1) : j \in 1..n
    BY <1>2
  <2> QED BY <1>2, <1>3, <2>1
<1>5. ASSUME NEW k \in 1..c
      PROVE  Back(n + k)
  <2> DEFINE at == Children(e.node)[k].at
  <2>1. /\ queue'[n + k] = ChildEntry(e, k) /\ ChildEntry(e, k).path = Append(e.path, at)
        /\ at \in Segments /\ k \in 1..Len(Children(e.node))
    BY <1>2, ChildrenOf DEF ChildEntry
  <2>2. next \in 1..((n + k) - 1) /\ queue'[next] = e
    BY <1>1, <1>2
  <2>3. Len(e.path) \in Nat /\ Len(e.path) \in 0..Len(e.path)
    BY <1>1
  <2>4. CASE UpdateReaches(tree, e.path) = {e.node} /\ Kind(e.node) # "A_Const"
    <3> HIDE DEF e
    <3>1. UpdateReaches(tree, ChildEntry(e, k).path) = {ChildEntry(e, k).node}
      BY <1>1, <1>2, <2>1, <2>4, DownOne
    <3> QED BY <2>1, <3>1
  <2>5. CASE Kind(e.node) = "A_Const"
    <3>1. SubSeq(Append(e.path, at), 1, Len(e.path)) = SubSeq(e.path, 1, Len(e.path))
      BY <1>1, <2>1, <2>3, StartOfLonger
    <3>2. SubSeq(e.path, 1, Len(e.path)) = e.path
      BY <1>1
    <3>3. queue'[next].path = SubSeq(queue'[n + k].path, 1, Len(queue'[next].path))
      BY <2>1, <2>2, <3>1, <3>2
    <3>4. Kind(queue'[next].node) = "A_Const"
      BY <2>2, <2>5
    <3> HIDE DEF e
    <3> QED BY <2>2, <3>3, <3>4
  <2>6. ASSUME NEW j \in 1..(next - 1), Kind(queue[j].node) = "A_Const",
               queue[j].path = SubSeq(e.path, 1, Len(queue[j].path))
        PROVE  /\ j \in 1..((n + k) - 1) /\ Kind(queue'[j].node) = "A_Const"
               /\ queue'[j].path = SubSeq(queue'[n + k].path, 1, Len(queue'[j].path))
    <3>1. j \in 1..n /\ j < next /\ j \in 1..((n + k) - 1)
      BY <1>1, <1>2
    <3>2. Len(queue[j].path) <= Len(e.path) /\ queue[j].path \in Seq(Segments)
      BY <1>1, <3>1 DEF IInv, BreadthFirst, TypeOK, IsEntry
    <3>3. Len(queue[j].path) \in 0..Len(e.path)
      BY <3>2, <2>3
    <3>4. SubSeq(Append(e.path, at), 1, Len(queue[j].path)) = SubSeq(e.path, 1, Len(queue[j].path))
      BY <1>1, <2>1, <3>3, StartOfLonger
    <3> QED BY <1>2, <2>1, <2>6, <3>1, <3>4
  <2> HIDE DEF Back
  <2>7. ASSUME NEW j \in 1..(next - 1), Kind(queue[j].node) = "A_Const",
               queue[j].path = SubSeq(e.path, 1, Len(queue[j].path))
        PROVE  Back(n + k)
    <3>1. /\ j \in 1..((n + k) - 1) /\ Kind(queue'[j].node) = "A_Const"
          /\ queue'[j].path = SubSeq(queue'[n + k].path, 1, Len(queue'[j].path))
      BY <2>6, <2>7
    <3> QED BY <3>1 DEF Back
  <2> QED BY <1>1, <1>3, <2>4, <2>5, <2>7
<1>6. \A i \in 1..(n + c) : i \in 1..n \/ \E k \in 1..c : i = n + k
  <2>1. ASSUME NEW i \in 1..(n + c), i \notin 1..n PROVE i - n \in 1..c /\ i = n + (i - n)
    BY <1>2, <2>1
  <2> QED BY <2>1
<1>7. \A i \in 1..(n + c) : Back(i)
  <2> HIDE DEF Back
  <2> QED BY <1>4, <1>5, <1>6
<1> QED BY <1>1, <1>2, <1>7 DEF PathsLeadBack

(* AST.update finds the node that a visit shows, by the path that it shows *)
(* with it, in every tree; but for what is below an A_Const.               *)
THEOREM PathsAreGood == Spec => []PathsLeadBack
<1>1. IInv /\ PathsLeadBack /\ [Reduce]_vars => PathsLeadBack'
  <2> SUFFICES ASSUME IInv, PathsLeadBack, UNCHANGED vars PROVE PathsLeadBack'
    BY PathsStep
  <2>1. queue' = queue /\ tree' = tree
    BY DEF vars
  <2> QED BY <2>1 DEF PathsLeadBack
<1> QED BY PathsInit, <1>1, WalkInvariant, PTL DEF Spec
-----------------------------------------------------------------------------
(* The collectors, one by one.                                             *)
IsResult(r) ==
  r = [tables |-> r.tables, table_aliases |-> r.table_aliases, cte_names |-> r.cte_names,
       functions |-> r.functions, filter_columns |-> r.filter_columns,
       parameter_references |-> r.parameter_references, statement_types |-> r.statement_types]

(* What the properties below look at stays as it is.                       *)
SameElse(r, s) ==
  /\ IsResult(s)
  /\ s.cte_names = r.cte_names
  /\ s.parameter_references = r.parameter_references
  /\ s.statement_types = r.statement_types

LEMMA OtherCollectors ==
  ASSUME NEW v, NEW m, NEW r, IsResult(r)
  PROVE  /\ SameElse(r, DropObjects(v, m, r))
         /\ SameElse(r, FilterColumns(v, m, r))
         /\ SameElse(r, Tables(v, m, r))
         /\ SameElse(r, Functions(v, m, r))
<1>1. SameElse(r, DropObjects(v, m, r))
  BY DEF SameElse, IsResult, DropObjects
<1>2. SameElse(r, FilterColumns(v, m, r))
  BY DEF SameElse, IsResult, FilterColumns
<1>3. SameElse(r, Tables(v, m, r))
  BY DEF SameElse, IsResult, Tables
<1>4. SameElse(r, Functions(v, m, r))
  BY DEF SameElse, IsResult, Functions
<1> QED BY <1>1, <1>2, <1>3, <1>4

CteHolders == {"SelectStmt", "UpdateStmt", "MergeStmt"}

(* What the first two collectors make of r.                                *)
Gathered(v, m, r, s) ==
  /\ IsResult(s)
  /\ s.parameter_references = r.parameter_references
  /\ s.statement_types = IF m.kind = "RawStmt"
                         THEN Append(r.statement_types, StatementType(v.node))
                         ELSE r.statement_types
  /\ s.cte_names = IF m.kind \in CteHolders THEN r.cte_names \cup v.scope.cte_names
                   ELSE r.cte_names

LEMMA TypesAndCtes ==
  ASSUME NEW v, NEW m, NEW r, IsResult(r)
  PROVE  Gathered(v, m, r, ScopeMetadata(v, m, StatementTypes(v, m, r)))
<1> DEFINE t == StatementTypes(v, m, r)
<1>1. /\ IsResult(t) /\ t.cte_names = r.cte_names
      /\ t.parameter_references = r.parameter_references
      /\ t.statement_types = IF m.kind = "RawStmt"
                             THEN Append(r.statement_types, StatementType(v.node))
                             ELSE r.statement_types
  BY DEF IsResult, StatementTypes
<1> HIDE DEF t
<1>2. /\ IsResult(ScopeMetadata(v, m, t))
      /\ ScopeMetadata(v, m, t).parameter_references = t.parameter_references
      /\ ScopeMetadata(v, m, t).statement_types = t.statement_types
      /\ ScopeMetadata(v, m, t).cte_names =
           IF m.kind \in CteHolders THEN t.cte_names \cup v.scope.cte_names ELSE t.cte_names
  BY <1>1 DEF IsResult, ScopeMetadata, CteHolders
<1> QED BY <1>1, <1>2 DEF t, Gathered

LEMMA ReferencesAdded ==
  ASSUME NEW v, NEW m, NEW r, IsResult(r)
  PROVE  LET s == ParameterReferences(v, m, r) IN
         /\ IsResult(s)
         /\ s.cte_names = r.cte_names /\ s.statement_types = r.statement_types
         /\ s.parameter_references = r.parameter_references \cup References(v.node, v.path)
BY DEF ParameterReferences, IsResult

(* What all of them make of r.                                             *)
Gains(v, r, c) ==
  /\ IsResult(c)
  /\ c.parameter_references = r.parameter_references \cup References(v.node, v.path)
  /\ c.statement_types = IF Kind(v.node) = "RawStmt"
                         THEN Append(r.statement_types, StatementType(v.node))
                         ELSE r.statement_types
  /\ c.cte_names = IF Kind(v.node) \in CteHolders THEN r.cte_names \cup v.scope.cte_names
                   ELSE r.cte_names

LEMMA Collected ==
  ASSUME NEW v, NEW r, IsResult(r) PROVE Gains(v, r, CollectAll(v, r))
<1> DEFINE m == Message(v.node)
           s == ScopeMetadata(v, m, StatementTypes(v, m, r))
           d == DropObjects(v, m, s)
           f == FilterColumns(v, m, d)
           t == Tables(v, m, f)
           u == Functions(v, m, t)
           c == ParameterReferences(v, m, u)
<1>8. CollectAll(v, r) = c
  BY DEF CollectAll
<1> HIDE DEF m
<1>1. Gathered(v, m, r, s)
  BY TypesAndCtes
<1> HIDE DEF s
<1>2. SameElse(s, d)
  BY <1>1, OtherCollectors DEF Gathered
<1> HIDE DEF d
<1>3. SameElse(d, f)
  BY <1>2, OtherCollectors DEF SameElse
<1> HIDE DEF f
<1>4. SameElse(f, t)
  BY <1>3, OtherCollectors DEF SameElse
<1> HIDE DEF t
<1>5. SameElse(t, u)
  BY <1>4, OtherCollectors DEF SameElse
<1> HIDE DEF u
<1>6. SameElse(s, u)
  BY <1>2, <1>3, <1>4, <1>5 DEF SameElse
<1>7. /\ IsResult(c)
      /\ c.cte_names = u.cte_names /\ c.statement_types = u.statement_types
      /\ c.parameter_references = u.parameter_references \cup References(v.node, v.path)
  BY <1>5, ReferencesAdded DEF SameElse
<1> HIDE DEF c
<1>9. m = Message(v.node) /\ m.kind = Kind(v.node)
  BY DEF m, Kind
<1> QED BY <1>1, <1>6, <1>7, <1>8, <1>9 DEF SameElse, Gathered, Gains
-----------------------------------------------------------------------------
(* The statements are what the walk visits next after their list, and      *)
(* there are no others.                                                    *)
Stmts == Children(Children(tree)[1].node)
Types == [i \in DOMAIN Stmts |-> StatementType(Stmts[i].node)]
Seen(n, m) == IF n = 1 THEN 0 ELSE IF n - 2 < m THEN n - 2 ELSE m

(* No entry of the queue but the first is a list of statements, and only   *)
(* those after it are statements.                                          *)
NoOther(i, node, m) ==
  /\ Kind(node) # "ParseResult"
  /\ i > 1 => ~IsStatementList(node)
  /\ i = 1 \/ i > 1 + m => Kind(node) # "RawStmt"

StatementsQueued(q, n) ==
  /\ 1 \in DOMAIN q /\ q[1].node = Children(tree)[1].node
  /\ n = 1 => DOMAIN q = 1..1
  /\ n > 1 => \A i \in 1..Len(Stmts) : 1 + i \in DOMAIN q /\ q[1 + i].node = Stmts[i].node
  /\ \A i \in DOMAIN q : NoOther(i, q[i].node, Len(Stmts))

TypesInv ==
  /\ IsResult(acc)
  /\ StatementsQueued(queue, next)
  /\ acc.statement_types = [i \in 1..Seen(next, Len(Stmts)) |-> Types[i]]

LEMMA AppendOne ==
  ASSUME NEW k \in Nat, NEW f
  PROVE  Append([i \in 1..k |-> f[i]], f[k + 1]) = [i \in 1..(k + 1) |-> f[i]]
<1> DEFINE S == {f[i] : i \in 1..(k + 1)}
           s == [i \in 1..k |-> f[i]]
           t == [i \in 1..(k + 1) |-> f[i]]
<1>1. \A i \in 1..(k + 1) : f[i] \in S
  OBVIOUS
<1> HIDE DEF S
<1>2. s \in Seq(S) /\ Len(s) = k /\ t \in Seq(S) /\ Len(t) = k + 1 /\ f[k + 1] \in S
  BY <1>1
<1>3. \A i \in 1..k : s[i] = t[i]
  OBVIOUS
<1>4. t[k + 1] = f[k + 1]
  OBVIOUS
<1> HIDE DEF s, t
<1>5. Append(s, f[k + 1]) \in Seq(S) /\ Len(Append(s, f[k + 1])) = k + 1
  BY <1>2
<1>6. \A i \in 1..(k + 1) : Append(s, f[k + 1])[i] = t[i]
  BY <1>2, <1>3, <1>4
<1>7. Append(s, f[k + 1]) = t
  BY <1>2, <1>5, <1>6
<1> QED BY <1>7 DEF s, t

LEMMA TheStatements ==
  ASSUME tree \in Trees
  PROVE  /\ Len(Children(tree)) = 1 /\ Children(tree)[1].node \in Nodes /\ tree \in Nodes
         /\ Len(Stmts) \in Nat /\ DOMAIN Stmts = 1..Len(Stmts)
         /\ \A i \in 1..Len(Stmts) : Kind(Stmts[i].node) = "RawStmt"
<1>1. tree \in Nodes /\ Len(Children(tree)) = 1
  BY ChildrenAssumption, RootsAssumption
<1>2. Children(tree)[1].node \in Nodes
  BY <1>1, ChildrenOf
<1>3. /\ Len(Stmts) \in Nat /\ DOMAIN Stmts = 1..Len(Stmts)
      /\ \A i \in 1..Len(Stmts) : Stmts[i] \in Range(Stmts)
  BY <1>2, ChildrenOf DEF Stmts
<1>4. \A kid \in Range(Stmts) : Kind(kid.node) = "RawStmt"
  BY RootsAssumption DEF Stmts
<1> QED BY <1>1, <1>2, <1>3, <1>4

LEMMA TypesInit == IsAnalysis /\ Init => TypesInv
<1> SUFFICES ASSUME IsAnalysis, Init PROVE TypesInv
  OBVIOUS
<1>1. /\ QueueFrom(Root, <<>>, 0, queue, Len(Children(tree)))
      /\ tree \in Trees /\ next = 1 /\ acc = EmptyResult
  BY InitQueue DEF IsAnalysis
<1>2. /\ DOMAIN queue = 1..1 /\ queue[1] = ChildEntry(Root, 1) /\ Root.node = tree
  <2>1. Len(Children(tree)) = 1
    BY <1>1, TheStatements
  <2>2. QueueFrom(Root, <<>>, 0, queue, 1)
    BY <1>1, <2>1
  <2>3. DOMAIN queue = 1..(0 + 1) /\ \A k \in 1..1 : queue[0 + k] = ChildEntry(Root, k)
    BY <2>2 DEF QueueFrom
  <2> QED BY <2>3 DEF Root
<1>3. queue[1].node = Children(tree)[1].node
  BY <1>2 DEF ChildEntry
<1>4. NoOther(1, queue[1].node, Len(Stmts))
  <2>1. Children(tree)[1] \in Range(Children(tree)) /\ tree \in Nodes /\ Kind(tree) = "ParseResult"
    BY <1>1, ChildrenOf, TheStatements, RootsAssumption
  <2>2. Kind(Children(tree)[1].node) \notin {"ParseResult", "RawStmt"}
    BY <2>1, GrammarAssumption
  <2> QED BY <1>3, <2>2 DEF NoOther
<1>5. StatementsQueued(queue, next)
  BY <1>1, <1>2, <1>3, <1>4 DEF StatementsQueued
<1>6. IsResult(acc) /\ acc.statement_types = <<>>
  BY <1>1 DEF EmptyResult, IsResult
<1>7. Seen(next, Len(Stmts)) = 0
  BY <1>1 DEF Seen
<1> QED BY <1>5, <1>6, <1>7 DEF TypesInv

LEMMA TypesStep == IsAnalysis /\ IInv /\ TypesInv /\ Reduce => TypesInv'
<1> SUFFICES ASSUME IsAnalysis, IInv, TypesInv, Reduce PROVE TypesInv'
  OBVIOUS
<1> DEFINE e == queue[next]
           n == Len(queue)
           c == Len(Children(e.node))
           m == Len(Stmts)
           visit == [node |-> e.node, path |-> e.path, scope |-> EnterNode(e.node, e.scope)]
<1>1. /\ QueueFrom(e, queue, n, queue', c) /\ next \in 1..n /\ DOMAIN queue = 1..n
      /\ tree' = tree /\ next' = next + 1 /\ tree \in Trees
      /\ acc' = CollectAll(visit, acc)
  BY StepQueue DEF IsAnalysis
<1>2. /\ m \in Nat /\ DOMAIN Stmts = 1..m /\ Stmts' = Stmts /\ Types' = Types
      /\ \A i \in 1..m : Kind(Stmts[i].node) = "RawStmt"
  BY <1>1, TheStatements DEF Stmts, Types
<1>3. /\ e.node \in Nodes /\ n \in Nat /\ c \in Nat /\ c = Len(Children(e.node))
      /\ DOMAIN queue' = 1..(n + c)
      /\ \A i \in 1..n : queue'[i] = queue[i]
      /\ \A k \in 1..c : queue'[n + k].node = Children(e.node)[k].node
  <2> HIDE DEF e, n, c
  <2>1. /\ e.node \in Nodes /\ n \in Nat /\ c \in Nat /\ c = Len(Children(e.node))
        /\ DOMAIN queue' = 1..(n + c)
        /\ \A i \in 1..n : queue'[i] = queue[i]
        /\ \A k \in 1..c : queue'[n + k] = ChildEntry(e, k)
    BY <1>1 DEF QueueFrom
  <2>2. \A k : ChildEntry(e, k).node = Children(e.node)[k].node
    BY DEF ChildEntry
  <2> QED BY <2>1, <2>2
<1> HIDE DEF n, c
<1>4. /\ IsResult(acc')
      /\ acc'.statement_types = IF Kind(e.node) = "RawStmt"
                                THEN Append(acc.statement_types, StatementType(e.node))
                                ELSE acc.statement_types
  <2>1. visit.node = e.node /\ IsResult(acc)
    BY DEF TypesInv
  <2> HIDE DEF visit, e
  <2>2. Gains(visit, acc, CollectAll(visit, acc))
    BY <2>1, Collected
  <2> QED BY <1>1, <2>1, <2>2 DEF Gains
<1>5. /\ 1 \in 1..n /\ queue[1].node = Children(tree)[1].node
      /\ next = 1 => n = 1
      /\ next > 1 => \A i \in 1..m : 1 + i \in 1..n /\ queue[1 + i].node = Stmts[i].node
      /\ \A i \in 1..n : NoOther(i, queue[i].node, m)
      /\ acc.statement_types = [i \in 1..Seen(next, m) |-> Types[i]]
  BY <1>1, <1>3, SameLength DEF TypesInv, StatementsQueued
<1>6. next = 1 => c = m /\ \A k \in 1..c : Children(e.node)[k] = Stmts[k]
  BY <1>3, <1>5 DEF Stmts
<1> HIDE DEF e, m
<1>7. ASSUME NEW k \in 1..c PROVE NoOther(n + k, queue'[n + k].node, m)
  <2> DEFINE kid == Children(e.node)[k]
  <2>1. kid \in Range(Children(e.node)) /\ queue'[n + k].node = kid.node
    BY <1>3, ChildrenOf
  <2>2. /\ Kind(kid.node) # "ParseResult"
        /\ IsStatementList(kid.node) => Kind(e.node) = "ParseResult"
        /\ Kind(kid.node) = "RawStmt" => Kind(e.node) = "list"
    BY <1>3, <2>1, GrammarAssumption
  <2>3. Kind(e.node) # "ParseResult" /\ (next > 1 => ~IsStatementList(e.node))
    BY <1>1, <1>5 DEF NoOther, e
  <2>4. Kind(kid.node) = "RawStmt" => next = 1
    BY <1>1, <1>3, <2>1, <2>2, <2>3 DEF IsStatementList, Has
  <2>5. next = 1 => n + k <= 1 + m
    BY <1>2, <1>3, <1>5, <1>6
  <2>6. n + k > 1 /\ n + k # 1
    BY <1>3, <1>5
  <2> QED BY <1>2, <1>3, <2>1, <2>2, <2>3, <2>4, <2>5, <2>6 DEF NoOther
<1>8. StatementsQueued(queue, next)'
  <2>1. \A i \in 1..(n + c) : i \in 1..n \/ \E k \in 1..c : i = n + k
    <3>1. ASSUME NEW i \in 1..(n + c), i \notin 1..n PROVE i - n \in 1..c /\ i = n + (i - n)
      BY <1>3, <3>1
    <3> QED BY <3>1
  <2>2. \A i \in 1..(n + c) : NoOther(i, queue'[i].node, m)
    BY <1>3, <1>5, <1>7, <2>1
  <2>3. next' # 1 /\ next' > 1
    BY <1>1, <1>3
  <2>4. ASSUME NEW i \in 1..m PROVE 1 + i \in 1..(n + c) /\ queue'[1 + i].node = Stmts[i].node
    <3>1. CASE next = 1
      BY <1>2, <1>3, <1>5, <1>6, <3>1
    <3>2. CASE next # 1
      BY <1>1, <1>2, <1>3, <1>5, <3>2
    <3> QED BY <3>1, <3>2
  <2>5. 1 \in 1..(n + c) /\ queue'[1].node = Children(tree)[1].node
    BY <1>3, <1>5
  <2> QED BY <1>1, <1>2, <1>3, <2>2, <2>3, <2>4, <2>5 DEF StatementsQueued, m
<1>9. acc'.statement_types = [i \in 1..Seen(next', m) |-> Types[i]]
  <2>1. CASE next \in 2..(1 + m)
    <3> DEFINE k == next - 2
    <3>1. /\ k \in Nat /\ Seen(next, m) = k /\ Seen(next', m) = k + 1 /\ k + 1 \in 1..m
          /\ 1 + (k + 1) = next
      BY <1>1, <1>2, <2>1 DEF Seen
    <3>2. queue[next].node = Stmts[k + 1].node
      BY <1>5, <2>1, <3>1
    <3>3. Kind(e.node) = "RawStmt" /\ StatementType(e.node) = Types[k + 1]
      BY <1>2, <3>1, <3>2 DEF e, Types
    <3> HIDE DEF k
    <3> QED BY <1>4, <1>5, <3>1, <3>3, AppendOne
  <2>2. CASE next \notin 2..(1 + m)
    <3>1. Seen(next', m) = Seen(next, m) /\ (next = 1 \/ next > 1 + m)
      BY <1>1, <1>2, <1>3, <2>2 DEF Seen
    <3>2. Kind(e.node) # "RawStmt"
      BY <1>1, <1>5, <3>1 DEF NoOther, e
    <3> QED BY <1>4, <1>5, <3>1, <3>2
  <2> QED BY <2>1, <2>2
<1> QED BY <1>2, <1>4, <1>8, <1>9 DEF TypesInv, m

(* What analyze reports as statement_types is in the order of the          *)
(* statements, one for each, although the collectors are called for nodes  *)
(* of all of them by turns.                                                *)
THEOREM TypesAreInOrder ==
  ASSUME IsAnalysis PROVE Spec => []TypesInQueryOrder
<1>1. IInv /\ TypesInv => TypesInQueryOrder
  <2> SUFFICES ASSUME IInv, TypesInv, Done
               PROVE  acc.statement_types = Types
    BY DEF TypesInQueryOrder, Types, Stmts
  <2>1. tree \in Trees /\ next \in 1..(Len(queue) + 1) /\ DOMAIN queue = 1..Len(queue)
        /\ Len(queue) \in Nat
    BY ConcatSequences DEF IInv, TypeOK
  <2>2. Len(Stmts) \in Nat /\ DOMAIN Stmts = 1..Len(Stmts)
    BY <2>1, TheStatements
  <2>3. next > Len(queue) /\ Len(queue) >= 1 /\ next > 1
    BY <2>1 DEF Done, TypesInv, StatementsQueued
  <2>4. \A i \in 1..Len(Stmts) : 1 + i \in 1..Len(queue)
    BY <2>1, <2>3 DEF TypesInv, StatementsQueued
  <2>5. Seen(next, Len(Stmts)) = Len(Stmts)
    <3> DEFINE m == Len(Stmts)
    <3>1. m = 0 \/ 1 + m \in 1..Len(queue)
      BY <2>2, <2>4
    <3> HIDE DEF m
    <3>2. m \in Nat
      BY <2>2 DEF m
    <3>3. Seen(next, m) = m
      BY <2>1, <2>3, <3>1, <3>2 DEF Seen
    <3> QED BY <3>3 DEF m
  <2>6. Types = [i \in 1..Len(Stmts) |-> Types[i]]
    BY <2>2 DEF Types
  <2> QED BY <2>5, <2>6 DEF TypesInv
<1>2. IInv /\ TypesInv /\ [Reduce]_vars => TypesInv'
  <2> SUFFICES ASSUME TypesInv, UNCHANGED vars PROVE TypesInv'
    BY TypesStep
  <2>1. queue' = queue /\ tree' = tree /\ next' = next /\ acc' = acc
    BY DEF vars
  <2> QED BY <2>1 DEF TypesInv, StatementsQueued, Stmts, Types
<1>3. Init => TypesInv
  BY TypesInit
<1> QED BY <1>1, <1>2, <1>3, WalkInvariant, PTL DEF Spec
-----------------------------------------------------------------------------
(* The children of what was visited are in the queue.                      *)
Followed ==
  \A i \in 1..(next - 1) : \A k \in 1..Len(Children(queue[i].node)) :
    \E j \in DOMAIN queue : queue[j] = ChildEntry(queue[i], k)

LEMMA FollowedStep == IInv /\ Followed /\ Reduce => Followed'
<1> SUFFICES ASSUME IInv, Followed, Reduce,
                    NEW i \in 1..(next' - 1), NEW k \in 1..Len(Children(queue'[i].node))
             PROVE  \E j \in DOMAIN queue' : queue'[j] = ChildEntry(queue'[i], k)
  BY DEF Followed
<1> DEFINE e == queue[next]
           n == Len(queue)
           c == Len(Children(e.node))
<1>1. /\ QueueFrom(e, queue, n, queue', c) /\ next \in 1..n /\ DOMAIN queue = 1..n
      /\ next' = next + 1
  BY StepQueue
<1> HIDE DEF n, c
<1>2. /\ n \in Nat /\ c \in Nat /\ c = Len(Children(e.node)) /\ DOMAIN queue' = 1..(n + c)
      /\ \A j \in 1..n : queue'[j] = queue[j]
      /\ \A l \in 1..c : queue'[n + l] = ChildEntry(e, l)
  BY <1>1 DEF QueueFrom
<1>3. i \in 1..n /\ queue'[i] = queue[i] /\ 1..n \subseteq 1..(n + c)
  BY <1>1, <1>2
<1>4. CASE i = next
  <2>1. n + k \in DOMAIN queue' /\ queue'[n + k] = ChildEntry(e, k) /\ e = queue'[i]
    BY <1>2, <1>3, <1>4
  <2> QED BY <2>1
<1>5. CASE i # next
  <2>1. i \in 1..(next - 1)
    BY <1>1, <1>5
  <2>2. PICK j \in DOMAIN queue : queue[j] = ChildEntry(queue[i], k)
    BY <1>3, <2>1 DEF Followed
  <2> HIDE DEF e
  <2>3. j \in DOMAIN queue' /\ queue'[j] = ChildEntry(queue'[i], k)
    BY <1>1, <1>2, <1>3, <2>2
  <2> QED BY <2>3
<1> QED BY <1>4, <1>5
-----------------------------------------------------------------------------
(* The scope: what the walk has put into it for a node stays in it below.  *)
IsScope(s) ==
  s = [statement |-> s.statement, current_cte |-> s.current_cte,
       recursive_cte |-> s.recursive_cte, in_subquery |-> s.in_subquery,
       in_from_clause |-> s.in_from_clause, in_condition |-> s.in_condition,
       aliases |-> s.aliases, cte_names |-> s.cte_names]

LEMMA FieldKeepsCtes ==
  ASSUME NEW n, NEW at, NEW s, IsScope(s)
  PROVE  IsScope(ScopeOfField(n, at, s)) /\ ScopeOfField(n, at, s).cte_names = s.cte_names
<1>1. PICK a, b, c, d :
        ScopeOfField(n, at, s) = [s EXCEPT !.statement = a, !.in_condition = b,
                                           !.in_from_clause = c, !.in_subquery = d]
  BY Zenon DEF ScopeOfField
<1> QED BY <1>1 DEF IsScope

LEMMA NodeAddsCtes ==
  ASSUME NEW n, NEW s, IsScope(s)
  PROVE  /\ IsScope(ScopeOfNode(n, s))
         /\ s.cte_names \subseteq ScopeOfNode(n, s).cte_names
         /\ Kind(n) \in Statements => CteNames(n) \subseteq ScopeOfNode(n, s).cte_names
<1> DEFINE t == ScopeOfNode(n, s)
           withCtes == [s EXCEPT !.cte_names = @ \cup CteNames(n)]
<1>1. IsScope(withCtes) /\ withCtes.cte_names = s.cte_names \cup CteNames(n)
  BY DEF IsScope
<1>2. CASE Kind(n) = "SelectStmt"
  <2> DEFINE new == PutAll(IF s.in_subquery THEN withCtes.aliases ELSE {}, FromAliases(n))
  <2>1. t = [withCtes EXCEPT !.aliases = new]
    BY <1>2 DEF ScopeOfNode
  <2> HIDE DEF withCtes, new, t
  <2> QED BY <1>1, <2>1 DEF IsScope, t
<1>3. CASE Kind(n) \in {"InsertStmt", "DeleteStmt"}
  <2>1. t = withCtes
    BY <1>3 DEF ScopeOfNode
  <2> HIDE DEF withCtes, t
  <2> QED BY <1>1, <2>1 DEF IsScope, t
<1>4. CASE Kind(n) = "UpdateStmt"
  <2> DEFINE new == PutAll(DirectAliases(n, "relation"), FromAliases(n))
  <2>1. t = [withCtes EXCEPT !.aliases = new]
    BY <1>4 DEF ScopeOfNode
  <2> HIDE DEF withCtes, new, t
  <2> QED BY <1>1, <2>1 DEF IsScope, t
<1>5. CASE Kind(n) = "MergeStmt"
  <2> DEFINE new == PutAll(DirectAliases(n, "relation"), DirectAliases(n, "source_relation"))
  <2>1. t = [withCtes EXCEPT !.aliases = new]
    BY <1>5 DEF ScopeOfNode
  <2> HIDE DEF withCtes, new, t
  <2> QED BY <1>1, <2>1 DEF IsScope, t
<1>6. CASE Kind(n) \notin Statements
  <2>1. \/ \E x : t = [s EXCEPT !.statement = x]
        \/ \E x : t = [s EXCEPT !.recursive_cte = x]
        \/ \E x : t = [s EXCEPT !.current_cte = x]
    <3>1. CASE Kind(n) = "FuncCall"
      BY <3>1 DEF ScopeOfNode
    <3>2. CASE Kind(n) = "WithClause"
      BY <3>2 DEF ScopeOfNode
    <3>3. CASE Kind(n) = "CommonTableExpr"
      BY <3>3 DEF ScopeOfNode
    <3>4. CASE Kind(n) \notin {"FuncCall", "WithClause", "CommonTableExpr"}
      BY <1>6, <3>4 DEF ScopeOfNode, Statements
    <3> QED BY <3>1, <3>2, <3>3, <3>4
  <2> HIDE DEF t
  <2>2. IsScope(t) /\ t.cte_names = s.cte_names
    BY <2>1 DEF IsScope
  <2> QED BY <1>6, <2>2 DEF t
<1> QED BY <1>2, <1>3, <1>4, <1>5, <1>6 DEF Statements

LEMMA ChildScope ==
  ASSUME IsAnalysis, NEW e, NEW k, IsScope(e.scope)
  PROVE  /\ IsScope(EnterNode(e.node, e.scope)) /\ IsScope(ChildEntry(e, k).scope)
         /\ ChildEntry(e, k).scope.cte_names = EnterNode(e.node, e.scope).cte_names
         /\ e.scope.cte_names \subseteq EnterNode(e.node, e.scope).cte_names
         /\ Kind(e.node) \in Statements =>
              CteNames(e.node) \subseteq EnterNode(e.node, e.scope).cte_names
<1> DEFINE s == ScopeOfNode(e.node, e.scope)
           at == Children(e.node)[k].at
<1>1. EnterNode(e.node, e.scope) = s /\ ChildEntry(e, k).scope = ScopeOfField(e.node, at, s)
  BY DEF IsAnalysis, ChildEntry
<1>2. /\ IsScope(s) /\ e.scope.cte_names \subseteq s.cte_names
      /\ Kind(e.node) \in Statements => CteNames(e.node) \subseteq s.cte_names
  BY NodeAddsCtes
<1> HIDE DEF s, at
<1>3. IsScope(ScopeOfField(e.node, at, s)) /\ ScopeOfField(e.node, at, s).cte_names = s.cte_names
  BY <1>2, FieldKeepsCtes
<1> QED BY <1>1, <1>2, <1>3
-----------------------------------------------------------------------------
(* The CTEs on the way to which a node stands: those of a WITH clause, of  *)
(* its list, and of the wrapper of one; and a CTE itself.                  *)
Due(node) ==
  (IF Kind(node) = "WithClause" THEN Below(node, "ctes") ELSE {})
  \cup (IF IsCteList(node) THEN Inside({kid.node : kid \in Range(Children(node))}) ELSE {})
  \cup (IF IsCteNode(node) THEN {kid.node : kid \in Range(Children(node))} ELSE {})
  \cup (IF Kind(node) = "CommonTableExpr" THEN {node} ELSE {})

NamesDue(node) == {Message(cte).ctename : cte \in Due(node)}

LEMMA InsideGrows ==
  ASSUME NEW S, NEW T, S \subseteq T PROVE Inside(S) \subseteq Inside(T)
BY DEF Inside

(* What is due at a child is due at its parent, or the parent declares it. *)
LEMMA DueBefore ==
  ASSUME NEW n \in Nodes, NEW kid \in Range(Children(n))
  PROVE  \/ Due(kid.node) \subseteq Due(n)
         \/ Kind(n) \in Statements /\ NamesDue(kid.node) \subseteq CteNames(n)
<1> DEFINE all == {k.node : k \in Range(Children(n))}
           below == {k.node : k \in Range(Children(kid.node))}
           kind == Kind(kid.node)
<1>1. kid.node \in all
  OBVIOUS
<1>2. /\ kind = "WithClause" => kid.at = Field("with_clause") /\ Kind(n) \in Statements
      /\ IsCteList(kid.node) => kid.at = Field("ctes") /\ Kind(n) = "WithClause"
      /\ IsCteNode(kid.node) => Kind(n) = "list"
      /\ kind = "CommonTableExpr" => Kind(n) = "Node"
  BY GrammarAssumption
<1>3. CASE kind = "CommonTableExpr"
  <2>1. Due(kid.node) = {kid.node}
    BY <1>3 DEF Due, IsCteList, IsCteNode
  <2>2. IsCteNode(n)
    BY <1>2, <1>3 DEF IsCteNode, Has
  <2> QED BY <1>1, <2>1, <2>2 DEF Due
<1>4. CASE IsCteNode(kid.node)
  <2>1. Due(kid.node) = below
    BY <1>4 DEF Due, IsCteList, IsCteNode
  <2>2. IsCteList(n)
    BY <1>2, <1>4 DEF IsCteList
  <2>3. below \subseteq Inside(all)
    BY <1>1, <1>4 DEF Inside, IsCteNode, Wrappers
  <2> QED BY <2>1, <2>2, <2>3 DEF Due
<1>5. CASE IsCteList(kid.node)
  <2> DEFINE ctes == {k.node : k \in {l \in Range(Children(n)) : l.at = Field("ctes")}}
  <2>1. Due(kid.node) = Inside(below)
    BY <1>5 DEF Due, IsCteList, IsCteNode
  <2>2. below \subseteq Inside(ctes)
    <3>1. kid.node \in ctes
      BY <1>2, <1>5
    <3> QED BY <1>5, <3>1 DEF Inside, IsCteList, Wrappers
  <2> HIDE DEF below, ctes
  <2>3. Inside(below) \subseteq Inside(Inside(ctes))
    BY <2>2, InsideGrows
  <2>4. Inside(Inside(ctes)) = Below(n, "ctes")
    BY DEF Below, ctes
  <2> QED BY <1>2, <1>5, <2>1, <2>3, <2>4 DEF Due
<1>6. CASE kind = "WithClause"
  <2>1. Due(kid.node) = Below(kid.node, "ctes")
    BY <1>6 DEF Due, IsCteList, IsCteNode
  <2>2. kid.node \in WithClauses(n)
    BY <1>2, <1>6 DEF WithClauses, Below, Inside, Wrappers
  <2>3. NamesDue(kid.node) \subseteq CteNames(n)
    BY <2>1, <2>2 DEF NamesDue, CteNames
  <2> QED BY <1>2, <1>6, <2>3
<1>7. CASE ~(kind \in {"CommonTableExpr", "WithClause"} \/ IsCteNode(kid.node) \/ IsCteList(kid.node))
  <2>1. Due(kid.node) = {}
    BY <1>7 DEF Due
  <2> QED BY <2>1
<1> QED BY <1>3, <1>4, <1>5, <1>6, <1>7
-----------------------------------------------------------------------------
(* The scope of an entry has the names of the CTEs due there, and what was *)
(* visited has left its own in the result.                                 *)
CtesKnown(e) == IsScope(e.scope) /\ NamesDue(e.node) \subseteq e.scope.cte_names

CtesKept(e, r) ==
  Kind(e.node) \in CteHolders => EnterNode(e.node, e.scope).cte_names \subseteq r.cte_names

CtesInv ==
  /\ IsResult(acc) /\ Followed
  /\ \A i \in DOMAIN queue : CtesKnown(queue[i])
  /\ \A i \in 1..(next - 1) : CtesKept(queue[i], acc)

LEMMA ChildKnows ==
  ASSUME IsAnalysis, NEW e, e.node \in Nodes, CtesKnown(e),
         NEW k \in 1..Len(Children(e.node))
  PROVE  CtesKnown(ChildEntry(e, k))
<1> DEFINE kid == Children(e.node)[k]
           f == ChildEntry(e, k)
           s == EnterNode(e.node, e.scope)
<1>1. kid \in Range(Children(e.node)) /\ f.node = kid.node
  BY ChildrenOf DEF ChildEntry
<1>2. /\ IsScope(f.scope) /\ f.scope.cte_names = s.cte_names
      /\ e.scope.cte_names \subseteq s.cte_names
      /\ Kind(e.node) \in Statements => CteNames(e.node) \subseteq s.cte_names
  BY ChildScope DEF CtesKnown
<1>3. \/ Due(kid.node) \subseteq Due(e.node)
      \/ Kind(e.node) \in Statements /\ NamesDue(kid.node) \subseteq CteNames(e.node)
  <2> DEFINE n == e.node
  <2>1. n \in Nodes /\ kid \in Range(Children(n))
    BY <1>1
  <2> HIDE DEF n, kid
  <2>2. \/ Due(kid.node) \subseteq Due(n)
        \/ Kind(n) \in Statements /\ NamesDue(kid.node) \subseteq CteNames(n)
    BY <2>1, DueBefore
  <2> QED BY <2>2 DEF n
<1> HIDE DEF f, s, kid
<1>4. NamesDue(kid.node) \subseteq NamesDue(e.node) \/ NamesDue(kid.node) \subseteq s.cte_names
  BY <1>2, <1>3 DEF NamesDue
<1>5. NamesDue(f.node) \subseteq f.scope.cte_names
  BY <1>1, <1>2, <1>4 DEF CtesKnown
<1> QED BY <1>2, <1>5 DEF CtesKnown, f

LEMMA CtesInit == IsAnalysis /\ Init => CtesInv
<1> SUFFICES ASSUME IsAnalysis, Init PROVE CtesInv
  OBVIOUS
<1>1. /\ QueueFrom(Root, <<>>, 0, queue, Len(Children(tree))) /\ tree \in Trees /\ tree \in Nodes
      /\ next = 1 /\ acc = EmptyResult
  BY InitQueue DEF IsAnalysis
<1>2. /\ Root.node \in Nodes /\ DOMAIN queue = 1..Len(Children(Root.node))
      /\ \A k \in 1..Len(Children(Root.node)) : queue[k] = ChildEntry(Root, k)
  BY <1>1 DEF QueueFrom, Root
<1>3. CtesKnown(Root)
  <2>1. IsScope(DefaultScope)
    BY DEF IsScope, DefaultScope
  <2>2. Root.scope = DefaultScope /\ Root.node = tree /\ Kind(tree) = "ParseResult"
    BY <1>1, RootsAssumption DEF Root, IsAnalysis
  <2>3. NamesDue(tree) = {}
    BY <2>2 DEF NamesDue, Due, IsCteList, IsCteNode
  <2> QED BY <2>1, <2>2, <2>3 DEF CtesKnown
<1>4. \A i \in DOMAIN queue : CtesKnown(queue[i])
  <2> HIDE DEF Root
  <2> QED BY <1>2, <1>3, ChildKnows
<1>5. Followed /\ IsResult(acc)
  BY <1>1 DEF Followed, EmptyResult, IsResult
<1> QED BY <1>1, <1>4, <1>5 DEF CtesInv

LEMMA CtesStep == IsAnalysis /\ IInv /\ CtesInv /\ Reduce => CtesInv'
<1> SUFFICES ASSUME IsAnalysis, IInv, CtesInv, Reduce PROVE CtesInv'
  OBVIOUS
<1> DEFINE e == queue[next]
           n == Len(queue)
           c == Len(Children(e.node))
           visit == [node |-> e.node, path |-> e.path, scope |-> EnterNode(e.node, e.scope)]
<1>1. /\ QueueFrom(e, queue, n, queue', c) /\ next \in 1..n /\ DOMAIN queue = 1..n
      /\ next' = next + 1 /\ acc' = CollectAll(visit, acc)
  BY StepQueue DEF IsAnalysis
<1> HIDE DEF n, c
<1>2. /\ n \in Nat /\ c \in Nat /\ c = Len(Children(e.node)) /\ DOMAIN queue' = 1..(n + c)
      /\ e.node \in Nodes
      /\ \A j \in 1..n : queue'[j] = queue[j]
      /\ \A l \in 1..c : queue'[n + l] = ChildEntry(e, l)
  BY <1>1 DEF QueueFrom
<1>3. Followed'
  BY FollowedStep DEF CtesInv
<1>4. visit.node = e.node /\ visit.scope = EnterNode(e.node, e.scope)
  OBVIOUS
<1>5. IsResult(acc') /\ acc.cte_names \subseteq acc'.cte_names
      /\ (Kind(e.node) \in CteHolders => EnterNode(e.node, e.scope).cte_names \subseteq acc'.cte_names)
  <2> HIDE DEF visit, e
  <2>1. Gains(visit, acc, CollectAll(visit, acc))
    BY Collected DEF CtesInv
  <2> QED BY <1>1, <1>4, <2>1 DEF Gains
<1>6. \A i \in 1..n : CtesKnown(queue[i])
  BY <1>1 DEF CtesInv
<1>7. \A k \in 1..c : CtesKnown(ChildEntry(e, k))
  <2>1. CtesKnown(e)
    BY <1>1, <1>6
  <2> HIDE DEF e
  <2> QED BY <1>2, <2>1, ChildKnows
<1>8. \A i \in 1..(n + c) : i \in 1..n \/ \E k \in 1..c : i = n + k
  <2>1. ASSUME NEW i \in 1..(n + c), i \notin 1..n PROVE i - n \in 1..c /\ i = n + (i - n)
    BY <1>2, <2>1
  <2> QED BY <2>1
<1>9. \A i \in DOMAIN queue' : CtesKnown(queue'[i])
  <2> HIDE DEF e
  <2> QED BY <1>2, <1>6, <1>7, <1>8
<1>10. ASSUME NEW i \in 1..(next' - 1) PROVE CtesKept(queue'[i], acc')
  <2>1. i \in 1..n /\ queue'[i] = queue[i] /\ (i = next \/ i \in 1..(next - 1))
    BY <1>1, <1>2
  <2>2. CASE i = next
    BY <1>5, <2>1, <2>2 DEF CtesKept
  <2>3. CASE i \in 1..(next - 1)
    <3>1. CtesKept(queue[i], acc)
      BY <2>3 DEF CtesInv
    <3> HIDE DEF e
    <3> QED BY <1>5, <2>1, <3>1 DEF CtesKept
  <2> QED BY <2>1, <2>2, <2>3
<1> QED BY <1>3, <1>5, <1>9, <1>10 DEF CtesInv

(* When the walk is done, what is in a field of an entry, out of its list  *)
(* and its wrappers, has entries with all names of CTEs that this one has. *)
Follows(i, n) ==
  \E j \in DOMAIN queue : queue[j].node = n /\ queue[i].scope.cte_names \subseteq queue[j].scope.cte_names

AllVisited ==
  /\ \A i \in DOMAIN queue : i \in 1..(next - 1) /\ queue[i].node \in Nodes

LEMMA ChildFollows ==
  ASSUME IsAnalysis, CtesInv, AllVisited, NEW i \in DOMAIN queue,
         NEW kid \in Range(Children(queue[i].node))
  PROVE  Follows(i, kid.node)
<1> DEFINE e == queue[i]
<1>1. PICK k \in 1..Len(Children(e.node)) : kid = Children(e.node)[k]
  BY ChildrenOf DEF AllVisited
<1>2. PICK j \in DOMAIN queue : queue[j] = ChildEntry(e, k)
  BY <1>1 DEF CtesInv, Followed, AllVisited
<1>3. IsScope(e.scope)
  BY DEF CtesInv, CtesKnown
<1>4. ChildEntry(e, k).node = kid.node
  BY <1>1 DEF ChildEntry
<1> HIDE DEF e
<1>5. e.scope.cte_names \subseteq ChildEntry(e, k).scope.cte_names
  BY <1>3, ChildScope
<1> QED BY <1>2, <1>4, <1>5 DEF Follows, e

LEMMA InsideFollows ==
  ASSUME IsAnalysis, CtesInv, AllVisited, NEW i \in DOMAIN queue,
         NEW N, \A n \in N : Follows(i, n)
  PROVE  \A n \in Inside(N) : Follows(i, n)
<1> TAKE n \in Inside(N)
<1>1. CASE n \in N
  BY <1>1
<1>2. ASSUME NEW m \in N, NEW kid \in Range(Children(m)), n = kid.node PROVE Follows(i, n)
  <2>1. PICK j \in DOMAIN queue :
          queue[j].node = m /\ queue[i].scope.cte_names \subseteq queue[j].scope.cte_names
    BY <1>2 DEF Follows
  <2>2. Follows(j, n)
    BY <1>2, <2>1, ChildFollows
  <2> QED BY <2>1, <2>2 DEF Follows
<1> QED BY <1>1, <1>2 DEF Inside

(* The name of a CTE whose body is a SELECT is among the CTE names that    *)
(* analyze reports, whatever statement declares it and wherever that       *)
(* statement is nested.                                                    *)
THEOREM CtesAreListed ==
  ASSUME IsAnalysis PROVE Spec => []CtesListed
<1>1. IInv /\ CtesInv => CtesListed
  <2> SUFFICES ASSUME IInv, CtesInv, Done, NEW i \in DOMAIN queue,
                      Kind(queue[i].node) = "CommonTableExpr",
                      NEW body \in Below(queue[i].node, "ctequery"), Kind(body) = "SelectStmt"
               PROVE  Message(queue[i].node).ctename \in acc.cte_names
    BY DEF CtesListed
  <2>1. AllVisited
    <3>1. next \in Nat /\ Len(queue) \in Nat /\ next > Len(queue) /\ DOMAIN queue = 1..Len(queue)
      BY ConcatSequences DEF IInv, TypeOK, Done
    <3> QED BY <3>1 DEF AllVisited, IInv, TypeOK, IsEntry
  <2>2. Message(queue[i].node).ctename \in queue[i].scope.cte_names
    <3>1. Message(queue[i].node).ctename \in NamesDue(queue[i].node)
      BY DEF NamesDue, Due
    <3> QED BY <3>1 DEF CtesInv, CtesKnown
  <2>3. Follows(i, body)
    <3> DEFINE direct == {kid.node : kid \in {k \in Range(Children(queue[i].node)) :
                                                k.at = Field("ctequery")}}
    <3>1. \A n \in direct : Follows(i, n)
      BY <2>1, ChildFollows
    <3>2. body \in Inside(Inside(direct))
      BY DEF Below
    <3> HIDE DEF direct
    <3>3. \A n \in Inside(direct) : Follows(i, n)
      BY <2>1, <3>1, InsideFollows
    <3>4. \A n \in Inside(Inside(direct)) : Follows(i, n)
      BY <2>1, <3>3, InsideFollows
    <3> QED BY <3>2, <3>4
  <2>4. PICK j \in DOMAIN queue :
          queue[j].node = body /\ queue[i].scope.cte_names \subseteq queue[j].scope.cte_names
    BY <2>3 DEF Follows
  <2>5. CtesKept(queue[j], acc) /\ IsScope(queue[j].scope)
    BY <2>1, <2>4 DEF CtesInv, AllVisited, CtesKnown
  <2>6. queue[j].scope.cte_names \subseteq EnterNode(queue[j].node, queue[j].scope).cte_names
    <3> DEFINE f == queue[j]
    <3>1. IsScope(f.scope)
      BY <2>5
    <3> HIDE DEF f
    <3>2. f.scope.cte_names \subseteq EnterNode(f.node, f.scope).cte_names
      BY <3>1, ChildScope
    <3> QED BY <3>2 DEF f
  <2> QED BY <2>2, <2>4, <2>5, <2>6 DEF CtesKept, CteHolders
<1>2. IInv /\ CtesInv /\ [Reduce]_vars => CtesInv'
  <2> SUFFICES ASSUME CtesInv, UNCHANGED vars PROVE CtesInv'
    BY CtesStep
  <2>1. queue' = queue /\ tree' = tree /\ next' = next /\ acc' = acc
    BY DEF vars
  <2> QED BY <2>1 DEF CtesInv, Followed
<1>3. Init => CtesInv
  BY CtesInit
<1> QED BY <1>1, <1>2, <1>3, WalkInvariant, PTL DEF Spec
-----------------------------------------------------------------------------
(* The end of a placeholder in the text.                                   *)
EndOf(param) == param.location + ParamRefLength(param.number)

IsParam(e) == Kind(e.node) = "ParamRef"
Param(j) == Message(queue[j].node)

(* Where a placeholder stands; one without a location may be anywhere that *)
(* the name of a type is, or nowhere.                                      *)
Spots(j) ==
  IF Param(j).location # -1 THEN {Param(j).location}
  ELSE {-1} \cup {Message(queue[i].node).location :
                    i \in {k \in DOMAIN queue : Kind(queue[k].node) = "TypeName"}}

(* What a parse makes of placeholders: no other ends where one ends.       *)
ParametersApart ==
  \A i, j \in DOMAIN queue :
    IsParam(queue[i]) /\ IsParam(queue[j]) /\ i # j /\ Param(j).location # -1 =>
      \A s \in Spots(i) : s + ParamRefLength(Param(i).number) # EndOf(Param(j))

ReferencesOf(e) == References(e.node, e.path)

Gathering(q, n) == UNION {ReferencesOf(q[i]) : i \in 1..(n - 1)}

ParamsInv ==
  /\ IsResult(acc) /\ Followed
  /\ acc.parameter_references = Gathering(queue, next)

LEMMA ParamsInit == IsAnalysis /\ Init => ParamsInv
<1> SUFFICES ASSUME IsAnalysis, Init PROVE ParamsInv
  OBVIOUS
<1>1. next = 1 /\ acc = EmptyResult
  BY InitQueue DEF IsAnalysis
<1>2. IsResult(acc) /\ acc.parameter_references = {}
  BY <1>1 DEF EmptyResult, IsResult
<1>3. 1..(next - 1) = {}
  BY <1>1
<1>4. Followed /\ Gathering(queue, next) = {}
  BY <1>3 DEF Followed, Gathering
<1> QED BY <1>2, <1>4 DEF ParamsInv

LEMMA ParamsStep == IsAnalysis /\ IInv /\ ParamsInv /\ Reduce => ParamsInv'
<1> SUFFICES ASSUME IsAnalysis, IInv, ParamsInv, Reduce PROVE ParamsInv'
  OBVIOUS
<1> DEFINE e == queue[next]
           n == Len(queue)
           visit == [node |-> e.node, path |-> e.path, scope |-> EnterNode(e.node, e.scope)]
<1>1. /\ QueueFrom(e, queue, n, queue', Len(Children(e.node))) /\ next \in 1..n
      /\ DOMAIN queue = 1..n /\ next' = next + 1 /\ acc' = CollectAll(visit, acc)
  BY StepQueue DEF IsAnalysis
<1>2. n \in Nat /\ \A j \in 1..n : queue'[j] = queue[j]
  BY <1>1 DEF QueueFrom
<1>3. Followed'
  BY FollowedStep DEF ParamsInv
<1>4. References(visit.node, visit.path) = ReferencesOf(e)
  BY DEF ReferencesOf
<1> HIDE DEF n
<1>5. /\ IsResult(acc')
      /\ acc'.parameter_references = acc.parameter_references \cup ReferencesOf(e)
  <2> HIDE DEF visit, e
  <2>1. Gains(visit, acc, CollectAll(visit, acc))
    BY Collected DEF ParamsInv
  <2> QED BY <1>1, <1>4, <2>1 DEF Gains
<1>6. Gathering(queue', next') = Gathering(queue, next) \cup ReferencesOf(e)
  <2> DEFINE old == {ReferencesOf(queue[i]) : i \in 1..(next - 1)}
             new == {ReferencesOf(queue'[i]) : i \in 1..(next' - 1)}
  <2>1. 1..(next' - 1) = 1..(next - 1) \cup {next} /\ \A i \in 1..next : queue'[i] = queue[i]
    BY <1>1, <1>2
  <2>2. ASSUME NEW x PROVE x \in new <=> x \in old \cup {ReferencesOf(e)}
    BY <1>1, <2>1
  <2>3. new = old \cup {ReferencesOf(e)}
    BY <2>2, Zenon
  <2>4. Gathering(queue', next') = UNION new /\ Gathering(queue, next) = UNION old
    BY DEF Gathering
  <2> HIDE DEF old, new, e
  <2> QED BY <2>3, <2>4
<1>7. acc.parameter_references = Gathering(queue, next)
  BY DEF ParamsInv
<1> HIDE DEF e
<1>8. acc'.parameter_references = Gathering(queue', next')
  BY <1>5, <1>6, <1>7
<1> QED BY <1>3, <1>5, <1>8 DEF ParamsInv
-----------------------------------------------------------------------------
(* The parts of a cast.                                                    *)
CastParam(n, p) == p \in Below(n, "arg") /\ Kind(p) = "ParamRef"
CastType(n, t) == t \in Below(n, "type_name")

LEMMA OneType ==
  ASSUME NEW n \in Nodes, Kind(n) = "TypeCast"
  PROVE  \E kid \in Range(Children(n)) :
           /\ kid.node \in Nodes /\ Kind(kid.node) = "TypeName"
           /\ \A u : CastType(n, u) <=> u = kid.node
<1>1. PICK kid \in Range(Children(n)) : kid.at = Field("type_name") /\ Kind(kid.node) = "TypeName"
  BY CastsAssumption
<1>2. kid.node \in Nodes /\ \A other \in Range(Children(n)) : other.at = kid.at => other = kid
  BY ChildrenOf
<1>3. {k.node : k \in {l \in Range(Children(n)) : l.at = Field("type_name")}} = {kid.node}
  BY <1>1, <1>2
<1>4. Inside({kid.node}) = {kid.node}
  BY <1>1 DEF Inside, Wrappers
<1>5. Below(n, "type_name") = {kid.node}
  BY <1>3, <1>4 DEF Below
<1> QED BY <1>1, <1>2, <1>5 DEF CastType

(* The argument is in a wrapper of its own.                                *)
LEMMA ArgOfCast ==
  ASSUME NEW n \in Nodes, Kind(n) = "TypeCast", NEW p, CastParam(n, p)
  PROVE  \E arg, kid : /\ arg \in Range(Children(n)) /\ arg.at = Field("arg")
                       /\ kid \in Range(Children(arg.node)) /\ kid.at = Field("param_ref")
                       /\ p = kid.node
<1> DEFINE args == {k.node : k \in {l \in Range(Children(n)) : l.at = Field("arg")}}
<1>1. ASSUME NEW arg \in Range(Children(n)), arg.at = Field("arg")
      PROVE  /\ Kind(arg.node) = "Node"
             /\ \A kid \in Range(Children(arg.node)) :
                  /\ Kind(kid.node) \notin Wrappers
                  /\ Kind(kid.node) = "ParamRef" => kid.at = Field("param_ref")
  <2>1. Kind(arg.node) = "Node" /\ arg.node \in Nodes
    BY <1>1, GrammarAssumption, ChildrenOf
  <2> QED BY <2>1, GrammarAssumption
<1>2. p \in Inside(Inside(args)) /\ Kind(p) = "ParamRef"
  BY DEF CastParam, Below
<1>3. \A a \in args : Kind(a) = "Node"
  BY <1>1
<1>4. \A q \in Inside(args) : \E a \in args : \E kid \in Range(Children(a)) : q = kid.node
  <2> HIDE DEF args
  <2> QED BY <1>3 DEF Inside, Wrappers
<1>5. \A q \in Inside(args) :
        \E arg \in Range(Children(n)) : \E kid \in Range(Children(arg.node)) :
          arg.at = Field("arg") /\ q = kid.node
  BY <1>4
<1>6. \A q \in Inside(args) : Kind(q) \notin Wrappers
  BY <1>1, <1>5
<1>7. p \in Inside(args)
  <2> HIDE DEF args
  <2> QED BY <1>2, <1>6 DEF Inside
<1>8. PICK arg \in Range(Children(n)) : \E kid \in Range(Children(arg.node)) :
        arg.at = Field("arg") /\ p = kid.node
  BY <1>5, <1>7
<1>10. PICK kid \in Range(Children(arg.node)) : arg.at = Field("arg") /\ p = kid.node
  BY <1>8
<1>11. kid.at = Field("param_ref")
  BY <1>1, <1>2, <1>10
<1> QED BY <1>10, <1>11

LEMMA ArgIsCast ==
  ASSUME NEW n \in Nodes, Kind(n) = "TypeCast",
         NEW arg \in Range(Children(n)), arg.at = Field("arg"),
         NEW kid \in Range(Children(arg.node)), Kind(kid.node) = "ParamRef"
  PROVE  CastParam(n, kid.node)
<1> DEFINE args == {k.node : k \in {l \in Range(Children(n)) : l.at = Field("arg")}}
<1>1. Kind(arg.node) = "Node" /\ arg.node \in args
  BY GrammarAssumption
<1> HIDE DEF args
<1>2. kid.node \in Inside(args)
  BY <1>1 DEF Inside, Wrappers
<1>3. kid.node \in Inside(Inside(args))
  BY <1>2 DEF Inside, Wrappers
<1> QED BY <1>3 DEF CastParam, Below, args

(* The reference to the argument of a cast ends where the argument ends;   *)
(* it is where the type is if the argument has no location.                *)
LEMMA CastEnds ==
  ASSUME NEW p, NEW t, p.location \in Nat \cup {-1}, p.number \in Nat,
         t.location \in Nat \cup {-1}
  PROVE  CastReference(p, t).at + CastReference(p, t).length =
           (IF p.location = -1 THEN t.location ELSE p.location) + ParamRefLength(p.number)
<1>1. ParamRefLength(p.number) \in Int
  <2> DEFINE powers == {k \in 0..9 : 10 ^ k <= p.number}
  <2>1. powers \in SUBSET (0..9)
    BY Zenon
  <2>2. Cardinality(powers) \in Nat
    <3> HIDE DEF powers
    <3>1. 0 \in Int /\ 9 \in Int
      OBVIOUS
    <3>2. IsFiniteSet(0..9)
      BY <3>1, FS_Interval
    <3>3. IsFiniteSet(powers)
      BY <2>1, <3>2, FS_Subset
    <3> QED BY <3>3, FS_CardinalityType
  <2>3. ParamRefLength(p.number) = 1 + Cardinality(powers)
    BY Zenon DEF ParamRefLength
  <2> HIDE DEF powers
  <2> QED BY <2>2, <2>3
<1> QED BY <1>1 DEF CastReference
-----------------------------------------------------------------------------
(* A wrapped argument of the cast at i, and the entry it has.              *)
IsArgEntry(i, j) ==
  /\ Kind(queue[i].node) = "TypeCast" /\ IsParam(queue[j])
  /\ queue[j].path = Append(Append(queue[i].path, Field("arg")), Field("param_ref"))
  /\ CastParam(queue[i].node, queue[j].node)

(* The path of a cast ends with its name: it is not the root.              *)
EndsWith(path, at) == \E above \in Seq(Segments) : path = Append(above, at)

Walked ==
  /\ \A i \in DOMAIN queue :
       /\ i \in 1..(next - 1) /\ queue[i].node \in Nodes /\ queue[i].path \in Seq(Segments)
  /\ tree \in Nodes /\ Kind(tree) = "ParseResult"

(* kid is what an entry shows; n is the node it is in, p the path to that. *)
CameFrom(j, n, p, kid) ==
  /\ n \in Nodes /\ p \in Seq(Segments)
  /\ kid \in Range(Children(n)) /\ kid.node = queue[j].node /\ kid.at \in Segments
  /\ queue[j].path = Append(p, kid.at)
  /\ \/ n = tree /\ p = <<>>
     \/ \E i \in DOMAIN queue : n = queue[i].node /\ p = queue[i].path

LEMMA ComesFrom ==
  ASSUME IInv, Walked, NEW j \in DOMAIN queue
  PROVE  \E n, p, kid : CameFrom(j, n, p, kid)
<1>1. ASSUME NEW n \in Nodes, NEW p, NEW s, ChildOf(queue[j], n, p, s)
      PROVE  \E kid \in Range(Children(n)) :
               kid.node = queue[j].node /\ kid.at \in Segments /\ queue[j].path = Append(p, kid.at)
  <2>1. PICK k \in DOMAIN Children(n) : queue[j] = PushChildren(n, p, s)[k]
    BY <1>1 DEF ChildOf
  <2>2. /\ Children(n)[k] \in Range(Children(n)) /\ Children(n)[k].at \in Segments
        /\ Children(n)[k].node = queue[j].node /\ queue[j].path = Append(p, Children(n)[k].at)
    BY <2>1, ChildrenOf DEF PushChildren
  <2> QED BY <2>2
<1>2. Origin(queue[j], tree, queue, next - 1)
  BY DEF IInv, Origins
<1>3. CASE ChildOf(queue[j], tree, <<>>, EnterNode(tree, NoScope))
  <2>1. tree \in Nodes /\ <<>> \in Seq(Segments)
    BY DEF Walked
  <2> QED BY <1>1, <1>3, <2>1 DEF CameFrom
<1>4. ASSUME NEW i \in 1..(next - 1),
             ChildOf(queue[j], queue[i].node, queue[i].path,
                     EnterNode(queue[i].node, queue[i].scope))
      PROVE  \E n, p, kid : CameFrom(j, n, p, kid)
  <2>1. i \in DOMAIN queue
    <3>1. next \in Nat /\ Len(queue) \in Nat /\ next <= Len(queue) + 1 /\ DOMAIN queue = 1..Len(queue)
      BY ConcatSequences DEF IInv, TypeOK
    <3> QED BY <3>1
  <2>2. queue[i].node \in Nodes /\ queue[i].path \in Seq(Segments)
    BY <2>1 DEF Walked
  <2> QED BY <1>1, <1>4, <2>1, <2>2 DEF CameFrom
<1> QED BY <1>2, <1>3, <1>4 DEF Origin

LEMMA ChildVisited ==
  ASSUME Followed, Walked, NEW i \in DOMAIN queue, NEW kid \in Range(Children(queue[i].node))
  PROVE  \E j \in DOMAIN queue :
           queue[j].node = kid.node /\ queue[j].path = Append(queue[i].path, kid.at)
<1>1. PICK k \in 1..Len(Children(queue[i].node)) : kid = Children(queue[i].node)[k]
  BY ChildrenOf DEF Walked
<1>2. PICK j \in DOMAIN queue : queue[j] = ChildEntry(queue[i], k)
  BY <1>1 DEF Followed, Walked
<1> QED BY <1>1, <1>2 DEF ChildEntry

LEMMA EntryOfArg ==
  ASSUME Followed, Walked, NEW i \in DOMAIN queue, Kind(queue[i].node) = "TypeCast",
         NEW p, CastParam(queue[i].node, p)
  PROVE  \E j \in DOMAIN queue : queue[j].node = p /\ IsArgEntry(i, j)
<1> DEFINE n == queue[i].node
<1>1. n \in Nodes
  BY DEF Walked
<1>2. \E arg, kid : /\ arg \in Range(Children(n)) /\ arg.at = Field("arg")
                    /\ kid \in Range(Children(arg.node)) /\ kid.at = Field("param_ref")
                    /\ p = kid.node
  <2>1. Kind(n) = "TypeCast" /\ CastParam(n, p)
    OBVIOUS
  <2> HIDE DEF n
  <2> QED BY <1>1, <2>1, ArgOfCast
<1>3. PICK arg, kid : /\ arg \in Range(Children(n)) /\ arg.at = Field("arg")
                      /\ kid \in Range(Children(arg.node)) /\ kid.at = Field("param_ref")
                      /\ p = kid.node
  BY <1>2
<1>4. PICK a \in DOMAIN queue :
        queue[a].node = arg.node /\ queue[a].path = Append(queue[i].path, arg.at)
  BY <1>3, ChildVisited
<1>5. kid \in Range(Children(queue[a].node))
  BY <1>3, <1>4
<1>6. PICK j \in DOMAIN queue :
        queue[j].node = kid.node /\ queue[j].path = Append(queue[a].path, kid.at)
  BY <1>5, ChildVisited
<1> QED BY <1>3, <1>4, <1>6 DEF IsArgEntry, IsParam, CastParam

(* What IsArgOfCast asks of a path.                                        *)
ThreeMore(path, above) ==
  path = Append(Append(Append(above, Field("type_cast")), Field("arg")), Field("param_ref"))

LEMMA LastThree ==
  ASSUME NEW S, NEW above \in Seq(S), NEW a \in S, NEW b \in S, NEW c \in S
  PROVE  LET path == Append(Append(Append(above, a), b), c) IN
         /\ path \in Seq(S) /\ Len(path) = Len(above) + 3
         /\ SubSeq(path, Len(path) - 2, Len(path)) = <<a, b, c>>
<1> DEFINE path == Append(Append(Append(above, a), b), c)
           n == Len(above)
           s == SubSeq(path, n + 1, n + 3)
<1>1. /\ n \in Nat /\ path \in Seq(S) /\ Len(path) = n + 3
      /\ path[n + 1] = a /\ path[n + 2] = b /\ path[n + 3] = c
  OBVIOUS
<1> HIDE DEF path, n
<1>2. s \in Seq(S) /\ Len(s) = 3 /\ s[1] = path[n + 1] /\ s[2] = path[n + 2] /\ s[3] = path[n + 3]
  BY <1>1
<1>3. s = <<a, b, c>>
  <2> HIDE DEF s
  <2> QED BY <1>1, <1>2
<1>4. Len(path) - 2 = n + 1 /\ Len(path) = n + 3
  BY <1>1
<1> QED BY <1>1, <1>3, <1>4 DEF path, n

LEMMA ArgEntryEnds ==
  ASSUME IInv, Walked, NEW i \in DOMAIN queue, NEW j \in DOMAIN queue, IsArgEntry(i, j)
  PROVE  IsArgOfCast(queue[j].path)
<1>1. PICK n, p, kid : CameFrom(i, n, p, kid)
  BY ComesFrom
<1>2. /\ n \in Nodes /\ p \in Seq(Segments)
      /\ kid \in Range(Children(n)) /\ kid.node = queue[i].node
      /\ kid.at \in Segments /\ queue[i].path = Append(p, kid.at)
  BY <1>1 DEF CameFrom
<1>3. kid.at = Field("type_cast")
  BY <1>2, GrammarAssumption DEF IsArgEntry
<1>4. Len(p) \in Nat
  BY <1>2
<1> DEFINE S == Segments \cup {Field("type_cast"), Field("arg"), Field("param_ref")}
           path == Append(Append(Append(p, Field("type_cast")), Field("arg")), Field("param_ref"))
<1>5. p \in Seq(S)
  BY <1>2
<1>6. /\ Field("type_cast") \in S /\ Field("arg") \in S /\ Field("param_ref") \in S
  OBVIOUS
<1>7. queue[j].path = path
  BY <1>2, <1>3 DEF IsArgEntry
<1> HIDE DEF S
<1>8. /\ Len(path) = Len(p) + 3
      /\ SubSeq(path, Len(path) - 2, Len(path)) =
           <<Field("type_cast"), Field("arg"), Field("param_ref")>>
  <2> DEFINE a == Field("type_cast")
             b == Field("arg")
             d == Field("param_ref")
  <2> HIDE DEF a, b, d
  <2>1. p \in Seq(S) /\ a \in S /\ b \in S /\ d \in S
    BY <1>5, <1>6 DEF a, b, d
  <2> DEFINE q == Append(Append(Append(p, a), b), d)
  <2>2. Len(q) = Len(p) + 3 /\ SubSeq(q, Len(q) - 2, Len(q)) = <<a, b, d>>
    BY <2>1, LastThree
  <2> QED BY <2>2 DEF a, b, d
<1> HIDE DEF path
<1> QED BY <1>4, <1>7, <1>8 DEF IsArgOfCast

(* The cast above an argument.                                             *)
LEMMA CastOfArg ==
  ASSUME IInv, Walked, NEW j \in DOMAIN queue, IsParam(queue[j]), IsArgOfCast(queue[j].path)
  PROVE  \E i \in DOMAIN queue : IsArgEntry(i, j)
<1> DEFINE path == queue[j].path
<1>1. PICK n, p, kid : CameFrom(j, n, p, kid)
  BY ComesFrom
<1>2. /\ n \in Nodes /\ p \in Seq(Segments)
      /\ kid \in Range(Children(n)) /\ kid.node = queue[j].node
      /\ kid.at \in Segments /\ path = Append(p, kid.at)
      /\ \/ n = tree /\ p = <<>>
         \/ \E i \in DOMAIN queue : n = queue[i].node /\ p = queue[i].path
  BY <1>1 DEF CameFrom
<1>3. /\ Len(path) >= 3 /\ Len(path) = Len(p) + 1 /\ Len(p) \in Nat
      /\ path[Len(path) - 2] = Field("type_cast") /\ path[Len(path) - 1] = Field("arg")
  <2>1. path \in Seq(Segments) /\ Len(path) = Len(p) + 1 /\ Len(p) \in Nat
    BY <1>2
  <2>2. Len(path) >= 3 /\ SubSeq(path, Len(path) - 2, Len(path)) =
                            <<Field("type_cast"), Field("arg"), Field("param_ref")>>
    BY DEF IsArgOfCast
  <2> HIDE DEF path
  <2> DEFINE last == SubSeq(path, Len(path) - 2, Len(path))
             ends == <<Field("type_cast"), Field("arg"), Field("param_ref")>>
  <2>3. last[1] = path[Len(path) - 2] /\ last[2] = path[Len(path) - 1]
    BY <2>1, <2>2
  <2>4. last = ends /\ ends[1] = Field("type_cast") /\ ends[2] = Field("arg")
    BY <2>2
  <2> HIDE DEF last, ends
  <2> QED BY <2>1, <2>2, <2>3, <2>4
<1>4. kid.at = Field("param_ref")
  BY <1>2, GrammarAssumption DEF IsParam
<1>5. PICK a \in DOMAIN queue : n = queue[a].node /\ p = queue[a].path
  <2>1. p # <<>>
    BY <1>3
  <2> QED BY <1>2, <2>1
<1>6. PICK m, q, arg : CameFrom(a, m, q, arg)
  BY ComesFrom
<1>7. /\ m \in Nodes /\ q \in Seq(Segments)
      /\ arg \in Range(Children(m)) /\ arg.node = queue[a].node
      /\ arg.at \in Segments /\ queue[a].path = Append(q, arg.at)
      /\ \/ m = tree /\ q = <<>>
         \/ \E i \in DOMAIN queue : m = queue[i].node /\ q = queue[i].path
  BY <1>6 DEF CameFrom
<1>8. /\ p \in Seq(Segments) /\ q \in Seq(Segments) /\ p = Append(q, arg.at)
      /\ path = Append(p, kid.at) /\ kid.at \in Segments /\ arg.at \in Segments
  BY <1>2, <1>5, <1>7
<1> HIDE DEF path
<1>9. /\ Len(p) = Len(q) + 1 /\ Len(q) \in Nat /\ Len(path) = Len(q) + 2
      /\ arg.at = Field("arg")
      /\ q[Len(q)] = Field("type_cast") /\ Len(q) >= 1
  <2>1. /\ Len(p) = Len(q) + 1 /\ Len(q) \in Nat /\ Len(path) = Len(q) + 2 /\ Len(q) >= 1
        /\ p[Len(p)] = arg.at
    BY <1>3, <1>8
  <2>2. path[Len(path) - 1] = p[Len(p)]
    BY <1>3, <1>8, <2>1
  <2>3. path[Len(path) - 2] = p[Len(q)]
    BY <1>3, <1>8, <2>1
  <2>4. p[Len(q)] = q[Len(q)]
    BY <1>8, <2>1
  <2> QED BY <1>3, <2>1, <2>2, <2>3, <2>4
<1>10. PICK i \in DOMAIN queue : m = queue[i].node /\ q = queue[i].path
  <2>1. q # <<>>
    BY <1>9
  <2> QED BY <1>7, <2>1
<1>11. Kind(m) = "TypeCast"
  <2>1. PICK l, r, cast : CameFrom(i, l, r, cast)
    BY ComesFrom
  <2>2. /\ l \in Nodes /\ r \in Seq(Segments)
        /\ cast \in Range(Children(l)) /\ cast.node = queue[i].node
        /\ cast.at \in Segments /\ queue[i].path = Append(r, cast.at)
    BY <2>1 DEF CameFrom
  <2>3. cast.at = q[Len(q)]
    <3>1. q = Append(r, cast.at) /\ r \in Seq(Segments) /\ cast.at \in Segments
      BY <1>10, <2>2
    <3>2. Len(q) = Len(r) + 1 /\ q[Len(r) + 1] = cast.at
      BY <3>1
    <3> QED BY <3>2
  <2>4. cast.at = Field("type_cast")
    BY <1>9, <2>3
  <2> QED BY <1>10, <2>2, <2>4, GrammarAssumption
<1>12. CastParam(m, kid.node)
  <2>1. kid \in Range(Children(arg.node)) /\ Kind(kid.node) = "ParamRef"
    BY <1>2, <1>5, <1>7 DEF IsParam
  <2> QED BY <1>7, <1>9, <1>11, <2>1, ArgIsCast
<1>13. queue[j].path = Append(Append(queue[i].path, Field("arg")), Field("param_ref"))
  BY <1>4, <1>8, <1>9, <1>10 DEF path
<1> QED BY <1>2, <1>10, <1>11, <1>12, <1>13 DEF IsArgEntry

LEMMA ArgsAreApart ==
  ASSUME IInv, Walked, NEW h \in DOMAIN queue, NEW i \in DOMAIN queue, NEW j \in DOMAIN queue,
         IsArgEntry(h, j), IsArgEntry(i, j)
  PROVE  h = i
<1> DEFINE p == queue[h].path
           q == queue[i].path
           S == Segments \cup {Field("arg"), Field("param_ref")}
<1>1. p \in Seq(S) /\ q \in Seq(S) /\ Field("arg") \in S /\ Field("param_ref") \in S
  BY DEF Walked
<1>2. Append(Append(p, Field("arg")), Field("param_ref"))
      = Append(Append(q, Field("arg")), Field("param_ref"))
  BY DEF IsArgEntry
<1>3. ASSUME NEW T, NEW s \in Seq(T), NEW t \in Seq(T), NEW a \in T, Append(s, a) = Append(t, a)
      PROVE  s = t
  BY <1>3, AppendProperties
<1> HIDE DEF p, q, S
<1>4. Append(p, Field("arg")) \in Seq(S) /\ Append(q, Field("arg")) \in Seq(S)
  BY <1>1
<1>5. Append(p, Field("arg")) = Append(q, Field("arg"))
  BY <1>1, <1>2, <1>3, <1>4
<1>6. p = q
  BY <1>1, <1>3, <1>5
<1> QED BY <1>6 DEF p, q, IInv, VisitedOnce

(* The references of an entry: that of a placeholder, or that of the       *)
(* argument of a cast, which ends where the argument ends.                 *)
PlainReference(param) ==
  [at |-> param.location, length |-> ParamRefLength(param.number), typename |-> "none"]

IsReferenceOf(ref, j) ==
  \/ ref = PlainReference(Message(queue[j].node)) /\ ~IsArgOfCast(queue[j].path)
  \/ \E i \in DOMAIN queue, t \in Nodes :
       /\ IsArgEntry(i, j) /\ CastType(queue[i].node, t)
       /\ ref = CastReference(Message(queue[j].node), Message(t))

LEMMA ReferencesAre ==
  ASSUME IInv, Walked, Followed, NEW ref
  PROVE  ref \in Gathering(queue, next) <=>
           \E j \in DOMAIN queue : IsParam(queue[j]) /\ IsReferenceOf(ref, j)
<1>1. ASSUME NEW i \in 1..(next - 1), ref \in ReferencesOf(queue[i])
      PROVE  \E j \in DOMAIN queue : IsParam(queue[j]) /\ IsReferenceOf(ref, j)
  <2> DEFINE e == queue[i]
  <2>1. i \in DOMAIN queue
    <3>1. next \in Nat /\ Len(queue) \in Nat /\ next <= Len(queue) + 1 /\ DOMAIN queue = 1..Len(queue)
      BY ConcatSequences DEF IInv, TypeOK
    <3> QED BY <3>1
  <2>2. CASE IsParam(e) /\ ~IsArgOfCast(e.path)
    <3>1. ref = PlainReference(Message(e.node))
      BY <1>1, <2>2 DEF ReferencesOf, References, IsParam, Kind, PlainReference
    <3> QED BY <2>1, <2>2, <3>1 DEF IsReferenceOf
  <2>3. CASE ~(IsParam(e) /\ ~IsArgOfCast(e.path))
    <3>1. /\ Kind(e.node) = "TypeCast"
          /\ \E p, t : /\ p \in {n \in Below(e.node, "arg") : Kind(n) = "ParamRef"}
                       /\ t \in Below(e.node, "type_name")
                       /\ ref = CastReference(Message(p), Message(t))
      BY <1>1, <2>3 DEF ReferencesOf, References, IsParam, Kind
    <3>2. PICK p, t : /\ CastParam(e.node, p) /\ CastType(e.node, t)
                      /\ ref = CastReference(Message(p), Message(t))
      BY <3>1 DEF CastParam, CastType
    <3>3. t \in Nodes
      <4>1. e.node \in Nodes
        BY <2>1 DEF Walked
      <4> DEFINE n == e.node
      <4> HIDE DEF n
      <4>2. \E kid \in Range(Children(n)) :
              kid.node \in Nodes /\ \A v : CastType(n, v) <=> v = kid.node
        BY <3>1, <4>1, OneType DEF n
      <4> QED BY <3>2, <4>2 DEF n
    <3>4. PICK j \in DOMAIN queue : queue[j].node = p /\ IsArgEntry(i, j)
      BY <2>1, <3>1, <3>2, EntryOfArg
    <3> QED BY <2>1, <3>2, <3>3, <3>4 DEF IsReferenceOf, IsArgEntry
  <2> QED BY <2>2, <2>3
<1>2. ASSUME NEW j \in DOMAIN queue, IsParam(queue[j]), IsReferenceOf(ref, j)
      PROVE  \E i \in 1..(next - 1) : ref \in ReferencesOf(queue[i])
  <2>1. CASE ref = PlainReference(Message(queue[j].node)) /\ ~IsArgOfCast(queue[j].path)
    <3>1. ref \in ReferencesOf(queue[j])
      BY <1>2, <2>1 DEF ReferencesOf, References, IsParam, Kind, PlainReference
    <3>2. j \in 1..(next - 1)
      BY DEF Walked
    <3> QED BY <3>1, <3>2
  <2>2. ASSUME NEW i \in DOMAIN queue, NEW t \in Nodes,
               IsArgEntry(i, j), CastType(queue[i].node, t),
               ref = CastReference(Message(queue[j].node), Message(t))
        PROVE  ref \in ReferencesOf(queue[i]) /\ i \in 1..(next - 1)
    <3> DEFINE n == queue[i].node
    <3>1. queue[j].node \in {p \in Below(n, "arg") : Kind(p) = "ParamRef"}
      BY <2>2 DEF IsArgEntry, CastParam
    <3>2. t \in Below(n, "type_name") /\ Kind(n) = "TypeCast"
      BY <2>2 DEF CastType, IsArgEntry
    <3> HIDE DEF n
    <3>3. ref \in References(n, queue[i].path)
      BY <2>2, <3>1, <3>2 DEF References, Kind
    <3> QED BY <3>3 DEF n, ReferencesOf, Walked
  <2> QED BY <1>2, <2>1, <2>2 DEF IsReferenceOf
<1>3. ref \in Gathering(queue, next) <=> \E i \in 1..(next - 1) : ref \in ReferencesOf(queue[i])
  BY DEF Gathering
<1> QED BY <1>1, <1>2, <1>3

LEMMA ParamNumbers ==
  ASSUME Walked, NEW j \in DOMAIN queue, IsParam(queue[j])
  PROVE  Param(j).location \in Nat \cup {-1} /\ Param(j).number \in Nat
BY NumbersAssumption DEF Walked, IsParam, Param

LEMMA ReferenceEnds ==
  ASSUME Walked, Followed, NEW j \in DOMAIN queue, IsParam(queue[j]),
         NEW ref, IsReferenceOf(ref, j)
  PROVE  /\ \E s \in Spots(j) : ref.at + ref.length = s + ParamRefLength(Param(j).number)
         /\ Param(j).location # -1 => ref.at + ref.length = EndOf(Param(j))
<1> DEFINE m == Param(j)
           types == {k \in DOMAIN queue : Kind(queue[k].node) = "TypeName"}
<1>1. m.location \in Nat \cup {-1} /\ m.number \in Nat /\ m = Message(queue[j].node)
  BY ParamNumbers DEF Param
<1>2. /\ m.location # -1 => m.location \in Spots(j)
      /\ m.location = -1 => -1 \in Spots(j) /\ \A k \in types : Message(queue[k].node).location \in Spots(j)
  BY DEF Spots
<1>3. CASE ref = PlainReference(m)
  <2> HIDE DEF m
  <2>1. ref.at + ref.length = m.location + ParamRefLength(m.number) /\ m.location \in Spots(j)
    BY <1>2, <1>3 DEF PlainReference
  <2> QED BY <2>1 DEF EndOf, m
<1>4. ASSUME NEW i \in DOMAIN queue, NEW t \in Nodes,
             IsArgEntry(i, j), CastType(queue[i].node, t), ref = CastReference(m, Message(t))
      PROVE  /\ \E s \in Spots(j) : ref.at + ref.length = s + ParamRefLength(m.number)
             /\ m.location # -1 => ref.at + ref.length = EndOf(m)
  <2>1. PICK kid \in Range(Children(queue[i].node)) : kid.node = t /\ Kind(t) = "TypeName"
    <3> DEFINE n == queue[i].node
    <3>1. n \in Nodes /\ Kind(n) = "TypeCast" /\ CastType(n, t)
      BY <1>4 DEF Walked, IsArgEntry
    <3> HIDE DEF n
    <3>2. \E kid \in Range(Children(n)) : kid.node = t /\ Kind(t) = "TypeName"
      BY <3>1, OneType
    <3> QED BY <3>2 DEF n
  <2>2. PICK k \in DOMAIN queue : queue[k].node = t
    BY <2>1, ChildVisited
  <2> DEFINE place == IF m.location = -1 THEN Message(t).location ELSE m.location
  <2>3. place \in Spots(j)
    BY <1>2, <2>1, <2>2
  <2> HIDE DEF m
  <2>4. Message(t).location \in Nat \cup {-1}
    BY <2>1, NumbersAssumption
  <2>5. ref.at + ref.length = place + ParamRefLength(m.number)
    BY <1>1, <1>4, <2>4, CastEnds
  <2>6. m.location # -1 => place = m.location
    OBVIOUS
  <2> HIDE DEF place
  <2> QED BY <2>3, <2>5, <2>6 DEF EndOf
<1> QED BY <1>1, <1>3, <1>4 DEF IsReferenceOf

(* A placeholder has a reference, and only one.                            *)
OnlyReference(ref, j) == \A r : IsReferenceOf(r, j) <=> r = ref

LEMMA OneReference ==
  ASSUME IInv, Walked, NEW j \in DOMAIN queue, IsParam(queue[j])
  PROVE  \E ref : OnlyReference(ref, j)
<1> DEFINE m == Message(queue[j].node)
<1>1. CASE ~IsArgOfCast(queue[j].path)
  <2>1. \A i \in DOMAIN queue : ~IsArgEntry(i, j)
    BY <1>1, ArgEntryEnds
  <2>2. \A r : IsReferenceOf(r, j) <=> r = PlainReference(m)
    BY <1>1, <2>1 DEF IsReferenceOf
  <2> QED BY <2>2 DEF OnlyReference
<1>2. CASE IsArgOfCast(queue[j].path)
  <2>1. PICK i \in DOMAIN queue : IsArgEntry(i, j)
    BY <1>2, CastOfArg
  <2>2. PICK t \in Nodes : \A u : CastType(queue[i].node, u) <=> u = t
    <3> DEFINE n == queue[i].node
    <3>1. n \in Nodes /\ Kind(n) = "TypeCast"
      BY <2>1 DEF Walked, IsArgEntry
    <3> HIDE DEF n
    <3>2. \E kid \in Range(Children(n)) :
            kid.node \in Nodes /\ \A u : CastType(n, u) <=> u = kid.node
      BY <3>1, OneType
    <3> QED BY <3>2 DEF n
  <2>3. \A h \in DOMAIN queue : IsArgEntry(h, j) => h = i
    BY <2>1, ArgsAreApart
  <2>4. ASSUME NEW r PROVE IsReferenceOf(r, j) <=> r = CastReference(m, Message(t))
    <3>1. IsReferenceOf(r, j) <=>
            \E h \in DOMAIN queue, u \in Nodes :
              /\ IsArgEntry(h, j) /\ CastType(queue[h].node, u)
              /\ r = CastReference(m, Message(u))
      BY <1>2 DEF IsReferenceOf
    <3> HIDE DEF m
    <3> QED BY <2>1, <2>2, <2>3, <3>1
  <2>5. OnlyReference(CastReference(m, Message(t)), j)
    BY <2>4 DEF OnlyReference
  <2> QED BY <2>5
<1> QED BY <1>1, <1>2

(* Where no two placeholders end in the same place of the text, analyze    *)
(* reports one reference for each, which ends where the placeholder ends:  *)
(* the reference of the argument of a cast replaces that of the            *)
(* placeholder, and nothing else is left out or added.                     *)
THEOREM ParametersAreOnce ==
  ASSUME IsAnalysis PROVE Spec => [](ParametersApart => EachParameterOnce)
<1>1. IInv /\ ParamsInv => (ParametersApart => EachParameterOnce)
  <2> SUFFICES ASSUME IInv, ParamsInv, ParametersApart, Done, NEW j \in DOMAIN queue,
                      IsParam(queue[j]), Param(j).location # -1
               PROVE  Cardinality({ref \in acc.parameter_references :
                         ref.at + ref.length = EndOf(Param(j))}) = 1
    <3>1. ASSUME NEW j \in DOMAIN queue PROVE IsParam(queue[j]) <=> Param(j).kind = "ParamRef"
      BY DEF IsParam, Kind, Param
    <3> QED BY <3>1 DEF EachParameterOnce, EndOf, Param
  <2> DEFINE ends == {ref \in acc.parameter_references : ref.at + ref.length = EndOf(Param(j))}
  <2>1. Walked /\ Followed
    <3>1. next \in Nat /\ Len(queue) \in Nat /\ next > Len(queue) /\ DOMAIN queue = 1..Len(queue)
      BY ConcatSequences DEF IInv, TypeOK, Done
    <3>2. tree \in Nodes /\ Kind(tree) = "ParseResult"
      BY ChildrenAssumption, RootsAssumption DEF IInv, TypeOK
    <3> QED BY <3>1, <3>2 DEF Walked, IInv, TypeOK, IsEntry, ParamsInv
  <2>2. PICK one : \A r : IsReferenceOf(r, j) <=> r = one
    BY <2>1, OneReference DEF OnlyReference
  <2>4. ASSUME NEW ref \in ends PROVE ref = one
    <3>1. PICK i \in DOMAIN queue : IsParam(queue[i]) /\ IsReferenceOf(ref, i)
      BY <2>1, ReferencesAre DEF ParamsInv
    <3>2. PICK s \in Spots(i) : ref.at + ref.length = s + ParamRefLength(Param(i).number)
      BY <2>1, <3>1, ReferenceEnds
    <3>3. i = j
      BY <3>1, <3>2 DEF ParametersApart
    <3> QED BY <2>2, <3>1, <3>3
  <2>5. one \in ends
    <3>1. IsReferenceOf(one, j)
      BY <2>2
    <3>2. one \in acc.parameter_references
      BY <2>1, <3>1, ReferencesAre DEF ParamsInv
    <3>3. one.at + one.length = EndOf(Param(j))
      BY <2>1, <3>1, ReferenceEnds
    <3> QED BY <3>2, <3>3
  <2> HIDE DEF ends
  <2>6. ends = {one}
    BY <2>4, <2>5
  <2>7. Cardinality(ends) = 1
    BY <2>6, FS_Singleton
  <2> QED BY <2>7 DEF ends
<1>2. IInv /\ ParamsInv /\ [Reduce]_vars => ParamsInv'
  <2> SUFFICES ASSUME ParamsInv, UNCHANGED vars PROVE ParamsInv'
    BY ParamsStep
  <2>1. queue' = queue /\ tree' = tree /\ next' = next /\ acc' = acc
    BY DEF vars
  <2> QED BY <2>1 DEF ParamsInv, Followed
<1>3. Init => ParamsInv
  BY ParamsInit
<1> QED BY <1>1, <1>2, <1>3, WalkInvariant, PTL DEF Spec
-----------------------------------------------------------------------------
(* What is below a place.  A function that is the union of itself over     *)
(* what is below has a least solution, however large its domain is.        *)
IsUnion(f, S, leaves, own, below) ==
  f = [x \in S |-> IF x \in leaves THEN own[x] ELSE UNION {f[y] : y \in below[x]}]

Closed(C, S, leaves, own, below) ==
  /\ \A x \in leaves : \A u \in own[x] : <<x, u>> \in C
  /\ \A x \in S \ leaves : \A y \in below[x] : \A u : <<y, u>> \in C => <<x, u>> \in C

LEMMA UnionExists ==
  ASSUME NEW S, NEW leaves \in SUBSET S, NEW own, NEW below,
         \A x \in S \ leaves : below[x] \subseteq S
  PROVE  \E f : IsUnion(f, S, leaves, own, below)
<1> DEFINE U == UNION {own[x] : x \in leaves}
           Is(C) == Closed(C, S, leaves, own, below)
           f == [x \in S |-> {u \in U : \A C \in SUBSET (S \X U) : Is(C) => <<x, u>> \in C}]
<1>1. ASSUME NEW x \in leaves, NEW u \in own[x] PROVE u \in f[x]
  <2>1. u \in U /\ x \in S
    OBVIOUS
  <2>2. \A C : Is(C) => <<x, u>> \in C
    BY DEF Closed
  <2> HIDE DEF U, Is
  <2> QED BY <2>1, <2>2
<1>2. ASSUME NEW x \in leaves, NEW u \in f[x] PROVE u \in own[x]
  <2> DEFINE C == {p \in S \X U : p[1] = x => p[2] \in own[x]}
  <2>1. Is(C)
    <3>1. ASSUME NEW z \in leaves, NEW v \in own[z] PROVE <<z, v>> \in C
      <4>1. v \in U /\ z \in S
        OBVIOUS
      <4> HIDE DEF U
      <4> QED BY <3>1, <4>1
    <3>2. ASSUME NEW z \in S \ leaves, NEW y \in below[z], NEW v, <<y, v>> \in C PROVE <<z, v>> \in C
      <4>1. v \in U
        BY <3>2
      <4> HIDE DEF U
      <4> QED BY <3>2, <4>1
    <3> HIDE DEF C
    <3> QED BY <3>1, <3>2 DEF Closed
  <2>2. C \in SUBSET (S \X U) /\ x \in S
    OBVIOUS
  <2>3. <<x, u>> \in C
    <3> HIDE DEF Is, C, U
    <3> QED BY <1>2, <2>1, <2>2
  <2> HIDE DEF U
  <2> QED BY <2>3
<1>3. ASSUME NEW x \in S \ leaves, NEW y \in below[x], NEW u \in f[y] PROVE u \in f[x]
  <2>1. y \in S /\ u \in U /\ \A C \in SUBSET (S \X U) : Is(C) => <<y, u>> \in C
    <3> HIDE DEF Is, U
    <3>1. y \in S
      BY <1>3
    <3> QED BY <1>3, <3>1
  <2>2. \A C : Is(C) => (<<y, u>> \in C => <<x, u>> \in C)
    BY <1>3 DEF Closed
  <2> HIDE DEF Is, U
  <2> QED BY <1>3, <2>1, <2>2
<1>4. ASSUME NEW x \in S \ leaves, NEW u \in f[x], \A y \in below[x] : u \notin f[y] PROVE FALSE
  <2> DEFINE C == {p \in S \X U : p[2] \in f[p[1]] /\ ~(p[1] = x /\ p[2] = u)}
  <2>1. Is(C)
    <3>1. ASSUME NEW z \in leaves, NEW v \in own[z] PROVE <<z, v>> \in C
      <4>1. v \in f[z] /\ z # x /\ z \in S
        BY <1>1, <1>4, <3>1
      <4>2. v \in U
        BY <3>1
      <4> HIDE DEF f, U
      <4> QED BY <4>1, <4>2
    <3>2. ASSUME NEW z \in S \ leaves, NEW y \in below[z], NEW v, <<y, v>> \in C PROVE <<z, v>> \in C
      <4>1. v \in U /\ v \in f[y]
        <5> HIDE DEF f, U
        <5> QED BY <3>2
      <4>2. v \in f[z]
        <5> HIDE DEF f, U
        <5> QED BY <1>3, <3>2, <4>1
      <4> HIDE DEF f, U
      <4> QED BY <1>4, <3>2, <4>1, <4>2
    <3> HIDE DEF C
    <3> QED BY <3>1, <3>2 DEF Closed
  <2>2. C \in SUBSET (S \X U)
    OBVIOUS
  <2>3. <<x, u>> \in C
    <3> HIDE DEF Is, C, U
    <3> QED BY <1>4, <2>1, <2>2
  <2> HIDE DEF f, U
  <2> QED BY <2>3
<1>5. ASSUME NEW x \in S
      PROVE  f[x] = IF x \in leaves THEN own[x] ELSE UNION {f[y] : y \in below[x]}
  <2> HIDE DEF f
  <2>1. CASE x \in leaves
    BY <1>1, <1>2, <2>1
  <2>2. CASE x \notin leaves
    <3>1. \A u \in f[x] : \E y \in below[x] : u \in f[y]
      BY <1>4, <2>2
    <3>2. \A y \in below[x] : \A u \in f[y] : u \in f[x]
      BY <1>3, <2>2
    <3> QED BY <2>2, <3>1, <3>2
  <2> QED BY <2>1, <2>2
<1>6. f = [x \in S |-> f[x]]
  OBVIOUS
<1>7. f = [x \in S |-> IF x \in leaves THEN own[x] ELSE UNION {f[y] : y \in below[x]}]
  <2> HIDE DEF f
  <2> QED BY <1>5, <1>6, Zenon
<1> QED BY <1>7 DEF IsUnion
-----------------------------------------------------------------------------
(* The nodes below a node are below it in height too.                      *)
Under(nodes, height) == \A n \in nodes : n \in Nodes /\ Height(n) < height

LEMMA ChildrenUnder ==
  ASSUME NEW n \in Nodes, NEW height \in Nat, Height(n) <= height,
         NEW kid \in Range(Children(n))
  PROVE  kid.node \in Nodes /\ Height(kid.node) \in Nat /\ Height(kid.node) < height
<1>1. kid.node \in Nodes
  BY ChildrenOf
<1> QED BY <1>1, HeightAssumption

LEMMA InsideUnder ==
  ASSUME NEW nodes, NEW height \in Nat, Under(nodes, height)
  PROVE  Under(Inside(nodes), height)
<1> SUFFICES ASSUME NEW n \in Inside(nodes) PROVE n \in Nodes /\ Height(n) < height
  BY DEF Under
<1>1. CASE n \in nodes
  BY <1>1 DEF Under
<1>2. ASSUME NEW m \in nodes, NEW kid \in Range(Children(m)), n = kid.node
      PROVE  n \in Nodes /\ Height(n) < height
  <2>1. m \in Nodes /\ Height(m) \in Nat /\ Height(m) <= height
    BY HeightAssumption DEF Under
  <2> QED BY <1>2, <2>1, ChildrenUnder
<1> QED BY <1>1, <1>2 DEF Inside

LEMMA PartsUnder ==
  ASSUME NEW n \in Nodes
  PROVE  Under(Kids(n), Height(n)) /\ \A field : Under(Below(n, field), Height(n))
<1> DEFINE all == {kid.node : kid \in Range(Children(n))}
<1>1. Height(n) \in Nat
  BY HeightAssumption
<1>2. Under(all, Height(n))
  <2>1. Height(n) <= Height(n)
    BY <1>1
  <2>2. \A kid \in Range(Children(n)) : kid.node \in Nodes /\ Height(kid.node) < Height(n)
    BY <1>1, <2>1, ChildrenUnder
  <2> QED BY <2>2 DEF Under
<1>3. Under(Kids(n), Height(n))
  <2>1. Kids(n) = Inside(Inside(all))
    BY DEF Kids
  <2> HIDE DEF all
  <2> QED BY <1>1, <1>2, <2>1, InsideUnder
<1>4. ASSUME NEW field PROVE Under(Below(n, field), Height(n))
  <2> DEFINE some == {kid.node : kid \in {k \in Range(Children(n)) : k.at = Field(field)}}
  <2>1. some \subseteq all
    OBVIOUS
  <2>2. Under(some, Height(n))
    BY <1>2, <2>1 DEF Under
  <2>3. Below(n, field) = Inside(Inside(some))
    BY DEF Below
  <2> HIDE DEF some
  <2> QED BY <1>1, <2>2, <2>3, InsideUnder
<1> QED BY <1>3, <1>4

(* The WITH clause of a statement, and the CTEs in it.                     *)
LEMMA WithClauseOf ==
  ASSUME NEW n \in Nodes, Kind(n) \in Statements, NEW with \in WithClauses(n)
  PROVE  /\ Kind(with) = "WithClause"
         /\ \E kid \in Range(Children(n)) : kid.at = Field("with_clause") /\ kid.node = with
<1> DEFINE direct == {kid.node : kid \in {k \in Range(Children(n)) : k.at = Field("with_clause")}}
<1>1. \A w \in direct : Kind(w) = "WithClause"
  BY WithAssumption
<1>2. WithClauses(n) = Inside(Inside(direct))
  BY DEF WithClauses, Below
<1>3. \A N : (\A w \in N : Kind(w) = "WithClause") => Inside(N) = N
  BY DEF Inside, Wrappers
<1>4. with \in direct
  <2> HIDE DEF direct
  <2> QED BY <1>1, <1>2, <1>3
<1> QED BY <1>1, <1>4

IsCteListOf(list, with) ==
  /\ \E kid \in Range(Children(with)) : kid.at = Field("ctes") /\ kid.node = list
  /\ list \in Nodes /\ Kind(list) = "list"
  /\ Ctes(with) = [i \in 1..Len(Children(list)) |-> Children(Children(list)[i].node)[1].node]
  /\ \A i \in 1..Len(Children(list)) :
       LET item == Children(list)[i].node IN
       /\ item \in Nodes /\ Kind(item) = "Node" /\ Len(Children(item)) = 1
       /\ Kind(Children(item)[1].node) = "CommonTableExpr"

LEMMA CtesOf ==
  ASSUME NEW with \in Nodes, Kind(with) = "WithClause"
  PROVE  \E list : IsCteListOf(list, with)
<1>1. PICK kid \in Range(Children(with)) :
           /\ kid.at = Field("ctes") /\ Kind(kid.node) = "list"
           /\ \A item \in Range(Children(kid.node)) :
                /\ Kind(item.node) = "Node" /\ Len(Children(item.node)) = 1
                /\ Kind(Children(item.node)[1].node) = "CommonTableExpr"
  BY WithAssumption
<1> DEFINE list == kid.node
<1>2. list \in Nodes /\ \A k \in Range(Children(with)) : k.at = Field("ctes") => k = kid
  BY <1>1, ChildrenOf
<1>3. (CHOOSE k \in Range(Children(with)) : k.at = Field("ctes")) = kid
  BY <1>1, <1>2
<1>4. DOMAIN Children(list) = 1..Len(Children(list))
  BY <1>2, ChildrenOf
<1>5. Ctes(with) = [i \in 1..Len(Children(list)) |-> Children(Children(list)[i].node)[1].node]
  <2> DEFINE CtesIn(k) == [i \in DOMAIN Children(k.node) |-> Children(Children(k.node)[i].node)[1].node]
  <2>1. Ctes(with) = CtesIn(CHOOSE k \in Range(Children(with)) : k.at = Field("ctes"))
    BY DEF Ctes
  <2>2. Ctes(with) = CtesIn(kid)
    <3> HIDE DEF CtesIn
    <3> QED BY <1>3, <2>1
  <2> QED BY <1>4, <2>2
<1>6. \A i \in 1..Len(Children(list)) :
        Children(list)[i] \in Range(Children(list)) /\ Children(list)[i].node \in Nodes
  BY <1>2, ChildrenOf
<1>7. IsCteListOf(list, with)
  BY <1>1, <1>2, <1>5, <1>6 DEF IsCteListOf
<1> QED BY <1>7

LEMMA CteOf ==
  ASSUME NEW with, NEW list, IsCteListOf(list, with), NEW i \in DOMAIN Ctes(with)
  PROVE  LET item == Children(list)[i].node IN
         /\ i \in 1..Len(Children(list))
         /\ Ctes(with)[i] \in Nodes /\ Kind(Ctes(with)[i]) = "CommonTableExpr"
         /\ item \in Nodes /\ Kind(item) = "Node"
         /\ Children(list)[i] \in Range(Children(list))
         /\ Children(item)[1] \in Range(Children(item)) /\ Children(item)[1].node = Ctes(with)[i]
<1> DEFINE item == Children(list)[i].node
<1>1. i \in 1..Len(Children(list)) /\ list \in Nodes
  BY DEF IsCteListOf
<1>2. Ctes(with)[i] = Children(item)[1].node
  BY <1>1 DEF IsCteListOf
<1>3. /\ item \in Nodes /\ Kind(item) = "Node" /\ Len(Children(item)) = 1
      /\ Kind(Children(item)[1].node) = "CommonTableExpr"
  BY <1>1 DEF IsCteListOf
<1>4. Children(list)[i] \in Range(Children(list))
  BY <1>1, ChildrenOf
<1>5. Children(item)[1] \in Range(Children(item)) /\ Children(item)[1].node \in Nodes
  <2> HIDE DEF item
  <2> QED BY <1>3, ChildrenOf
<1> QED BY <1>1, <1>2, <1>3, <1>4, <1>5

LEMMA NamesAre ==
  ASSUME NEW with \in Nodes, Kind(with) = "WithClause"
  PROVE  /\ NamesOf(Ctes(with)) = {Message(cte).ctename : cte \in Below(with, "ctes")}
         /\ NamesOf(Ctes(with)) \subseteq STRING
         /\ \A i \in DOMAIN Ctes(with) : NamesOf(SubSeq(Ctes(with), 1, i - 1)) \subseteq STRING
<1>1. PICK list : IsCteListOf(list, with)
  BY CtesOf
<1> DEFINE ctes == Ctes(with)
           n == Len(Children(list))
           direct == {kid.node : kid \in {k \in Range(Children(with)) : k.at = Field("ctes")}}
<1>2. direct = {list}
  BY <1>1, ChildrenOf DEF IsCteListOf
<1>3. Inside(direct) = {kid.node : kid \in Range(Children(list))}
  <2> HIDE DEF direct
  <2> QED BY <1>1, <1>2 DEF Inside, Wrappers, IsCteListOf
<1>4. n \in Nat /\ \A kid \in Range(Children(list)) : \E i \in 1..n : kid = Children(list)[i]
  BY <1>1, ChildrenOf DEF IsCteListOf
<1>5. DOMAIN ctes = 1..n
  BY <1>1 DEF IsCteListOf
<1>6. \A i \in 1..n :
        LET item == Children(list)[i].node IN
        /\ ctes[i] \in Nodes /\ Kind(ctes[i]) = "CommonTableExpr"
        /\ Children(list)[i] \in Range(Children(list)) /\ Kind(item) = "Node"
        /\ {kid.node : kid \in Range(Children(item))} = {ctes[i]}
  <2> SUFFICES ASSUME NEW i \in 1..n
               PROVE  LET item == Children(list)[i].node IN
        /\ ctes[i] \in Nodes /\ Kind(ctes[i]) = "CommonTableExpr"
        /\ Children(list)[i] \in Range(Children(list)) /\ Kind(item) = "Node"
        /\ {kid.node : kid \in Range(Children(item))} = {ctes[i]}
    OBVIOUS
  <2> DEFINE item == Children(list)[i].node
  <2>1. /\ ctes[i] \in Nodes /\ Kind(ctes[i]) = "CommonTableExpr"
        /\ item \in Nodes /\ Kind(item) = "Node"
        /\ Children(list)[i] \in Range(Children(list))
        /\ Children(item)[1] \in Range(Children(item)) /\ Children(item)[1].node = ctes[i]
    BY <1>1, <1>5, CteOf
  <2>2. Len(Children(item)) = 1
    BY <1>1 DEF IsCteListOf
  <2>3. {kid.node : kid \in Range(Children(item))} = {ctes[i]}
    <3> HIDE DEF item, ctes
    <3>1. \A kid \in Range(Children(item)) : kid = Children(item)[1]
      BY <2>1, <2>2, ChildrenOf
    <3> QED BY <2>1, <3>1
  <2> QED BY <2>1, <2>3
<1>7. Below(with, "ctes") = {ctes[i] : i \in 1..n}
  <2>1. Below(with, "ctes") = Inside(Inside(direct))
    BY DEF Below
  <2>2. \A x : x \in Inside(Inside(direct)) <=> \E i \in 1..n : x = ctes[i]
    <3> DEFINE items == {kid.node : kid \in Range(Children(list))}
    <3>1. \A m \in items : \E i \in 1..n : m = Children(list)[i].node
      BY <1>4
    <3>2. \A i \in 1..n : Children(list)[i].node \in items
      BY <1>6
    <3>3. \A x : x \in Inside(items) <=>
            \E m \in items : x \in (IF Kind(m) \in Wrappers
                                     THEN {kid.node : kid \in Range(Children(m))} ELSE {m})
      <4> HIDE DEF items
      <4> QED BY DEF Inside
    <3>4. \A i \in 1..n : (IF Kind(Children(list)[i].node) \in Wrappers
                            THEN {kid.node : kid \in Range(Children(Children(list)[i].node))}
                            ELSE {Children(list)[i].node}) = {ctes[i]}
      <4> HIDE DEF ctes
      <4> QED BY <1>6 DEF Wrappers
    <3> HIDE DEF direct, ctes, n, items
    <3>5. \A x : x \in Inside(items) <=> \E i \in 1..n : x \in {ctes[i]}
      <4>1. ASSUME NEW x, x \in Inside(items) PROVE \E i \in 1..n : x \in {ctes[i]}
        <5>1. PICK m \in items : x \in (IF Kind(m) \in Wrappers
                                       THEN {kid.node : kid \in Range(Children(m))} ELSE {m})
          BY <3>3, <4>1
        <5>2. PICK i \in 1..n : m = Children(list)[i].node
          BY <3>1
        <5>3. x \in {ctes[i]}
          BY <3>4, <5>1, <5>2, Zenon
        <5> QED BY <5>3
      <4>2. ASSUME NEW x, NEW i \in 1..n, x \in {ctes[i]} PROVE x \in Inside(items)
        <5>1. x \in (IF Kind(Children(list)[i].node) \in Wrappers
                     THEN {kid.node : kid \in Range(Children(Children(list)[i].node))}
                     ELSE {Children(list)[i].node})
          BY <3>4, <4>2, Zenon
        <5> QED BY <3>2, <3>3, <5>1, Zenon
      <4> QED BY <4>1, <4>2
    <3> QED BY <1>3, <3>5 DEF items
  <2> QED BY <2>1, <2>2
<1>8. Range(ctes) = {ctes[i] : i \in 1..n}
  BY <1>5 DEF Range
<1>9. \A i \in 1..n : Message(ctes[i]).ctename \in STRING
  BY <1>6, NamesAssumption
<1>10. NamesOf(ctes) \subseteq STRING
  <2> HIDE DEF ctes, n
  <2> QED BY <1>8, <1>9 DEF NamesOf
<1>11. ASSUME NEW i \in DOMAIN ctes PROVE NamesOf(SubSeq(ctes, 1, i - 1)) \subseteq STRING
  <2> DEFINE s == SubSeq(ctes, 1, i - 1)
  <2>1. DOMAIN s = 1..(i - 1) /\ \A k \in 1..(i - 1) : s[k] = ctes[k]
    <3>1. ctes \in Seq({ctes[k] : k \in 1..n}) /\ Len(ctes) = n
      <4>1. ctes = [k \in 1..n |-> ctes[k]]
        BY <1>1 DEF IsCteListOf
      <4> DEFINE T == {ctes[k] : k \in 1..n}
      <4>2. \A k \in 1..n : ctes[k] \in T
        OBVIOUS
      <4> HIDE DEF T, ctes
      <4>3. ctes \in [1..n -> T]
        BY <4>1, <4>2
      <4>4. ctes \in Seq(T)
        BY <1>4, <4>3
      <4> QED BY <1>4, <1>5, <4>4, SameLength DEF T
    <3>2. i \in 1..n
      BY <1>5, <1>11
    <3> HIDE DEF ctes
    <3> QED BY <1>4, <3>1, <3>2
  <2>2. \A k \in 1..(i - 1) : k \in 1..n
    BY <1>4, <1>5, <1>11
  <2> HIDE DEF s, ctes
  <2> QED BY <1>9, <2>1, <2>2 DEF NamesOf, Range, s
<1> QED BY <1>7, <1>8, <1>10, <1>11 DEF NamesOf

(* What is below a place is of three sorts.                                *)
Around(p) == p.ctes \cup UNION {NamesOf(Ctes(w)) : w \in WithClauses(p.node)}

IsPart(q, p, field) ==
  /\ field # "with_clause" /\ q.node \in Below(p.node, field)
  /\ q.role = Role(p.node, field) /\ q.inCte = p.inCte /\ q.ctes = Around(p)

IsBody(q, p, with, i) ==
  /\ with \in WithClauses(p.node) /\ i \in DOMAIN Ctes(with) /\ q.node \in Kids(Ctes(with)[i])
  /\ q.role = "none" /\ q.inCte = TRUE
  /\ q.ctes = p.ctes \cup NamesOf(IF Message(with).recursive THEN Ctes(with)
                                  ELSE SubSeq(Ctes(with), 1, i - 1))

IsInside(q, p) ==
  /\ q.node \in Kids(p.node)
  /\ q.role = (IF Kind(p.node) \in Holders THEN p.role ELSE "none")
  /\ q.inCte = p.inCte /\ q.ctes = p.ctes

IsPlace(q) == q = [node |-> q.node, role |-> q.role, ctes |-> q.ctes, inCte |-> q.inCte]

LEMMA PlacesBelowAre ==
  ASSUME NEW p, IsPlace(p), NEW q \in PlacesBelow(p)
  PROVE  /\ IsPlace(q)
         /\ Kind(p.node) \in Statements =>
              (\E f : IsPart(q, p, f)) \/ (\E w, i : IsBody(q, p, w, i))
         /\ Kind(p.node) \notin Statements => IsInside(q, p)
<1>1. CASE Kind(p.node) \in Statements
  <2> DEFINE n == p.node
             withs == WithClauses(n)
  <2>1. q \in Parts(n, Around(p), p.inCte) \/ \E w \in withs : q \in CteBodies(w, p.ctes)
    BY <1>1 DEF PlacesBelow, PartsAndCtes, Around
  <2>2. CASE q \in Parts(n, Around(p), p.inCte)
    <3>1. PICK m \in UNION {{f} \X Below(n, f) : f \in FieldsOf(n) \ {"with_clause"}} :
            q = [node |-> m[2], role |-> Role(n, m[1]), inCte |-> p.inCte, ctes |-> Around(p)]
      BY <2>2 DEF Parts
    <3>2. m[1] # "with_clause" /\ m[2] \in Below(n, m[1])
      OBVIOUS
    <3> HIDE DEF n
    <3>3. IsPlace(q)
      BY <3>1 DEF IsPlace
    <3>4. IsPart(q, p, m[1])
      BY <3>1, <3>2 DEF IsPart, n
    <3> QED BY <1>1, <3>3, <3>4
  <2>3. ASSUME NEW w \in withs, q \in CteBodies(w, p.ctes) PROVE IsPlace(q) /\ \E i : IsBody(q, p, w, i)
    <3> DEFINE list == Ctes(w)
               names(i) == p.ctes \cup NamesOf(IF Message(w).recursive THEN list
                                               ELSE SubSeq(list, 1, i - 1))
    <3>1. PICK i \in DOMAIN list :
            \E body \in Kids(list[i]) :
              q = [node |-> body, role |-> "none", inCte |-> TRUE, ctes |-> names(i)]
      BY <2>3 DEF CteBodies
    <3>2. q.node \in Kids(list[i]) /\ q.role = "none" /\ q.inCte = TRUE /\ q.ctes = names(i)
      BY <3>1
    <3>3. IsPlace(q)
      BY <3>1 DEF IsPlace
    <3> QED BY <2>3, <3>2, <3>3 DEF IsBody
  <2> QED BY <1>1, <2>1, <2>2, <2>3
<1>2. CASE Kind(p.node) \notin Statements
  <2>1. PICK n \in Kids(p.node) :
          q = [p EXCEPT !.node = n, !.role = IF Kind(p.node) \in Holders THEN @ ELSE "none"]
    BY <1>2 DEF PlacesBelow
  <2>2. PICK role : /\ q = [p EXCEPT !.node = n, !.role = role]
                    /\ role = IF Kind(p.node) \in Holders THEN p.role ELSE "none"
    BY <2>1
  <2>3. IsPlace(q) /\ q.node = n /\ q.role = role /\ q.inCte = p.inCte /\ q.ctes = p.ctes
    BY <2>2 DEF IsPlace
  <2> QED BY <1>2, <2>2, <2>3 DEF IsInside
<1> QED BY <1>1, <1>2

LEMMA PlacesAreBelow ==
  ASSUME NEW p \in Places, NEW q \in PlacesBelow(p)
  PROVE  q \in Places /\ Height(q.node) \in Nat /\ Height(q.node) < Height(p.node)
<1>1. /\ IsPlace(p) /\ p.node \in Nodes /\ p.ctes \subseteq STRING /\ p.inCte \in BOOLEAN
      /\ p.role \in {"read", "written", "created", "none"}
  BY DEF Places, IsPlace
<1>2. Height(p.node) \in Nat
  BY <1>1, HeightAssumption
<1>3. ASSUME NEW n, Under({n}, Height(p.node))
      PROVE  n \in Nodes /\ Height(n) \in Nat /\ Height(n) < Height(p.node)
  BY <1>3, HeightAssumption DEF Under
<1>4. ASSUME Kind(p.node) \in Statements, NEW w \in WithClauses(p.node)
      PROVE  /\ w \in Nodes /\ Kind(w) = "WithClause" /\ Height(w) < Height(p.node)
             /\ NamesOf(Ctes(w)) \subseteq STRING
             /\ \A i \in DOMAIN Ctes(w) :
                  /\ NamesOf(SubSeq(Ctes(w), 1, i - 1)) \subseteq STRING
                  /\ Ctes(w)[i] \in Nodes /\ Height(Ctes(w)[i]) < Height(w)
  <2>1. Kind(w) = "WithClause" /\ w \in Nodes /\ Height(w) < Height(p.node)
    <3> DEFINE n == p.node
    <3>1. w \in Below(n, "with_clause") /\ n \in Nodes
      BY <1>1, <1>4 DEF WithClauses
    <3> HIDE DEF n
    <3>2. w \in Nodes /\ Height(w) < Height(n)
      BY <3>1, PartsUnder DEF Under
    <3> QED BY <1>1, <1>4, <3>2, WithClauseOf DEF n
  <2>2. ASSUME NEW i \in DOMAIN Ctes(w)
        PROVE  Ctes(w)[i] \in Nodes /\ Height(Ctes(w)[i]) < Height(w)
    <3>1. PICK list : IsCteListOf(list, w)
      BY <2>1, CtesOf
    <3> DEFINE item == Children(list)[i].node
    <3>2. /\ Ctes(w)[i] \in Nodes /\ item \in Nodes
          /\ Children(list)[i] \in Range(Children(list))
          /\ Children(item)[1] \in Range(Children(item)) /\ Children(item)[1].node = Ctes(w)[i]
      BY <3>1, <2>2, CteOf
    <3>3. \E kid \in Range(Children(w)) : kid.node = list
      BY <3>1 DEF IsCteListOf
    <3>4. list \in Nodes
      BY <3>1 DEF IsCteListOf
    <3>5. Height(list) \in Nat /\ Height(w) \in Nat /\ Height(list) < Height(w)
      BY <2>1, <3>3, <3>4, HeightAssumption
    <3>6. Height(item) \in Nat /\ Height(item) < Height(list)
      BY <3>2, <3>4, HeightAssumption
    <3>7. Height(Ctes(w)[i]) \in Nat /\ Height(Ctes(w)[i]) < Height(item)
      <4> HIDE DEF item
      <4> QED BY <3>2, HeightAssumption
    <3> HIDE DEF item
    <3> QED BY <3>2, <3>5, <3>6, <3>7
  <2> QED BY <2>1, <2>2, NamesAre
<1>5. ASSUME NEW field, Kind(p.node) \in Statements, IsPart(q, p, field)
      PROVE  q \in Places /\ Height(q.node) \in Nat /\ Height(q.node) < Height(p.node)
  <2>1. q.node \in Nodes /\ Height(q.node) < Height(p.node)
    <3> DEFINE n == p.node
    <3>1. q.node \in Below(n, field) /\ n \in Nodes
      BY <1>1, <1>5 DEF IsPart
    <3> HIDE DEF n
    <3> QED BY <3>1, PartsUnder DEF Under, n
  <2>2. Around(p) \subseteq STRING
    BY <1>1, <1>4, <1>5 DEF Around
  <2>3. q.role \in {"read", "written", "created", "none"}
    BY <1>5 DEF IsPart, Role
  <2>4. IsPlace(q)
    BY <1>1, PlacesBelowAre
  <2> QED BY <1>1, <1>5, <2>1, <2>2, <2>3, <2>4, HeightAssumption DEF IsPart, IsPlace, Places
<1>6. ASSUME NEW w, NEW i, Kind(p.node) \in Statements, IsBody(q, p, w, i)
      PROVE  q \in Places /\ Height(q.node) \in Nat /\ Height(q.node) < Height(p.node)
  <2>1. w \in WithClauses(p.node) /\ i \in DOMAIN Ctes(w) /\ q.node \in Kids(Ctes(w)[i])
    BY <1>6 DEF IsBody
  <2>2. /\ w \in Nodes /\ Height(w) < Height(p.node) /\ NamesOf(Ctes(w)) \subseteq STRING
        /\ NamesOf(SubSeq(Ctes(w), 1, i - 1)) \subseteq STRING
        /\ Ctes(w)[i] \in Nodes /\ Height(Ctes(w)[i]) < Height(w)
    BY <1>4, <1>6, <2>1
  <2>3. q.node \in Nodes /\ Height(q.node) < Height(Ctes(w)[i])
    <3> DEFINE n == Ctes(w)[i]
    <3>1. q.node \in Kids(n) /\ n \in Nodes
      BY <2>1, <2>2
    <3> HIDE DEF n
    <3> QED BY <3>1, PartsUnder DEF Under, n
  <2>4. Height(q.node) \in Nat /\ Height(Ctes(w)[i]) \in Nat /\ Height(w) \in Nat
    BY <2>2, <2>3, HeightAssumption
  <2>5. Height(q.node) < Height(p.node)
    BY <1>2, <2>2, <2>3, <2>4
  <2>6. NamesOf(IF Message(w).recursive THEN Ctes(w) ELSE SubSeq(Ctes(w), 1, i - 1)) \subseteq STRING
    BY <2>2
  <2>7. q.ctes \subseteq STRING
    BY <1>1, <1>6, <2>6 DEF IsBody
  <2>8. IsPlace(q)
    BY <1>1, PlacesBelowAre
  <2> QED BY <1>6, <2>3, <2>4, <2>5, <2>7, <2>8 DEF IsBody, IsPlace, Places
<1>7. ASSUME IsInside(q, p)
      PROVE  q \in Places /\ Height(q.node) \in Nat /\ Height(q.node) < Height(p.node)
  <2>1. q.node \in Nodes /\ Height(q.node) < Height(p.node)
    <3> DEFINE n == p.node
    <3>1. q.node \in Kids(n) /\ n \in Nodes
      BY <1>1, <1>7 DEF IsInside
    <3> HIDE DEF n
    <3> QED BY <3>1, PartsUnder DEF Under, n
  <2>2. IsPlace(q)
    BY <1>1, PlacesBelowAre
  <2> QED BY <1>1, <1>7, <2>1, <2>2, HeightAssumption DEF IsInside, IsPlace, Places
<1> QED BY <1>1, <1>5, <1>6, <1>7, PlacesBelowAre

(* The uses below a place are the place's own, or those of what is below.  *)
LEMMA UsesAre ==
  ASSUME NEW p \in Places
  PROVE  Uses[p] = IF Kind(p.node) = "RangeVar"
                   THEN {Use(p.node, p.role, p.ctes, p.inCte)}
                   ELSE UNION {Uses[q] : q \in PlacesBelow(p)}
<1> DEFINE Is(u) == u = [place \in Places |->
                           IF Kind(place.node) = "RangeVar"
                           THEN {Use(place.node, place.role, place.ctes, place.inCte)}
                           ELSE UNION {u[q] : q \in PlacesBelow(place)}]
           leaves == {place \in Places : Kind(place.node) = "RangeVar"}
           own == [place \in Places |-> {Use(place.node, place.role, place.ctes, place.inCte)}]
           below == [place \in Places |-> PlacesBelow(place)]
<1>1. Uses = CHOOSE u : Is(u)
  BY DEF Uses
<1>2. \E u : IsUnion(u, Places, leaves, own, below)
  <2>1. \A x \in Places \ leaves : below[x] \subseteq Places
    BY PlacesAreBelow
  <2>2. leaves \in SUBSET Places
    OBVIOUS
  <2> HIDE DEF leaves, own, below
  <2> QED BY <2>1, <2>2, UnionExists
<1>3. ASSUME NEW u, IsUnion(u, Places, leaves, own, below) PROVE Is(u)
  <2>1. u = [x \in Places |-> IF x \in leaves THEN own[x] ELSE UNION {u[y] : y \in below[x]}]
    BY <1>3 DEF IsUnion
  <2>2. \A x \in Places : (x \in leaves <=> Kind(x.node) = "RangeVar")
    OBVIOUS
  <2>3. \A x \in Places : own[x] = {Use(x.node, x.role, x.ctes, x.inCte)}
    OBVIOUS
  <2>4. \A x \in Places : below[x] = PlacesBelow(x)
    OBVIOUS
  <2> HIDE DEF leaves, own, below
  <2>5. \A x \in Places : u[x] = IF Kind(x.node) = "RangeVar"
                                 THEN {Use(x.node, x.role, x.ctes, x.inCte)}
                                 ELSE UNION {u[q] : q \in PlacesBelow(x)}
    <3> TAKE x \in Places
    <3>1. u[x] = IF x \in leaves THEN own[x] ELSE UNION {u[y] : y \in below[x]}
      BY <2>1, Zenon
    <3> QED BY <2>2, <2>3, <2>4, <3>1
  <2>6. u = [x \in Places |-> u[x]]
    <3> DEFINE g == [x \in Places |-> IF x \in leaves THEN own[x] ELSE UNION {u[y] : y \in below[x]}]
    <3>1. g = [x \in Places |-> g[x]]
      OBVIOUS
    <3> HIDE DEF g
    <3>2. u = g
      BY <2>1 DEF g
    <3> QED BY <3>1, <3>2
  <2> QED BY <2>5, <2>6, Zenon
<1> HIDE DEF leaves, own, below
<1>4. \E u : Is(u)
  BY <1>2, <1>3
<1> HIDE DEF Is
<1>5. Is(Uses)
  BY <1>1, <1>4
<1> QED BY <1>5, Zenon DEF Is
-----------------------------------------------------------------------------
(* What entering a node and a field changes in a scope, and what not.      *)
EntersNode(n, s, t) ==
  /\ IsScope(t)
  /\ t.cte_names = IF Kind(n) \in Statements THEN s.cte_names \cup CteNames(n) ELSE s.cte_names
  /\ t.current_cte = IF Kind(n) = "CommonTableExpr" THEN Message(n).ctename ELSE s.current_cte
  /\ t.recursive_cte = IF Kind(n) = "WithClause" THEN Message(n).recursive ELSE s.recursive_cte
  /\ t.in_from_clause = s.in_from_clause
  /\ Kind(n) \in Statements \cup Holders \cup Wrappers \cup {"RangeVar"} => t.statement = s.statement

LEMMA NodeEntered ==
  ASSUME NEW n, NEW s, IsScope(s) PROVE EntersNode(n, s, ScopeOfNode(n, s))
<1> DEFINE t == ScopeOfNode(n, s)
           withCtes == [s EXCEPT !.cte_names = @ \cup CteNames(n)]
<1>1. /\ IsScope(withCtes) /\ withCtes.cte_names = s.cte_names \cup CteNames(n)
      /\ withCtes.current_cte = s.current_cte /\ withCtes.recursive_cte = s.recursive_cte
      /\ withCtes.in_from_clause = s.in_from_clause /\ withCtes.statement = s.statement
  BY DEF IsScope
<1>2. CASE Kind(n) \in Statements
  <2>1. t = withCtes \/ \E x : t = [withCtes EXCEPT !.aliases = x]
    <3>1. CASE Kind(n) = "SelectStmt"
      BY <3>1 DEF ScopeOfNode
    <3>2. CASE Kind(n) \in {"InsertStmt", "DeleteStmt"}
      BY <3>2 DEF ScopeOfNode
    <3>3. CASE Kind(n) = "UpdateStmt"
      BY <3>3 DEF ScopeOfNode
    <3>4. CASE Kind(n) = "MergeStmt"
      BY <3>4 DEF ScopeOfNode
    <3> QED BY <1>2, <3>1, <3>2, <3>3, <3>4 DEF Statements
  <2> HIDE DEF t, withCtes
  <2>2. /\ IsScope(t) /\ t.cte_names = withCtes.cte_names
        /\ t.current_cte = withCtes.current_cte /\ t.recursive_cte = withCtes.recursive_cte
        /\ t.in_from_clause = withCtes.in_from_clause /\ t.statement = withCtes.statement
    BY <1>1, <2>1 DEF IsScope
  <2>3. EntersNode(n, s, t)
    BY <1>1, <1>2, <2>2 DEF EntersNode, Statements
  <2> QED BY <2>3 DEF t
<1>3. CASE Kind(n) = "WithClause"
  <2>1. t = [s EXCEPT !.recursive_cte = Message(n).recursive]
    BY <1>3 DEF ScopeOfNode
  <2> HIDE DEF t
  <2>2. EntersNode(n, s, t)
    BY <1>3, <2>1 DEF EntersNode, IsScope, Statements, Holders, Wrappers
  <2> QED BY <2>2 DEF t
<1>4. CASE Kind(n) = "CommonTableExpr"
  <2>1. t = [s EXCEPT !.current_cte = Message(n).ctename]
    BY <1>4 DEF ScopeOfNode
  <2> HIDE DEF t
  <2>2. EntersNode(n, s, t)
    BY <1>4, <2>1 DEF EntersNode, IsScope, Statements, Holders, Wrappers
  <2> QED BY <2>2 DEF t
<1>5. CASE Kind(n) \notin Statements \cup {"WithClause", "CommonTableExpr"}
  <2>1. \E x : /\ t = [s EXCEPT !.statement = x]
               /\ Kind(n) \in Holders \cup Wrappers \cup {"RangeVar"} => x = s.statement
    <3>1. CASE Kind(n) = "FuncCall"
      BY <3>1 DEF ScopeOfNode, Holders, Wrappers
    <3>2. CASE Kind(n) # "FuncCall"
      <4>1. t = [s EXCEPT !.statement = DefaultStatement(Kind(n), s.statement)]
        BY <1>5, <3>2 DEF ScopeOfNode, Statements
      <4>2. Kind(n) \in Holders \cup Wrappers \cup {"RangeVar"} =>
              DefaultStatement(Kind(n), s.statement) = s.statement
        BY DEF DefaultStatement, DdlKinds, Holders, Wrappers
      <4> QED BY <4>1, <4>2
    <3> QED BY <3>1, <3>2
  <2> HIDE DEF t
  <2>2. EntersNode(n, s, t)
    BY <1>5, <2>1 DEF EntersNode, IsScope
  <2> QED BY <2>2 DEF t
<1> QED BY <1>2, <1>3, <1>4, <1>5

EntersField(n, at, s, t) ==
  LET field == <<Kind(n), at[1]>> IN
  /\ IsScope(t)
  /\ t.cte_names = s.cte_names /\ t.current_cte = s.current_cte
  /\ t.recursive_cte = s.recursive_cte
  /\ s.in_from_clause => t.in_from_clause
  /\ field \in Reads => t.in_from_clause /\ t.statement = "select"
  /\ field \in Writes => t.in_from_clause /\ t.statement = "dml"
  /\ field \in Creates => t.in_from_clause /\ t.statement = "ddl"
  /\ Kind(n) \in Holders \cup Wrappers => t.statement = s.statement

LEMMA FieldEntered ==
  ASSUME NEW n, NEW at, NEW s, IsScope(s) PROVE EntersField(n, at, s, ScopeOfField(n, at, s))
<1> DEFINE field == <<Kind(n), at[1]>>
           statement == CASE field \in SelectFields -> "select"
                          [] field \in DmlFields -> "dml"
                          [] field \in DdlFields -> "ddl"
                          [] OTHER -> s.statement
           from == \/ s.in_from_clause
                   \/ field \in (SelectFields \cup DmlFields \cup DdlFields) \ ConditionFields
                   \/ field = <<"GrantStmt", "objects">> /\ Message(n).objtype = "OBJECT_TABLE"
<1>1. PICK b, d :
        ScopeOfField(n, at, s) = [s EXCEPT !.statement = statement, !.in_condition = b,
                                           !.in_from_clause = from, !.in_subquery = d]
  BY Zenon DEF ScopeOfField
<1>2. field \in Reads => statement = "select" /\ from
  <2>1. field \in Reads => /\ field \in SelectFields
                          /\ field \notin DmlFields \cup DdlFields \cup ConditionFields
    BY DEF Reads, SelectFields, DmlFields, DdlFields, ConditionFields
  <2> QED BY <2>1
<1>3. field \in Writes => statement = "dml" /\ from
  <2>1. field \in Writes => /\ field \in DmlFields
                           /\ field \notin SelectFields \cup DdlFields \cup ConditionFields
    <3>1. field \in Writes =>
            /\ at[1] = "relation"
            /\ Kind(n) \in {"InsertStmt", "UpdateStmt", "DeleteStmt", "MergeStmt"}
      BY DEF Writes
    <3> QED BY <3>1 DEF SelectFields, DmlFields, DdlFields, ConditionFields
  <2> QED BY <2>1
<1>4. field \in Creates => statement = "ddl" /\ from
  <2>1. field \in Creates => /\ field \in DdlFields
                             /\ field \notin SelectFields \cup DmlFields \cup ConditionFields
    BY DEF Creates, SelectFields, DmlFields, DdlFields, ConditionFields
  <2> QED BY <2>1
<1>5. Kind(n) \in Holders \cup Wrappers => statement = s.statement
  <2>1. Kind(n) \in Holders \cup Wrappers => field \notin SelectFields \cup DmlFields \cup DdlFields
    BY DEF Holders, Wrappers, SelectFields, DmlFields, DdlFields
  <2> QED BY <2>1
<1>6. s.in_from_clause => from
  OBVIOUS
<1> HIDE DEF statement, from, field
<1> DEFINE t == ScopeOfField(n, at, s)
<1> HIDE DEF t
<1>7. /\ IsScope(t) /\ t.cte_names = s.cte_names /\ t.current_cte = s.current_cte
      /\ t.recursive_cte = s.recursive_cte
      /\ t.in_from_clause = from /\ t.statement = statement
  <2>1. t = [s EXCEPT !.statement = statement, !.in_condition = b,
                      !.in_from_clause = from, !.in_subquery = d]
    BY <1>1 DEF t
  <2>2. t = [statement |-> statement, current_cte |-> s.current_cte,
             recursive_cte |-> s.recursive_cte, in_subquery |-> d,
             in_from_clause |-> from, in_condition |-> b,
             aliases |-> s.aliases, cte_names |-> s.cte_names]
    BY <2>1 DEF IsScope
  <2> QED BY <2>2 DEF IsScope
<1>8. EntersField(n, at, s, t)
  BY <1>2, <1>3, <1>4, <1>5, <1>6, <1>7 DEF EntersField, field
<1> QED BY <1>8 DEF t
-----------------------------------------------------------------------------
(* When the walk is done, the scope with which a node was queued says the  *)
(* same as the place that the node has in the statement.                   *)
IsAt(e) == e = Root \/ \E i \in DOMAIN queue : e = queue[i]

Settled ==
  \A e : IsAt(e) =>
    e.node \in Nodes /\ \A k \in 1..Len(Children(e.node)) : IsAt(ChildEntry(e, k))

Agrees(s, p) ==
  /\ IsScope(s)
  /\ ~p.inCte => s.current_cte = "" /\ s.cte_names = p.ctes
  /\ p.inCte => s.current_cte # "" /\ (s.recursive_cte => s.current_cte \in p.ctes)
  /\ p.role # "none" => s.in_from_clause /\ s.statement = TypeOfUse[p.role]

(* A node that is no part of a WITH clause but for the bodies of its CTEs. *)
Clear(n) == Kind(n) \notin {"WithClause", "CommonTableExpr"} /\ ~IsCteList(n) /\ ~IsCteNode(n)

Stands(n, p) == n \in Nodes /\ Clear(n) /\ \E e : IsAt(e) /\ e.node = n /\ Agrees(e.scope, p)

LEMMA Descend ==
  ASSUME IsAnalysis, Settled, NEW e, IsAt(e), NEW kid \in Range(Children(e.node)), IsScope(e.scope)
  PROVE  \E f, s : /\ IsAt(f) /\ f.node = kid.node /\ kid.node \in Nodes
                   /\ EntersNode(e.node, e.scope, s) /\ EntersField(e.node, kid.at, s, f.scope)
<1>1. e.node \in Nodes
  BY DEF Settled
<1>2. PICK k \in 1..Len(Children(e.node)) : kid = Children(e.node)[k]
  BY <1>1, ChildrenOf
<1> DEFINE f == ChildEntry(e, k)
           s == ScopeOfNode(e.node, e.scope)
<1>3. IsAt(f)
  BY <1>2 DEF Settled
<1>4. f.node = kid.node /\ f.scope = ScopeOfField(e.node, kid.at, s)
  BY <1>2 DEF ChildEntry, IsAnalysis
<1>5. EntersNode(e.node, e.scope, s)
  BY NodeEntered
<1> HIDE DEF s
<1>6. EntersField(e.node, kid.at, s, f.scope)
  BY <1>4, <1>5, FieldEntered DEF EntersNode
<1>7. kid.node \in Nodes
  BY <1>1, ChildrenOf
<1> QED BY <1>3, <1>4, <1>5, <1>6, <1>7

(* Below such a node there are only such nodes, but for a WITH clause.     *)
LEMMA StaysClear ==
  ASSUME NEW n \in Nodes, Clear(n) \/ Kind(n) = "CommonTableExpr", NEW kid \in Range(Children(n)),
         Kind(n) \in Statements => kid.at # Field("with_clause")
  PROVE  Clear(kid.node)
<1>1. /\ Kind(kid.node) = "WithClause" => kid.at = Field("with_clause") /\ Kind(n) \in Statements
      /\ IsCteList(kid.node) => Kind(n) = "WithClause"
      /\ IsCteNode(kid.node) => Kind(n) = "list"
      /\ Kind(kid.node) = "CommonTableExpr" => Kind(n) = "Node"
  BY GrammarAssumption
<1>2. CASE Clear(n)
  <2>1. IsCteNode(kid.node) => IsCteList(n)
    BY <1>1 DEF IsCteList
  <2>2. Kind(kid.node) = "CommonTableExpr" => IsCteNode(n)
    BY <1>1 DEF IsCteNode, Has
  <2> QED BY <1>1, <1>2, <2>1, <2>2 DEF Clear
<1>3. CASE Kind(n) = "CommonTableExpr"
  BY <1>1, <1>3 DEF Clear
<1> QED BY <1>2, <1>3

LEMMA WrapperStands ==
  ASSUME IsAnalysis, Settled, NEW p, NEW n, Stands(n, p), Kind(n) \in Wrappers,
         NEW kid \in Range(Children(n))
  PROVE  Stands(kid.node, p)
<1>1. PICK e : IsAt(e) /\ e.node = n /\ Agrees(e.scope, p)
  BY DEF Stands
<1>2. PICK f, s : /\ IsAt(f) /\ f.node = kid.node /\ kid.node \in Nodes
                  /\ EntersNode(n, e.scope, s) /\ EntersField(n, kid.at, s, f.scope)
  <2>1. kid \in Range(Children(e.node)) /\ IsScope(e.scope)
    BY <1>1 DEF Agrees
  <2> QED BY <1>1, <2>1, Descend
<1>3. Kind(n) \notin Statements /\ Kind(n) \notin {"WithClause", "CommonTableExpr"}
  BY DEF Wrappers, Statements
<1>4. Clear(kid.node)
  BY <1>3, StaysClear DEF Stands
<1>5. Agrees(f.scope, p)
  BY <1>1, <1>2, <1>3 DEF Agrees, EntersNode, EntersField
<1> QED BY <1>2, <1>4, <1>5 DEF Stands

LEMMA InsideStands ==
  ASSUME IsAnalysis, Settled, NEW p, NEW nodes, \A n \in nodes : Stands(n, p)
  PROVE  \A n \in Inside(nodes) : Stands(n, p)
<1> TAKE n \in Inside(nodes)
<1>1. CASE n \in nodes
  BY <1>1
<1>2. ASSUME NEW m \in nodes, Kind(m) \in Wrappers, NEW kid \in Range(Children(m)), n = kid.node
      PROVE  Stands(n, p)
  BY <1>2, WrapperStands
<1> QED BY <1>1, <1>2 DEF Inside

(* So do the parts of a statement, the bodies of its CTEs, and what is     *)
(* below a node that is no statement.                                      *)
LEMMA KidsStand ==
  ASSUME IsAnalysis, Settled, NEW q, NEW direct, \A m \in direct : Stands(m, q)
  PROVE  \A m \in Inside(Inside(direct)) : Stands(m, q)
BY InsideStands

LEMMA CteNamesAre ==
  ASSUME NEW n \in Nodes, Kind(n) \in Statements
  PROVE  CteNames(n) = UNION {NamesOf(Ctes(w)) : w \in WithClauses(n)}
<1>1. ASSUME NEW w \in WithClauses(n)
      PROVE  NamesOf(Ctes(w)) = {Message(cte).ctename : cte \in Below(w, "ctes")}
  <2>1. w \in Nodes /\ Kind(w) = "WithClause"
    BY WithClauseOf, ChildrenOf
  <2> QED BY <2>1, NamesAre
<1> QED BY <1>1 DEF CteNames

LEMMA RoleEntered ==
  ASSUME NEW n, NEW field, NEW s, NEW t, EntersField(n, Field(field), s, t), Role(n, field) # "none"
  PROVE  t.in_from_clause /\ t.statement = TypeOfUse[Role(n, field)]
<1> DEFINE of == <<Kind(n), field>>
<1>1. Field(field)[1] = field
  BY DEF Field
<1>2. /\ of \in Reads => t.in_from_clause /\ t.statement = "select"
      /\ of \in Writes => t.in_from_clause /\ t.statement = "dml"
      /\ of \in Creates => t.in_from_clause /\ t.statement = "ddl"
  BY <1>1 DEF EntersField
<1>3. \/ of \in Reads /\ Role(n, field) = "read"
      \/ of \in Writes /\ Role(n, field) = "written"
      \/ of \in Creates /\ Role(n, field) = "created"
  <2> HIDE DEF of
  <2>1. Role(n, field) = CASE of \in Reads -> "read"
                           [] of \in Writes -> "written"
                           [] of \in Creates -> "created"
                           [] OTHER -> "none"
    BY DEF Role, of
  <2> QED BY <2>1
<1> QED BY <1>2, <1>3 DEF TypeOfUse

LEMMA PartStands ==
  ASSUME IsAnalysis, Settled, NEW p, NEW q, NEW field,
         Stands(p.node, p), Kind(p.node) \in Statements, IsPart(q, p, field)
  PROVE  Stands(q.node, q)
<1> DEFINE n == p.node
           direct == {kid.node : kid \in {k \in Range(Children(n)) : k.at = Field(field)}}
<1>1. PICK e : IsAt(e) /\ e.node = n /\ Agrees(e.scope, p) /\ n \in Nodes /\ Clear(n)
  BY DEF Stands
<1>2. Around(p) = p.ctes \cup CteNames(n)
  BY <1>1, CteNamesAre DEF Around
<1>3. Field(field) # Field("with_clause")
  BY DEF IsPart, Field
<1>4. ASSUME NEW kid \in Range(Children(n)), kid.at = Field(field) PROVE Stands(kid.node, q)
  <2>1. PICK f, s : /\ IsAt(f) /\ f.node = kid.node /\ kid.node \in Nodes
                    /\ EntersNode(n, e.scope, s) /\ EntersField(n, kid.at, s, f.scope)
    <3>1. kid \in Range(Children(e.node)) /\ IsScope(e.scope)
      BY <1>1 DEF Agrees
    <3> QED BY <1>1, <3>1, Descend
  <2>2. Clear(kid.node)
    BY <1>1, <1>3, <1>4, StaysClear
  <2>3. /\ IsScope(f.scope) /\ f.scope.cte_names = e.scope.cte_names \cup CteNames(n)
        /\ f.scope.current_cte = e.scope.current_cte
        /\ f.scope.recursive_cte = e.scope.recursive_cte
    BY <1>1, <2>1 DEF EntersNode, EntersField, Clear
  <2>4. q.role # "none" => f.scope.in_from_clause /\ f.scope.statement = TypeOfUse[q.role]
    BY <1>4, <2>1, RoleEntered DEF IsPart
  <2>5. q.inCte = p.inCte /\ q.ctes = p.ctes \cup CteNames(n)
    BY <1>2 DEF IsPart
  <2> HIDE DEF n
  <2>6. Agrees(f.scope, q)
    BY <1>1, <2>3, <2>4, <2>5 DEF Agrees
  <2> QED BY <2>1, <2>2, <2>6 DEF Stands
<1>5. q.node \in Inside(Inside(direct))
  BY DEF IsPart, Below
<1>6. \A m \in direct : Stands(m, q)
  BY <1>4
<1> HIDE DEF direct
<1> QED BY <1>5, <1>6, KidsStand

LEMMA DescendKeeps ==
  ASSUME IsAnalysis, Settled, NEW e, IsAt(e), IsScope(e.scope),
         NEW n, n = e.node, NEW kid \in Range(Children(n))
  PROVE  \E f : /\ IsAt(f) /\ f.node = kid.node /\ kid.node \in Nodes /\ IsScope(f.scope)
                /\ f.scope.recursive_cte = IF Kind(n) = "WithClause" THEN Message(n).recursive
                                           ELSE e.scope.recursive_cte
<1>1. PICK f, s : /\ IsAt(f) /\ f.node = kid.node /\ kid.node \in Nodes
                  /\ EntersNode(n, e.scope, s) /\ EntersField(n, kid.at, s, f.scope)
  BY Descend
<1>2. IsScope(f.scope) /\ f.scope.recursive_cte = s.recursive_cte
  BY <1>1 DEF EntersField
<1>3. s.recursive_cte = IF Kind(n) = "WithClause" THEN Message(n).recursive
                        ELSE e.scope.recursive_cte
  BY <1>1 DEF EntersNode
<1> QED BY <1>1, <1>2, <1>3

LEMMA BodyStands ==
  ASSUME IsAnalysis, Settled, NEW p, NEW q, NEW with, NEW i,
         Stands(p.node, p), Kind(p.node) \in Statements, IsBody(q, p, with, i)
  PROVE  Stands(q.node, q)
<1> DEFINE n == p.node
           cte == Ctes(with)[i]
           direct == {kid.node : kid \in Range(Children(cte))}
<1>1. PICK e : IsAt(e) /\ e.node = n /\ IsScope(e.scope) /\ n \in Nodes
  BY DEF Stands, Agrees
<1>2. with \in WithClauses(n) /\ i \in DOMAIN Ctes(with)
  BY DEF IsBody
<1>3. PICK clause \in Range(Children(n)) : clause.node = with /\ Kind(with) = "WithClause"
  BY <1>1, <1>2, WithClauseOf
<1>4. PICK f1 : IsAt(f1) /\ f1.node = with /\ with \in Nodes /\ IsScope(f1.scope)
  <2> HIDE DEF n
  <2> QED BY <1>1, <1>3, DescendKeeps
<1>5. PICK list : IsCteListOf(list, with)
  BY <1>3, <1>4, CtesOf
<1>6. PICK ctes \in Range(Children(with)) : ctes.node = list /\ Kind(list) = "list"
  BY <1>5 DEF IsCteListOf
<1>7. PICK f2 : /\ IsAt(f2) /\ f2.node = list /\ IsScope(f2.scope)
                /\ f2.scope.recursive_cte = Message(with).recursive
  BY <1>3, <1>4, <1>6, DescendKeeps
<1> DEFINE wrapper == Children(list)[i]
           item == wrapper.node
<1>8. /\ cte \in Nodes /\ Kind(cte) = "CommonTableExpr" /\ Kind(item) = "Node"
      /\ wrapper \in Range(Children(list))
      /\ Children(item)[1] \in Range(Children(item)) /\ Children(item)[1].node = cte
  BY <1>2, <1>5, CteOf
<1> HIDE DEF wrapper, cte
<1>9. PICK f3 : /\ IsAt(f3) /\ f3.node = item /\ IsScope(f3.scope)
                /\ f3.scope.recursive_cte = Message(with).recursive
  BY <1>6, <1>7, <1>8, DescendKeeps
<1>10. PICK f4 : /\ IsAt(f4) /\ f4.node = cte /\ IsScope(f4.scope)
                 /\ f4.scope.recursive_cte = Message(with).recursive
  BY <1>8, <1>9, DescendKeeps
<1>11. Message(cte).ctename # "" /\ Message(cte).ctename \in NamesOf(Ctes(with))
  <2>1. cte \in Range(Ctes(with))
    BY <1>2 DEF cte, Range
  <2> QED BY <1>8, <2>1, NamesAssumption DEF NamesOf
<1>12. /\ q.role = "none" /\ q.inCte = TRUE
       /\ Message(with).recursive => Message(cte).ctename \in q.ctes
  BY <1>11 DEF IsBody
<1>13. ASSUME NEW kid \in Range(Children(cte)) PROVE Stands(kid.node, q)
  <2>1. PICK f, s : /\ IsAt(f) /\ f.node = kid.node /\ kid.node \in Nodes
                    /\ EntersNode(cte, f4.scope, s) /\ EntersField(cte, kid.at, s, f.scope)
    <3>1. kid \in Range(Children(f4.node))
      BY <1>10
    <3> QED BY <1>10, <3>1, Descend
  <2>2. Clear(kid.node)
    BY <1>8, StaysClear DEF Statements
  <2>3. /\ IsScope(f.scope) /\ f.scope.current_cte = Message(cte).ctename
        /\ f.scope.recursive_cte = Message(with).recursive
    BY <1>8, <1>10, <2>1 DEF EntersNode, EntersField
  <2>4. Agrees(f.scope, q)
    BY <1>11, <1>12, <2>3 DEF Agrees
  <2> QED BY <2>1, <2>2, <2>4 DEF Stands
<1>14. q.node \in Inside(Inside(direct))
  BY DEF IsBody, Kids, cte
<1>15. \A m \in direct : Stands(m, q)
  BY <1>13
<1> HIDE DEF direct
<1> QED BY <1>14, <1>15, KidsStand

LEMMA InsideStepStands ==
  ASSUME IsAnalysis, Settled, NEW p, NEW q,
         Stands(p.node, p), Kind(p.node) \notin Statements, IsInside(q, p)
  PROVE  Stands(q.node, q)
<1> DEFINE n == p.node
           direct == {kid.node : kid \in Range(Children(n))}
<1>1. PICK e : IsAt(e) /\ e.node = n /\ Agrees(e.scope, p) /\ n \in Nodes /\ Clear(n)
  BY DEF Stands
<1>2. ASSUME NEW kid \in Range(Children(n)) PROVE Stands(kid.node, q)
  <2>1. PICK f, s : /\ IsAt(f) /\ f.node = kid.node /\ kid.node \in Nodes
                    /\ EntersNode(n, e.scope, s) /\ EntersField(n, kid.at, s, f.scope)
    <3>1. kid \in Range(Children(e.node)) /\ IsScope(e.scope)
      BY <1>1 DEF Agrees
    <3> QED BY <1>1, <3>1, Descend
  <2>2. Clear(kid.node)
    BY <1>1, StaysClear
  <2>3. /\ IsScope(f.scope) /\ f.scope.cte_names = e.scope.cte_names
        /\ f.scope.current_cte = e.scope.current_cte
        /\ f.scope.recursive_cte = e.scope.recursive_cte
        /\ e.scope.in_from_clause => f.scope.in_from_clause
        /\ Kind(n) \in Holders => f.scope.statement = e.scope.statement
    BY <1>1, <2>1 DEF EntersNode, EntersField, Clear
  <2>4. /\ q.inCte = p.inCte /\ q.ctes = p.ctes
        /\ q.role # "none" => Kind(n) \in Holders /\ q.role = p.role
    BY DEF IsInside
  <2> HIDE DEF n
  <2>5. Agrees(f.scope, q)
    BY <1>1, <2>3, <2>4 DEF Agrees
  <2> QED BY <2>1, <2>2, <2>5 DEF Stands
<1>3. q.node \in Inside(Inside(direct))
  BY DEF IsInside, Kids
<1>4. \A m \in direct : Stands(m, q)
  BY <1>2
<1> HIDE DEF direct
<1> QED BY <1>3, <1>4, KidsStand

LEMMA BelowStands ==
  ASSUME IsAnalysis, Settled, NEW p \in Places, NEW q \in PlacesBelow(p), Stands(p.node, p)
  PROVE  Stands(q.node, q)
<1>1. IsPlace(p)
  BY DEF Places, IsPlace
<1> QED BY <1>1, PlacesBelowAre, PartStands, BodyStands, InsideStepStands

(* Every use is that of a range variable whose entry agrees with its       *)
(* place.  Below a place there is less of the tree.                        *)
IsUseOf(use, q) ==
  /\ Kind(q.node) = "RangeVar" /\ Stands(q.node, q)
  /\ use = Use(q.node, q.role, q.ctes, q.inCte)

LEMMA UsesStand ==
  ASSUME IsAnalysis, Settled, NEW place \in Places, Stands(place.node, place),
         NEW use \in Uses[place]
  PROVE  \E q \in Places : IsUseOf(use, q)
<1> DEFINE Fine(p) == Stands(p.node, p) => \A u \in Uses[p] : \E q \in Places : IsUseOf(u, q)
           bad == {p \in Places : ~Fine(p)}
           heights == {Height(p.node) : p \in bad}
<1>1. \A p \in Places : p.node \in Nodes /\ Height(p.node) \in Nat
  BY HeightAssumption DEF Places
<1>2. ASSUME bad # {} PROVE FALSE
  <2>1. PICK least \in heights : \A h \in heights : least <= h
    <3>1. heights \in SUBSET Nat /\ heights # {}
      BY <1>1, <1>2
    <3> HIDE DEF heights
    <3> QED BY <3>1, LeastNumber
  <2>2. PICK p \in bad : least = Height(p.node)
    BY <2>1
  <2>3. p \in Places /\ Stands(p.node, p)
    BY <2>2
  <2>4. PICK u \in Uses[p] : ~\E q \in Places : IsUseOf(u, q)
    BY <2>2
  <2>5. CASE Kind(p.node) = "RangeVar"
    <3>1. u = Use(p.node, p.role, p.ctes, p.inCte)
      BY <2>3, <2>4, <2>5, UsesAre
    <3> QED BY <2>3, <2>4, <2>5, <3>1 DEF IsUseOf
  <2>6. CASE Kind(p.node) # "RangeVar"
    <3>0. Uses[p] = UNION {Uses[q] : q \in PlacesBelow(p)}
      BY <2>3, <2>6, UsesAre
    <3>1. PICK q \in PlacesBelow(p) : u \in Uses[q]
      BY <2>4, <3>0
    <3>2. q \in Places /\ Height(q.node) \in Nat /\ Height(q.node) < Height(p.node)
      BY <2>3, <3>1, PlacesAreBelow
    <3>3. Stands(q.node, q)
      BY <2>3, <3>1, BelowStands
    <3>4. q \in bad
      BY <2>4, <3>1, <3>2, <3>3
    <3>5. least <= Height(q.node) /\ least \in Nat
      BY <1>1, <2>1, <2>2, <2>3, <3>4
    <3> QED BY <2>2, <3>2, <3>5
  <2> QED BY <2>5, <2>6
<1> QED BY <1>2

(* What a name is taken for where the scope agrees with the place.         *)
LEMMA NameOfTable ==
  ASSUME NEW n \in Nodes, Kind(n) = "RangeVar" PROVE TableName(n) # ""
BY NamesAssumption

LEMMA HiddenAreTaken ==
  ASSUME NEW s, NEW q, Agrees(s, q), NEW name, name # ""
  PROVE  /\ name \notin q.ctes => ~TakenForCte(name, s)
         /\ name \in q.ctes /\ ~q.inCte => TakenForCte(name, s)
<1>1. CASE ~q.inCte
  <2>1. s.current_cte = "" /\ s.cte_names = q.ctes
    BY <1>1 DEF Agrees
  <2> QED BY <1>1, <2>1 DEF TakenForCte
<1>2. CASE q.inCte
  <2>1. s.current_cte # "" /\ (s.recursive_cte => s.current_cte \in q.ctes)
    BY <1>2 DEF Agrees
  <2> QED BY <1>2, <2>1 DEF TakenForCte
<1> QED BY <1>1, <1>2
-----------------------------------------------------------------------------
(* What a visit adds to the tables.                                        *)
VisitOf(e) == [node |-> e.node, path |-> e.path, scope |-> EnterNode(e.node, e.scope)]

IsReported(v) ==
  /\ Kind(v.node) = "RangeVar" /\ v.scope.in_from_clause
  /\ ~TakenForCte(TableName(v.node), v.scope)

TableOf(v) == Named(TableName(v.node), v.scope.statement, Message(v.node).location)

AddsTable(v, r, c) ==
  /\ IsResult(c) /\ r.tables \subseteq c.tables
  /\ IsReported(v) => TableOf(v) \in c.tables
  /\ \A t \in c.tables : t \in r.tables \/ t.at = -1 \/ (IsReported(v) /\ t = TableOf(v))

LEMMA TablesAdded ==
  ASSUME NEW v, NEW r, IsResult(r) PROVE AddsTable(v, r, CollectAll(v, r))
<1> DEFINE m == Message(v.node)
           a == StatementTypes(v, m, r)
           s == ScopeMetadata(v, m, a)
           d == DropObjects(v, m, s)
           f == FilterColumns(v, m, d)
           t == Tables(v, m, f)
           u == Functions(v, m, t)
           c == ParameterReferences(v, m, u)
<1>1. CollectAll(v, r) = c
  BY DEF CollectAll
<1>2. m.kind = Kind(v.node) /\ m.location = Message(v.node).location
  BY DEF Kind
<1> HIDE DEF m
<1>3. IsResult(a) /\ a.tables = r.tables
  BY DEF IsResult, StatementTypes
<1> HIDE DEF a
<1>4. IsResult(s) /\ s.tables = a.tables
  BY <1>3 DEF IsResult, ScopeMetadata
<1> HIDE DEF s
<1>5. IsResult(d) /\ s.tables \subseteq d.tables /\ \A x \in d.tables : x \in s.tables \/ x.at = -1
  <2> DEFINE drop(names) == {Named(Dotted(o), v.scope.statement, -1) : o \in names}
             cut == {SubSeq(o, 1, Len(o) - 1) : o \in m.objects}
  <2>1. \A names : \A x \in drop(names) : x.at = -1
    BY DEF Named
  <2>2. \/ d = s
        \/ \E names : d = [s EXCEPT !.tables = @ \cup drop(names)]
        \/ \E x : d = [s EXCEPT !.functions = x]
    <3>1. CASE m.kind # "DropStmt"
      BY <3>1 DEF DropObjects
    <3>2. CASE m.kind = "DropStmt" /\ m.remove_type \in {"OBJECT_TABLE", "OBJECT_VIEW"}
      <4>1. d = [s EXCEPT !.tables = @ \cup drop(m.objects)]
        BY <3>2 DEF DropObjects
      <4> QED BY <4>1
    <3>3. CASE m.kind = "DropStmt" /\ m.remove_type \in {"OBJECT_RULE", "OBJECT_TRIGGER"}
      <4>1. d = [s EXCEPT !.tables = @ \cup drop(cut)]
        BY <3>3 DEF DropObjects
      <4> QED BY <4>1
    <3>4. CASE m.kind = "DropStmt" /\ m.remove_type = "OBJECT_FUNCTION"
      <4>1. d = [s EXCEPT !.functions = @ \cup drop(m.objects)]
        BY <3>4 DEF DropObjects
      <4> QED BY <4>1
    <3>5. CASE m.kind = "DropStmt" /\ m.remove_type \notin
                 {"OBJECT_TABLE", "OBJECT_VIEW", "OBJECT_RULE", "OBJECT_TRIGGER", "OBJECT_FUNCTION"}
      BY <3>5 DEF DropObjects
    <3> QED BY <3>1, <3>2, <3>3, <3>4, <3>5
  <2> HIDE DEF d, drop
  <2> QED BY <1>4, <2>1, <2>2 DEF IsResult
<1> HIDE DEF d
<1>6. IsResult(f) /\ f.tables = d.tables
  BY <1>5 DEF IsResult, FilterColumns
<1> HIDE DEF f
<1>7. /\ IsResult(t)
      /\ t.tables = IF IsReported(v) THEN f.tables \cup {TableOf(v)} ELSE f.tables
  BY <1>2, <1>6 DEF IsResult, Tables, IsReported, TableOf
<1> HIDE DEF t
<1>8. IsResult(u) /\ u.tables = t.tables
  BY <1>7 DEF IsResult, Functions
<1> HIDE DEF u
<1>9. IsResult(c) /\ c.tables = u.tables
  <2>1. c = [u EXCEPT !.parameter_references = @ \cup References(v.node, v.path)]
    BY DEF ParameterReferences
  <2>2. PICK x : c = [u EXCEPT !.parameter_references = x]
    BY <2>1
  <2> HIDE DEF c
  <2> QED BY <1>8, <2>2 DEF IsResult
<1> HIDE DEF c
<1> QED BY <1>1, <1>3, <1>4, <1>5, <1>6, <1>7, <1>8, <1>9 DEF AddsTable

(* The children of the root are in the queue from the start.               *)
RootFollowed ==
  \A k \in 1..Len(Children(tree)) : \E j \in DOMAIN queue : queue[j] = ChildEntry(Root, k)

TablesInv ==
  /\ IsResult(acc) /\ Followed /\ RootFollowed
  /\ \A i \in 1..(next - 1) :
       IsReported(VisitOf(queue[i])) => TableOf(VisitOf(queue[i])) \in acc.tables
  /\ \A t \in acc.tables :
       \/ t.at = -1
       \/ \E i \in 1..(next - 1) : IsReported(VisitOf(queue[i])) /\ t = TableOf(VisitOf(queue[i]))

LEMMA TablesInit == IsAnalysis /\ Init => TablesInv
<1> SUFFICES ASSUME IsAnalysis, Init PROVE TablesInv
  OBVIOUS
<1>1. QueueFrom(Root, <<>>, 0, queue, Len(Children(tree))) /\ next = 1 /\ acc = EmptyResult
  BY InitQueue DEF IsAnalysis
<1>2. IsResult(acc) /\ acc.tables = {}
  BY <1>1 DEF EmptyResult, IsResult
<1>3. 1..(next - 1) = {}
  BY <1>1
<1>4. RootFollowed
  <2> DEFINE c == Len(Children(tree))
  <2>1. /\ c \in Nat /\ DOMAIN queue = 1..(0 + c)
        /\ \A k \in 1..c : queue[0 + k] = ChildEntry(Root, k)
    BY <1>1 DEF QueueFrom
  <2> HIDE DEF c
  <2>2. \A k \in 1..c : k \in DOMAIN queue /\ queue[k] = ChildEntry(Root, k)
    BY <2>1
  <2> QED BY <2>2 DEF RootFollowed, c
<1> QED BY <1>2, <1>3, <1>4 DEF TablesInv, Followed

LEMMA TablesStep == IsAnalysis /\ IInv /\ TablesInv /\ Reduce => TablesInv'
<1> SUFFICES ASSUME IsAnalysis, IInv, TablesInv, Reduce PROVE TablesInv'
  OBVIOUS
<1> DEFINE e == queue[next]
           n == Len(queue)
           c == Len(Children(e.node))
<1>1. /\ QueueFrom(e, queue, n, queue', c) /\ next \in 1..n /\ DOMAIN queue = 1..n
      /\ next' = next + 1 /\ acc' = CollectAll(VisitOf(e), acc) /\ tree' = tree
  BY StepQueue DEF IsAnalysis, VisitOf
<1> HIDE DEF n, c
<1>2. /\ n \in Nat /\ c \in Nat /\ DOMAIN queue' = 1..(n + c)
      /\ \A j \in 1..n : queue'[j] = queue[j] /\ j \in DOMAIN queue'
  BY <1>1 DEF QueueFrom
<1>3. Followed'
  BY FollowedStep DEF TablesInv
<1>4. RootFollowed'
  <2> SUFFICES ASSUME NEW k \in 1..Len(Children(tree))
               PROVE  \E j \in DOMAIN queue' : queue'[j] = ChildEntry(Root, k)
    BY <1>1 DEF RootFollowed, Root, ChildEntry
  <2>1. PICK j \in DOMAIN queue : queue[j] = ChildEntry(Root, k)
    BY DEF TablesInv, RootFollowed
  <2> QED BY <1>1, <1>2, <2>1
<1>5. AddsTable(VisitOf(e), acc, acc')
  <2>1. AddsTable(VisitOf(e), acc, CollectAll(VisitOf(e), acc))
    BY TablesAdded DEF TablesInv
  <2> QED BY <1>1, <2>1
<1>6. /\ \A i \in 1..(next' - 1) : queue'[i] = queue[i] /\ (i = next \/ i \in 1..(next - 1))
      /\ next \in 1..(next' - 1)
      /\ \A i \in 1..(next - 1) : i \in 1..(next' - 1)
  BY <1>1, <1>2
<1>7. ASSUME NEW i \in 1..(next' - 1), IsReported(VisitOf(queue[i]))
      PROVE  TableOf(VisitOf(queue[i])) \in acc'.tables
  <2>1. CASE i = next
    BY <1>5, <1>7, <2>1 DEF AddsTable
  <2>2. CASE i \in 1..(next - 1)
    BY <1>5, <1>7, <2>2 DEF AddsTable, TablesInv
  <2> QED BY <1>6, <2>1, <2>2
<1>8. ASSUME NEW t \in acc'.tables, t.at # -1
      PROVE  \E i \in 1..(next' - 1) : IsReported(VisitOf(queue[i])) /\ t = TableOf(VisitOf(queue[i]))
  <2>1. CASE t \in acc.tables
    BY <1>6, <1>8, <2>1 DEF TablesInv
  <2>2. CASE IsReported(VisitOf(e)) /\ t = TableOf(VisitOf(e))
    BY <1>6, <2>2
  <2> QED BY <1>5, <1>8, <2>1, <2>2 DEF AddsTable
<1> HIDE DEF e
<1>9. \A i \in 1..(next' - 1) :
        IsReported(VisitOf(queue'[i])) => TableOf(VisitOf(queue'[i])) \in acc'.tables
  BY <1>6, <1>7
<1>10. \A t \in acc'.tables :
         \/ t.at = -1
         \/ \E i \in 1..(next' - 1) : IsReported(VisitOf(queue'[i])) /\ t = TableOf(VisitOf(queue'[i]))
  BY <1>6, <1>8
<1>11. IsResult(acc')
  BY <1>5 DEF AddsTable
<1> QED BY <1>3, <1>4, <1>9, <1>10, <1>11 DEF TablesInv

LEMMA TablesAlways == IsAnalysis => (IInv /\ TablesInv /\ [Reduce]_vars => TablesInv')
<1> SUFFICES ASSUME IsAnalysis, TablesInv, UNCHANGED vars PROVE TablesInv'
  BY TablesStep
<1>1. queue' = queue /\ tree' = tree /\ next' = next /\ acc' = acc
  BY DEF vars
<1> QED BY <1>1 DEF TablesInv, Followed, RootFollowed, Root, ChildEntry

(* Where the walk is done, everything below the root has an entry.         *)
LEMMA WalkSettled ==
  ASSUME IInv, TablesInv, Done
  PROVE  Settled /\ tree \in Trees /\ tree \in Nodes /\ \A i \in DOMAIN queue : i \in 1..(next - 1)
<1>1. next \in Nat /\ Len(queue) \in Nat /\ next > Len(queue) /\ DOMAIN queue = 1..Len(queue)
  BY ConcatSequences DEF IInv, TypeOK, Done
<1>2. tree \in Trees /\ tree \in Nodes
  BY ChildrenAssumption DEF IInv, TypeOK
<1>3. \A i \in DOMAIN queue : i \in 1..(next - 1)
  BY <1>1
<1>4. ASSUME NEW e, IsAt(e)
      PROVE  e.node \in Nodes /\ \A k \in 1..Len(Children(e.node)) : IsAt(ChildEntry(e, k))
  <2>1. CASE e = Root
    <3>1. Root.node = tree
      BY DEF Root
    <3> QED BY <1>2, <2>1, <3>1 DEF TablesInv, RootFollowed, IsAt
  <2>2. ASSUME NEW i \in DOMAIN queue, e = queue[i]
        PROVE  e.node \in Nodes /\ \A k \in 1..Len(Children(e.node)) : IsAt(ChildEntry(e, k))
    <3>1. e.node \in Nodes
      BY <2>2 DEF IInv, TypeOK, IsEntry
    <3>2. \A k \in 1..Len(Children(queue[i].node)) :
            \E j \in DOMAIN queue : queue[j] = ChildEntry(queue[i], k)
      BY <1>3 DEF TablesInv, Followed
    <3> QED BY <2>2, <3>1, <3>2 DEF IsAt
  <2> QED BY <1>4, <2>1, <2>2 DEF IsAt
<1> QED BY <1>2, <1>3, <1>4 DEF Settled

(* The entry of a use: what its visit is like.                             *)
IsVisitOf(i, use, q) ==
  LET v == VisitOf(queue[i]) IN
  /\ i \in DOMAIN queue /\ IsUseOf(use, q) /\ queue[i].node = q.node /\ q.node \in Nodes
  /\ v.node = q.node /\ Agrees(v.scope, q)

LEMMA UsesVisited ==
  ASSUME IsAnalysis, IInv, TablesInv, Done, NEW use \in TableUses(tree)
  PROVE  \E i, q : q \in Places /\ IsVisitOf(i, use, q)
<1> DEFINE place == [node |-> tree, role |-> "none", ctes |-> {}, inCte |-> FALSE]
<1>1. Settled /\ tree \in Trees /\ tree \in Nodes
  BY WalkSettled
<1>2. Kind(tree) = "ParseResult" /\ Root.node = tree /\ Root.scope = DefaultScope
  BY <1>1, RootsAssumption DEF Root, IsAnalysis
<1>3. place \in Places
  BY <1>1 DEF Places
<1>4. Stands(tree, place)
  <2>1. Agrees(DefaultScope, place)
    BY DEF Agrees, DefaultScope, IsScope
  <2>2. Clear(tree)
    BY <1>2 DEF Clear, IsCteList, IsCteNode
  <2> HIDE DEF place
  <2> QED BY <1>1, <1>2, <2>1, <2>2 DEF Stands, IsAt
<1>5. use \in Uses[place] /\ place.node = tree
  BY DEF TableUses
<1> HIDE DEF place
<1>6. PICK q \in Places : IsUseOf(use, q)
  BY <1>1, <1>3, <1>4, <1>5, UsesStand
<1>7. PICK e : IsAt(e) /\ e.node = q.node /\ Agrees(e.scope, q) /\ q.node \in Nodes
  BY <1>6 DEF IsUseOf, Stands
<1>8. Kind(q.node) = "RangeVar"
  BY <1>6 DEF IsUseOf
<1>9. PICK i \in DOMAIN queue : e = queue[i]
  BY <1>2, <1>7, <1>8 DEF IsAt
<1> DEFINE s == ScopeOfNode(e.node, e.scope)
<1>10. VisitOf(e).node = q.node /\ VisitOf(e).scope = s
  BY <1>7 DEF VisitOf, IsAnalysis
<1>11. EntersNode(q.node, e.scope, s)
  BY <1>7, NodeEntered DEF Agrees
<1> HIDE DEF s
<1>12. Agrees(s, q)
  <2>1. /\ IsScope(s) /\ s.cte_names = e.scope.cte_names /\ s.current_cte = e.scope.current_cte
        /\ s.recursive_cte = e.scope.recursive_cte
        /\ s.in_from_clause = e.scope.in_from_clause /\ s.statement = e.scope.statement
    BY <1>8, <1>11 DEF EntersNode, Statements
  <2> QED BY <1>7, <2>1 DEF Agrees
<1>13. IsVisitOf(i, use, q)
  BY <1>6, <1>7, <1>9, <1>10, <1>12 DEF IsVisitOf
<1> QED BY <1>6, <1>13

(* Every table a statement reads, writes or creates is among the tables    *)
(* that analyze reports, with its use, however the statement nests: the    *)
(* fields the walk came through tell the use, and the scope it kept tells  *)
(* a table from a CTE.                                                     *)
THEOREM TablesAreFound ==
  ASSUME IsAnalysis PROVE Spec => []TablesFound
<1>1. IInv /\ TablesInv => TablesFound
  <2> SUFFICES ASSUME IInv, TablesInv, Done, NEW use \in TableUses(tree),
                      use.role # "none", ~use.spelledLikeCte
               PROVE  Named(use.name, TypeOfUse[use.role], use.at) \in acc.tables
    BY DEF TablesFound
  <2>1. PICK i, q : q \in Places /\ IsVisitOf(i, use, q)
    BY UsesVisited
  <2> DEFINE v == VisitOf(queue[i])
  <2>2. i \in DOMAIN queue /\ v.node = q.node /\ Agrees(v.scope, q) /\ q.node \in Nodes
    BY <2>1 DEF IsVisitOf
  <2>3. Kind(q.node) = "RangeVar" /\ use = Use(q.node, q.role, q.ctes, q.inCte)
    BY <2>1 DEF IsVisitOf, IsUseOf
  <2>4. /\ use.name = TableName(q.node) /\ use.at = Message(q.node).location
        /\ use.role = q.role /\ TableName(q.node) \notin q.ctes
    BY <2>3 DEF Use
  <2> HIDE DEF v
  <2>5. v.scope.in_from_clause /\ v.scope.statement = TypeOfUse[use.role]
    BY <2>2, <2>4 DEF Agrees
  <2>6. ~TakenForCte(TableName(q.node), v.scope)
    <3>1. TableName(q.node) # ""
      BY <2>2, <2>3, NameOfTable
    <3> DEFINE name == TableName(q.node)
    <3> HIDE DEF name
    <3>2. name # "" /\ name \notin q.ctes
      BY <2>4, <3>1 DEF name
    <3>3. ~TakenForCte(name, v.scope)
      BY <2>2, <3>2, HiddenAreTaken
    <3> QED BY <3>3 DEF name
  <2>7. IsReported(v) /\ TableOf(v) = Named(use.name, TypeOfUse[use.role], use.at)
    BY <2>2, <2>3, <2>4, <2>5, <2>6 DEF IsReported, TableOf
  <2>8. TableOf(v) \in acc.tables
    BY <2>2, <2>7, WalkSettled DEF TablesInv, v
  <2> QED BY <2>7, <2>8
<1>2. IInv /\ TablesInv /\ [Reduce]_vars => TablesInv'
  BY TablesAlways
<1>3. Init => TablesInv
  BY TablesInit
<1> QED BY <1>1, <1>2, <1>3, WalkInvariant, PTL DEF Spec

(* What a parse makes of range variables: each has a place of its own in   *)
(* the text.                                                               *)
TablesApart ==
  \A i, j \in DOMAIN queue :
    Kind(queue[i].node) = "RangeVar" /\ Kind(queue[j].node) = "RangeVar" =>
      /\ Message(queue[i].node).location # -1
      /\ Message(queue[i].node).location = Message(queue[j].node).location => i = j

(* Outside the bodies of CTEs no range variable that refers to a CTE is    *)
(* reported as a table, neither from its own visit nor, where each has a   *)
(* place of its own, from that of another.                                 *)
THEOREM CtesAreNotTables ==
  ASSUME IsAnalysis PROVE Spec => [](TablesApart => CtesAreNoTables)
<1>1. IInv /\ TablesInv => (TablesApart => CtesAreNoTables)
  <2> SUFFICES ASSUME IInv, TablesInv, TablesApart, Done, NEW use \in TableUses(tree),
                      use.visible, ~use.inCte, NEW table \in acc.tables, table.at = use.at
               PROVE  FALSE
    BY DEF CtesAreNoTables
  <2>1. PICK i, q : q \in Places /\ IsVisitOf(i, use, q)
    BY UsesVisited
  <2> DEFINE v == VisitOf(queue[i])
  <2>2. i \in DOMAIN queue /\ v.node = q.node /\ queue[i].node = q.node
        /\ Agrees(v.scope, q) /\ q.node \in Nodes
    BY <2>1 DEF IsVisitOf
  <2>3. Kind(q.node) = "RangeVar" /\ use = Use(q.node, q.role, q.ctes, q.inCte)
    BY <2>1 DEF IsVisitOf, IsUseOf
  <2>4. /\ use.at = Message(q.node).location
        /\ TableName(q.node) \in q.ctes /\ ~q.inCte
    BY <2>3 DEF Use, TableName, QualifiedName
  <2>5. TakenForCte(TableName(q.node), v.scope)
    <3>1. TableName(q.node) # ""
      BY <2>2, <2>3, NameOfTable
    <3> DEFINE name == TableName(q.node)
    <3> HIDE DEF name, v
    <3>2. name # "" /\ name \in q.ctes
      BY <2>4, <3>1 DEF name
    <3>3. TakenForCte(name, v.scope)
      BY <2>2, <2>4, <3>2, HiddenAreTaken
    <3> QED BY <3>3 DEF name
  <2>6. table.at # -1
    BY <2>2, <2>3, <2>4 DEF TablesApart
  <2>7. PICK j \in 1..(next - 1) : IsReported(VisitOf(queue[j])) /\ table = TableOf(VisitOf(queue[j]))
    BY <2>6 DEF TablesInv
  <2>8. j \in DOMAIN queue
    <3>1. next \in Nat /\ Len(queue) \in Nat /\ next <= Len(queue) + 1 /\ DOMAIN queue = 1..Len(queue)
      BY ConcatSequences DEF IInv, TypeOK
    <3> QED BY <2>7, <3>1
  <2>9. Kind(queue[j].node) = "RangeVar" /\ Message(queue[j].node).location = use.at
    BY <2>7 DEF IsReported, TableOf, Named, VisitOf
  <2>10. i = j
    BY <2>2, <2>3, <2>4, <2>8, <2>9 DEF TablesApart
  <2> QED BY <2>2, <2>5, <2>7, <2>10 DEF IsReported
<1>2. IInv /\ TablesInv /\ [Reduce]_vars => TablesInv'
  BY TablesAlways
<1>3. Init => TablesInv
  BY TablesInit
<1> QED BY <1>1, <1>2, <1>3, WalkInvariant, PTL DEF Spec
=============================================================================
