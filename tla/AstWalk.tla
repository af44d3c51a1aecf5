------------------------------- MODULE AstWalk -------------------------------
(***************************************************************************)
(* PgInspect.Internal.AST.reduce: the breadth-first walk over a syntax     *)
(* tree that carries a scope from every node to what is below it.  The     *)
(* analysis and the truncator are functions that this walk calls.  Lists   *)
(* and the wrappers of oneof values are nodes like the messages in them.   *)
(***************************************************************************)
EXTENDS Integers, Sequences

CONSTANTS
  Nodes,              \* every node of every tree, the trees among them
  Segments,           \* what a path is made of: fields and indices
  Trees,              \* the roots that reduce may be called with
  Children(_),        \* what is in the fields of a node that hold messages
  EnterNode(_, _),    \* the scope inside a node
  EnterField(_, _, _),\* the scope of a field of a node
  NoScope,            \* %Analysis{}, what an Analysis is before the walk
  Nothing,            \* the accumulator the caller starts with
  Collect(_, _)       \* the caller's function of a visit and an accumulator

(* A message has at most one value for a field, a list one for an index.   *)
ASSUME ChildrenAssumption ==
  /\ Trees \subseteq Nodes
  /\ \A n \in Nodes :
       /\ Children(n) \in Seq([at : Segments, node : Nodes])
       /\ \A i, j \in DOMAIN Children(n) :
            Children(n)[i].at = Children(n)[j].at => i = j

VARIABLES
  tree,   \* the root
  queue,  \* everything ever put into the queue
  next,   \* the entry that comes out of it next
  acc     \* the accumulator

vars == <<tree, queue, next, acc>>

IsSequence(s) == s \in Seq({s[i] : i \in DOMAIN s})
IsEntry(e) == e.node \in Nodes /\ e.path \in Seq(Segments)
-----------------------------------------------------------------------------
(* Mutant: the path of a child is that of its parent. *)
PushChildrenPathless(parent, path, scope) ==
  [i \in DOMAIN Children(parent) |->
     [node |-> Children(parent)[i].node, path |-> path,
      scope |-> EnterField(parent, Children(parent)[i].at, scope)]]

(* Mutant: the path is left in the order it grows in the code, last first. *)
PushChildrenReversed(parent, path, scope) ==
  [i \in DOMAIN Children(parent) |->
     [node |-> Children(parent)[i].node, path |-> <<Children(parent)[i].at>> \o path,
      scope |-> EnterField(parent, Children(parent)[i].at, scope)]]

PushChildren(parent, path, scope) ==
  [i \in DOMAIN Children(parent) |->
     LET child == Children(parent)[i] IN
     [node  |-> child.node,
      path  |-> Append(path, child.at),
      scope |-> EnterField(parent, child.at, scope)]]

(* What the caller's function is shown of an entry.                        *)
Visit(entry) == [entry EXCEPT !.scope = EnterNode(entry.node, entry.scope)]

Init ==
  /\ tree \in Trees
  /\ queue = PushChildren(tree, <<>>, EnterNode(tree, NoScope))
  /\ next = 1
  /\ acc = Nothing

(* Mutant: the children are put in front, where the walk goes on. *)
ReduceDepthFirst ==
  /\ next <= Len(queue)
  /\ LET visit == Visit(queue[next]) IN
       /\ acc' = Collect(visit, acc)
       /\ queue' = SubSeq(queue, 1, next)
                   \o PushChildren(visit.node, visit.path, visit.scope)
                   \o SubSeq(queue, next + 1, Len(queue))
  /\ next' = next + 1
  /\ UNCHANGED tree

(* Mutant: the children inherit the scope from before their parent. *)
ReduceScopeBefore ==
  /\ next <= Len(queue)
  /\ LET visit == Visit(queue[next]) IN
       /\ acc' = Collect(visit, acc)
       /\ queue' = queue \o PushChildren(visit.node, visit.path, queue[next].scope)
  /\ next' = next + 1
  /\ UNCHANGED tree

(* Mutant: three entries leave the queue for one visit. *)
ReduceSkips ==
  /\ next <= Len(queue)
  /\ LET visit == Visit(queue[next]) IN
       /\ acc' = Collect(visit, acc)
       /\ queue' = queue \o PushChildren(visit.node, visit.path, visit.scope)
  /\ next' = next + 3
  /\ UNCHANGED tree

(* Mutant: the last entry is never taken out. *)
ReduceLeavesOne ==
  /\ next < Len(queue)
  /\ LET visit == Visit(queue[next]) IN
       /\ acc' = Collect(visit, acc)
       /\ queue' = queue \o PushChildren(visit.node, visit.path, visit.scope)
  /\ next' = next + 1
  /\ UNCHANGED tree

Reduce ==
  /\ next <= Len(queue)
  /\ LET visit == Visit(queue[next]) IN
       /\ acc' = Collect(visit, acc)
       /\ queue' = queue \o PushChildren(visit.node, visit.path, visit.scope)
  /\ next' = next + 1
  /\ UNCHANGED tree

Done == next > Len(queue)

Spec == Init /\ [][Reduce]_vars

(* The loop is plain recursion in one process: it goes on as long as there *)
(* is something to do.                                                     *)
FairSpec == Spec /\ WF_vars(Reduce)
-----------------------------------------------------------------------------
TypeOK ==
  /\ tree \in Trees
  /\ IsSequence(queue)
  /\ \A i \in DOMAIN queue : IsEntry(queue[i])
  /\ next \in 1..(Len(queue) + 1)

(* No entry is put into the queue twice: every node below the root is      *)
(* visited once, under a path of its own.                                  *)
VisitedOnce ==
  \A i, j \in DOMAIN queue : queue[i].path = queue[j].path => i = j

(* A node is visited after all nodes closer to the root.                   *)
BreadthFirst ==
  \A i, j \in DOMAIN queue : i < j => Len(queue[i].path) <= Len(queue[j].path)

(* The scope an entry waits with is the scope of the node above it, taken  *)
(* into the field: what was visited in between, in other parts of the      *)
(* tree, leaves no trace in it.                                            *)
ScopeIsInherited ==
  \A i \in DOMAIN queue :
    LET at == queue[i].path[Len(queue[i].path)]
        above == SubSeq(queue[i].path, 1, Len(queue[i].path) - 1)
    IN IF above = <<>>
       THEN queue[i].scope = EnterField(tree, at, EnterNode(tree, NoScope))
       ELSE \E j \in 1..(next - 1) :
              /\ queue[j].path = above
              /\ queue[i].scope =
                   EnterField(queue[j].node, at, Visit(queue[j]).scope)

(* A finite tree is walked to its end.                                     *)
WalkEnds == <>Done
=============================================================================
