------------------------------- MODULE Listmap -------------------------------
(***************************************************************************)
(* listmap (asg3-listmap-templates/code/listmap.h and listmap.tcc): a map as *)
(* a circular list of nodes, linked both ways around an anchor that has no    *)
(* pair.  Functions that walk the list do so step by step in KeyValue.       *)
(***************************************************************************)
EXTENDS Integers, FiniteSets

CONSTANTS
  Keys,     \* in the order of Less
  Values,
  Nodes,    \* the addresses at which nodes may be
  Anchor

ASSUME KeysAssumption  == Keys \subseteq Int
ASSUME NodesAssumption == Anchor \notin Nodes

VARIABLES
  next, prev,
  pair        \* of each node: its first is the key, its second the value

list == <<next, prev, pair>>

InUse  == DOMAIN pair
Links  == InUse \union {Anchor}
Key(n) == pair[n][1]

Begin == next[Anchor]
End   == Anchor

ListTypeOK ==
  /\ InUse \subseteq Nodes
  /\ next \in [Links -> Links]
  /\ prev \in [Links -> Links]
  /\ pair \in [InUse -> Keys \X Values]

ListInit ==
  /\ next = [x \in {Anchor} |-> Anchor]
  /\ prev = [x \in {Anchor} |-> Anchor]
  /\ pair = <<>>

\* Mutant: what is inserted at the end leaves anchor.prev as it was.
InsertBeforeStale(curr, temp, p) ==
  LET last == prev[curr]
  IN /\ next' = [x \in Links \union {temp} |->
                  IF x = temp THEN curr ELSE IF x = last THEN temp ELSE next[x]]
     /\ prev' = [x \in Links \union {temp} |->
                  IF x = temp THEN last ELSE IF x = curr /\ x # End THEN temp ELSE prev[x]]
     /\ pair' = [x \in InUse \union {temp} |-> IF x = temp THEN p ELSE pair[x]]

\* insert, when it has found its place: in an empty list, before the end, and before
\* curr, it links the same way.
InsertBefore(curr, temp, p) ==
  LET last == prev[curr]
  IN /\ next' = [x \in Links \union {temp} |->
                  IF x = temp THEN curr ELSE IF x = last THEN temp ELSE next[x]]
     /\ prev' = [x \in Links \union {temp} |->
                  IF x = temp THEN last ELSE IF x = curr THEN temp ELSE prev[x]]
     /\ pair' = [x \in InUse \union {temp} |-> IF x = temp THEN p ELSE pair[x]]

\* Mutant: the node is freed before it is taken out of the way back.
EraseForward(position) ==
  LET rest == Links \ {position}
  IN /\ next' = [x \in rest |-> IF x = prev[position] THEN next[position] ELSE next[x]]
     /\ prev' = [x \in rest |-> prev[x]]
     /\ pair' = [x \in rest \ {End} |-> pair[x]]

\* erase of a position that is not the end.
Erase(position) ==
  LET rest == Links \ {position}
  IN /\ next' = [x \in rest |-> IF x = prev[position] THEN next[position] ELSE next[x]]
     /\ prev' = [x \in rest |-> IF x = next[position] THEN prev[position] ELSE prev[x]]
     /\ pair' = [x \in rest \ {End} |-> pair[x]]

------------------------------------------------------------------------------
(* What makes a list correct. *)

\* Node n has a key beyond that of x; beyond the anchor all have.
Beyond(x, n) == x = Anchor \/ Key(x) < Key(n)

\* Forwards, each link leads to the least key beyond its own, and from the greatest to
\* the anchor; so that all nodes are on one way around, in ascending order.
Ascending ==
  \A x \in Links :
    IF next[x] = Anchor THEN \A n \in InUse : ~Beyond(x, n)
    ELSE /\ Beyond(x, next[x])
         /\ \A n \in InUse : Beyond(x, n) => Key(next[x]) <= Key(n)

\* No two nodes have one key.
OneEach == \A m, n \in InUse : Key(m) = Key(n) => m = n

\* The way back is the way forwards.
BothWays == \A x \in Links : prev[next[x]] = x /\ next[prev[x]] = x
==============================================================================
