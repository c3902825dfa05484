------------------------------ MODULE SortedMap ------------------------------
(***************************************************************************)
(* A map that answers lines in the order of its keys: what keyvalue promises. *)
(***************************************************************************)
EXTENDS Integers, SequencesExt

CONSTANTS
  Lines,    \* what may be asked: to set, erase or find a key, for the keys of a value, for all
  NoLine

VARIABLES
  map,
  line,   \* the line to be answered
  said,   \* the pairs of the last answer
  open    \* whether there may be more lines

vars == <<map, line, said, open>>

Init == map = <<>> /\ line = NoLine /\ said = <<>> /\ open = TRUE

After(m, l) ==
  CASE l.op = "set"   -> [k \in DOMAIN m \union {l.key} |-> IF k = l.key THEN l.value ELSE m[k]]
    [] l.op = "erase" -> Restrict(m, DOMAIN m \ {l.key})
    [] OTHER          -> m

\* The keys whose pairs answer a line: of one that is not found, none.
Asked(m, l) ==
  CASE l.op \in {"set", "find"} -> DOMAIN m \intersect {l.key}
    [] l.op = "erase"           -> {}
    [] l.op = "values"          -> {k \in DOMAIN m : m[k] = l.value}
    [] l.op = "print"           -> DOMAIN m

\* The pairs of these keys in ascending order: one sequence, if the keys are integers.
Pairs(m, S) ==
  {s \in SetToSeqs({<<k, m[k]>> : k \in S}) :
     \A i, j \in DOMAIN s : i < j => s[i][1] < s[j][1]}

Ask(l) == open /\ line = NoLine /\ line' = l /\ said' = <<>> /\ UNCHANGED <<map, open>>

Change == line # NoLine /\ map' = After(map, line) /\ UNCHANGED <<line, said, open>>

Reply ==
  /\ line # NoLine
  /\ map' = After(map, line) /\ said' \in Pairs(map', Asked(map', line))
  /\ line' = NoLine
  /\ UNCHANGED open

Close == open /\ line = NoLine /\ open' = FALSE /\ UNCHANGED <<map, line, said>>

Forget ==
  /\ ~open
  /\ \E k \in DOMAIN map : map' = Restrict(map, DOMAIN map \ {k})
  /\ UNCHANGED <<line, said, open>>

Next == (\E l \in Lines : Ask(l)) \/ Change \/ Reply \/ Close \/ Forget

\* What is answered, and how the map changes.
Safety == Init /\ [][Next]_vars

\* Lines are answered, and in the end nothing is kept.
Spec == Safety /\ WF_vars(Reply) /\ WF_vars(Forget)
==============================================================================
