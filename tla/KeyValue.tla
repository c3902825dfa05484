------------------------------ MODULE KeyValue ------------------------------
(***************************************************************************)
(* keyvalue (asg3-listmap-templates/code/main.cpp): the lines of its files,   *)
(* one after the other, and how each walks the list.  One action is one       *)
(* iteration of a loop.                                                    *)
(***************************************************************************)
EXTENDS Listmap, Sequences

CONSTANT NoLine

VARIABLES
  pc,       \* the loop that runs
  line,     \* the line that is worked on
  itor,     \* the iterator of that loop
  said,     \* the pairs that were printed since the line was read
  status    \* exit_status

vars == <<list, pc, line, itor, said, status>>

\* What a line may ask for: key = value, key =, key, = value, and = alone.  Of a comment
\* or an empty line nothing is done.
Lines ==
  [op : {"set"}, key : Keys, value : Values] \union [op : {"erase", "find"}, key : Keys]
  \union [op : {"values"}, value : Values] \union [op : {"print"}]

ASSUME NoLineAssumption == NoLine \notin Lines

Walking == {"print", "find", "insert"}

TypeOK ==
  /\ ListTypeOK
  /\ pc \in Walking \union {"files", "lines", "clear", "ended"}
  /\ line \in Lines \union {NoLine}
  /\ pc \in Walking <=> line # NoLine
  /\ pc = "print" => line.op \in {"print", "values"}
  /\ pc = "find" => line.op \in {"find", "erase", "set"}
  /\ pc = "insert" => line.op = "set"
  /\ itor \in Links
  /\ said \in Seq(Keys \X Values)
  /\ status \in {0, 1}

Init ==
  /\ ListInit
  /\ pc = "files" /\ line = NoLine /\ itor = End /\ said = <<>> /\ status = 0

------------------------------------------------------------------------------
(* Files and lines. *)

OpenFile    == pc = "files" /\ pc' = "lines" /\ UNCHANGED <<list, line, itor, said, status>>
MissingFile == pc = "files" /\ status' = 1 /\ UNCHANGED <<list, pc, line, itor, said>>

\* Of a last line without a newline nothing is done.
EndOfFile == pc = "lines" /\ pc' = "files" /\ UNCHANGED <<list, line, itor, said, status>>

ReadLine(l) ==
  /\ pc = "lines"
  /\ pc' = IF l.op \in {"print", "values"} THEN "print" ELSE "find"
  /\ line' = l /\ itor' = Begin /\ said' = <<>>
  /\ UNCHANGED <<list, status>>

\* A line is done, and its iterator is gone.
Done == pc' = "lines" /\ line' = NoLine /\ itor' = End /\ UNCHANGED status

------------------------------------------------------------------------------
(* Loops over the list. *)

Advance == itor' = next[itor] /\ UNCHANGED <<list, pc, line, status>>

\* "=" and "= value": every pair, and every pair that find_value comes to.
PrintPair ==
  /\ pc = "print" /\ itor # End
  /\ said' = IF line.op = "print" \/ pair[itor][2] = line.value
             THEN Append(said, pair[itor]) ELSE said
  /\ Advance

Printed == pc = "print" /\ itor = End /\ Done /\ UNCHANGED <<list, said>>

\* find
Seek == pc = "find" /\ itor # End /\ Key(itor) # line.key /\ Advance /\ UNCHANGED said

Insertion == pc' = "insert" /\ itor' = next'[Anchor] /\ UNCHANGED <<line, said, status>>

FindPrints ==
  /\ pc = "find" /\ line.op = "find"
  /\ itor # End /\ Key(itor) = line.key
  /\ said' = <<pair[itor]>>
  /\ Done /\ UNCHANGED list

FindErases ==
  /\ pc = "find" /\ line.op = "erase"
  /\ itor # End /\ Key(itor) = line.key
  /\ Erase(itor)
  /\ Done /\ UNCHANGED said

FindReplaces ==
  /\ pc = "find" /\ line.op = "set"
  /\ itor # End /\ Key(itor) = line.key
  /\ Erase(itor)
  /\ Insertion

NotFound == pc = "find" /\ itor = End /\ line.op # "set" /\ Done /\ UNCHANGED <<list, said>>

FindAdds == pc = "find" /\ itor = End /\ line.op = "set" /\ UNCHANGED list /\ Insertion

\* insert
InsertSeeks ==
  /\ pc = "insert" /\ itor # End /\ Key(itor) < line.key
  /\ Advance /\ UNCHANGED said

\* Mutant: the place is the next one.
InsertsOneLate ==
  /\ pc = "insert"
  /\ itor # End => ~(Key(itor) < line.key)
  /\ \E temp \in Nodes \ InUse :
       InsertBefore(IF itor = End THEN End ELSE next[itor], temp, <<line.key, line.value>>)
  /\ said' = <<<<line.key, line.value>>>>
  /\ Done

Inserts ==
  /\ pc = "insert"
  /\ itor # End => ~(Key(itor) < line.key)
  /\ \E temp \in Nodes \ InUse : InsertBefore(itor, temp, <<line.key, line.value>>)
  /\ said' = <<<<line.key, line.value>>>>
  /\ Done

------------------------------------------------------------------------------
(* The end of main. *)

NoMoreFiles == pc = "files" /\ pc' = "clear" /\ UNCHANGED <<list, line, itor, said, status>>

\* The first node is erased, until there is none.
Clear   == pc = "clear" /\ Begin # End /\ Erase(Begin) /\ UNCHANGED <<pc, line, itor, said, status>>
Cleared == pc = "clear" /\ Begin = End /\ pc' = "ended" /\ UNCHANGED <<list, line, itor, said, status>>

Walk ==
  \/ PrintPair \/ Printed
  \/ Seek \/ FindPrints \/ FindErases \/ FindReplaces \/ NotFound \/ FindAdds
  \/ InsertSeeks \/ Inserts
  \/ Clear \/ Cleared

Next == OpenFile \/ MissingFile \/ EndOfFile \/ NoMoreFiles \/ (\E l \in Lines : ReadLine(l)) \/ Walk

Spec == Init /\ [][Next]_vars

\* The program runs; nobody needs to write a line.
FairSpec == Spec /\ WF_vars(Walk)

------------------------------------------------------------------------------
(* What makes keyvalue correct. *)

\* The list is one ring of all nodes, in ascending order, the same both ways; also
\* between the erasure of a pair and the insertion of the one that replaces it.
SortedRing == Ascending /\ OneEach /\ BothWays

\* find and insert never pass what they look for: what is behind the iterator is not
\* the key, and is less than the key.
NotPassed ==
  pc \in {"find", "insert"} =>
    \A n \in InUse : (itor = End \/ Key(n) < Key(itor)) =>
      IF pc = "find" THEN Key(n) # line.key ELSE Key(n) < line.key

\* The pairs of the list, and the one that is about to be inserted.
MapOf ==
  LET stored  == {pair[n] : n \in InUse}
      pending == IF pc = "insert" THEN {<<line.key, line.value>>} ELSE {}
      keys    == {p[1] : p \in stored \union pending}
  IN [k \in keys |-> (CHOOSE p \in stored \union pending : p[1] = k)[2]]

Sorted == INSTANCE SortedMap WITH
  map  <- MapOf,
  said <- IF line = NoLine THEN said ELSE <<>>,
  open <- pc \notin {"clear", "ended"}

\* keyvalue is a SortedMap: every line is answered from a sorted map, and all is
\* forgotten in the end.
ImplementsSortedMap == Sorted!Spec
==============================================================================
