--------------------------- MODULE KeyValue_proofs ---------------------------
(***************************************************************************)
(* Proofs about KeyValue, for any keys, values and nodes: its types, that its *)
(* list stays one ring in ascending order, that its loops do not pass what    *)
(* they look for, and that every line is answered and changes the map as      *)
(* SortedMap has it.                                                        *)
(***************************************************************************)
EXTENDS KeyValue, FiniteSetTheorems, FunctionTheorems, SequenceTheorems, TLAPS

\* What insert inserts is not in the list.
Absent == pc = "insert" => \A n \in InUse : Key(n) # line.key

\* Where nothing walks, there is no iterator.
AtRest == pc \notin Walking => itor = End

\* All of it is inductive.
IInv == TypeOK /\ SortedRing /\ NotPassed /\ Absent /\ AtRest

------------------------------------------------------------------------------
(* The list. *)

USE DEF End

\* Keys can be compared.
LEMMA KeyType == ASSUME ListTypeOK, NEW n \in InUse PROVE Key(n) \in Int /\ n # Anchor /\ n \in Links
  BY KeysAssumption, NodesAssumption DEF ListTypeOK, Key, Links

\* insert keeps the ring, if no key is the new one, all before its place are less and
\* what is at its place is greater.
LEMMA InsertKeepsRing ==
  ASSUME ListTypeOK, SortedRing,
         NEW curr \in Links, NEW temp \in Nodes \ InUse, NEW k \in Keys, NEW v \in Values,
         InsertBefore(curr, temp, <<k, v>>),
         \A n \in InUse : Key(n) # k,
         \A n \in InUse : (curr = End \/ Key(n) < Key(curr)) => Key(n) < k,
         curr # End => ~(Key(curr) < k)
  PROVE  ListTypeOK' /\ SortedRing' /\ Links' = Links \union {temp}
  <1> DEFINE last == prev[curr]
  <1>1. /\ InUse' = InUse \union {temp}
        /\ Links' = Links \union {temp}
        /\ temp \notin Links
        /\ k \in Int
        /\ \A n \in InUse : Key(n) \in Int /\ n # Anchor /\ n \in Links
    BY KeyType, KeysAssumption, NodesAssumption DEF InsertBefore, Links, InUse, ListTypeOK
  <1>2. /\ Key(temp)' = k
        /\ \A n \in InUse : Key(n)' = Key(n) /\ n # temp
    BY <1>1 DEF InsertBefore, Key
  <1>3. /\ last \in Links
        /\ next[last] = curr
        /\ \A x \in Links : next[x] \in Links /\ prev[x] \in Links /\ (next[x] = curr => x = last)
        /\ \A x \in Links : prev[next[x]] = x /\ next[prev[x]] = x
    BY DEF ListTypeOK, SortedRing, BothWays
  <1>4. /\ next'[temp] = curr /\ next'[last] = temp
        /\ prev'[temp] = last /\ prev'[curr] = temp
        /\ \A x \in Links : x # last => next'[x] = next[x]
        /\ \A x \in Links : x # curr => prev'[x] = prev[x]
    BY <1>1, <1>3 DEF InsertBefore
  <1>5. ListTypeOK'
    <2>1. next' \in [Links' -> Links'] /\ prev' \in [Links' -> Links']
      BY <1>1, <1>3 DEF InsertBefore
    <2>2. InUse' \subseteq Nodes
      BY <1>1 DEF ListTypeOK
    <2>3. pair' \in [InUse' -> Keys \X Values]
      BY <1>1 DEF ListTypeOK, InsertBefore
    <2> QED BY <2>1, <2>2, <2>3 DEF ListTypeOK
  <1>6. OneEach'
    BY <1>1, <1>2 DEF SortedRing, OneEach
  <1>7. BothWays'
    <2> SUFFICES ASSUME NEW x \in Links \union {temp}
                 PROVE  prev'[next'[x]] = x /\ next'[prev'[x]] = x
      BY <1>1 DEF BothWays
    <2>1. CASE x = temp BY <2>1, <1>4
    <2>2. CASE x # temp /\ x = last BY <2>2, <1>1, <1>3, <1>4
    <2>3. CASE x # temp /\ x # last
      BY <2>3, <1>1, <1>3, <1>4
    <2> QED BY <2>1, <2>2, <2>3
  <1>8. ASSUME NEW x \in Links
        PROVE  /\ x # Anchor => x \in InUse
               /\ next[x] = Anchor => \A n \in InUse : ~Beyond(x, n)
               /\ next[x] # Anchor => /\ next[x] \in InUse /\ Beyond(x, next[x])
                                      /\ \A n \in InUse : Beyond(x, n) => Key(next[x]) <= Key(n)
    BY <1>3 DEF SortedRing, Ascending, Links
  <1> DEFINE key(n) == IF n = temp THEN k ELSE Key(n)
             beyond(x, n) == x = Anchor \/ key(x) < key(n)
  <1>9. ASSUME NEW x \in Links \union {temp}
        PROVE  IF next'[x] = Anchor THEN \A n \in InUse \union {temp} : ~beyond(x, n)
               ELSE /\ beyond(x, next'[x])
                    /\ \A n \in InUse \union {temp} : beyond(x, n) => key(next'[x]) <= key(n)
    <2>1. CASE x = temp
      BY <2>1, <1>1, <1>4 DEF Links
    <2>2. CASE x # temp /\ x = last
      <3>1. x = Anchor \/ (x \in InUse /\ Key(x) < k)
        BY <2>2, <1>1, <1>3, <1>8 DEF Links, Beyond
      <3>2. \A n \in InUse : Beyond(x, n) => k <= Key(n)
        BY <2>2, <1>1, <1>3, <1>8 DEF Links, Beyond
      <3>3. next'[x] = temp /\ temp # Anchor
        BY <2>2, <1>1, <1>4 DEF Links
      <3>4. beyond(x, temp) /\ \A n \in InUse \union {temp} : beyond(x, n) => k <= key(n)
        BY <2>2, <3>1, <3>2, <1>1, <1>2 DEF Beyond
      <3> QED BY <3>3, <3>4
    <2>3. CASE x # temp /\ x # last
      <3>1. next[x] # curr /\ next'[x] = next[x] /\ x \in Links
        BY <2>3, <1>3, <1>4
      <3>2. CASE x = Anchor \/ Key(x) < k
        <4>1. next[x] \in InUse /\ Beyond(x, next[x])
          BY <3>1, <3>2, <1>1, <1>8 DEF Links, Beyond
        <4>2. Key(next[x]) < k
          BY <4>1, <3>1, <3>2, <1>1, <1>8 DEF Links, Beyond, SortedRing, OneEach
        <4> QED BY <4>1, <4>2, <3>1, <3>2, <1>1, <1>2, <1>8 DEF Beyond
      <3>3. CASE ~(x = Anchor \/ Key(x) < k)
        BY <3>1, <3>3, <1>1, <1>2, <1>8 DEF Beyond
      <3> QED BY <3>2, <3>3
    <2> QED BY <2>1, <2>2, <2>3
  <1>10. Ascending'
    <2> SUFFICES ASSUME NEW x \in Links \union {temp}
                 PROVE  IF next'[x] = Anchor THEN \A n \in InUse' : ~Beyond(x, n)'
                        ELSE /\ Beyond(x, next[x])'
                             /\ \A n \in InUse' : Beyond(x, n)' => Key(next[x])' <= Key(n)'
      BY <1>1 DEF Ascending
    <2>1. next'[x] = Anchor \/ next'[x] \in InUse \union {temp}
      BY <1>1, <1>5 DEF ListTypeOK, Links
    <2>2. \A n \in InUse \union {temp} : pair'[n][1] = key(n)
      BY <1>2 DEF Key
    <2>3. x = Anchor \/ x \in InUse \union {temp}
      BY DEF Links
    <2> QED BY <1>1, <1>9, <2>1, <2>2, <2>3 DEF Beyond, Key
  <1> QED BY <1>1, <1>5, <1>6, <1>7, <1>10 DEF SortedRing

\* erase keeps the ring of the other nodes.
LEMMA EraseKeepsRing ==
  ASSUME ListTypeOK, SortedRing, NEW position \in InUse, Erase(position)
  PROVE  /\ ListTypeOK' /\ SortedRing'
         /\ InUse' = InUse \ {position}
         /\ \A n \in InUse' : Key(n)' = Key(n)
  <1> DEFINE before == prev[position]
             after  == next[position]
  <1>1. /\ InUse' = InUse \ {position}
        /\ Links' = Links \ {position}
        /\ position # Anchor /\ position \in Links
        /\ \A n \in InUse : Key(n) \in Int /\ n # Anchor /\ n \in Links
    BY KeyType DEF Erase, Links, InUse
  <1>2. \A n \in InUse' : Key(n)' = Key(n) /\ n \in InUse
    BY <1>1 DEF Erase, Key
  <1>3. /\ \A x \in Links : next[x] \in Links /\ prev[x] \in Links
        /\ \A x \in Links : prev[next[x]] = x /\ next[prev[x]] = x
    BY DEF ListTypeOK, SortedRing, BothWays
  <1>4. ASSUME NEW x \in Links
        PROVE  /\ x # Anchor => x \in InUse
               /\ next[x] = Anchor => \A n \in InUse : ~Beyond(x, n)
               /\ next[x] # Anchor => /\ next[x] \in InUse /\ Beyond(x, next[x])
                                      /\ \A n \in InUse : Beyond(x, n) => Key(next[x]) <= Key(n)
    BY <1>3 DEF SortedRing, Ascending, Links
  <1>5. before \in Links \ {position} /\ after \in Links \ {position}
    BY <1>1, <1>3, <1>4 DEF Beyond
  <1>6. /\ next'[before] = after /\ prev'[after] = before
        /\ \A x \in Links \ {position} : x # before => next'[x] = next[x] /\ next[x] # position
        /\ \A x \in Links \ {position} : x # after => prev'[x] = prev[x] /\ prev[x] # position
    BY <1>3, <1>5 DEF Erase
  <1>7. ListTypeOK'
    <2>1. next' \in [Links' -> Links'] /\ prev' \in [Links' -> Links']
      <3>1. \A x \in Links' : next'[x] \in Links' /\ prev'[x] \in Links'
        BY <1>1, <1>3, <1>5, <1>6
      <3> QED BY <3>1, <1>1 DEF Erase
    <2>2. pair' \in [InUse' -> Keys \X Values]
      BY <1>1 DEF ListTypeOK, Erase, Links
    <2> QED BY <2>1, <2>2, <1>1 DEF ListTypeOK
  <1>8. OneEach'
    BY <1>2 DEF SortedRing, OneEach
  <1>9. BothWays'
    BY <1>1, <1>3, <1>5, <1>6 DEF BothWays
  <1>10. ASSUME NEW x \in Links \ {position}
         PROVE  IF next'[x] = Anchor THEN \A n \in InUse' : ~Beyond(x, n)
                ELSE /\ next'[x] \in InUse' /\ Beyond(x, next'[x])
                     /\ \A n \in InUse' : Beyond(x, n) => Key(next'[x]) <= Key(n)
    <2>1. CASE x # before
      BY <2>1, <1>1, <1>4, <1>6
    <2>2. CASE x = before
      <3>1. next'[x] = after /\ Beyond(x, position) /\ x # position
        BY <2>2, <1>1, <1>3, <1>4, <1>6
      <3>2. \A n \in InUse' : Beyond(x, n) => Beyond(position, n)
        BY <2>2, <1>1, <1>3, <1>4 DEF Beyond, SortedRing, OneEach
      <3>3. CASE after = Anchor
        BY <3>1, <3>2, <3>3, <1>1, <1>4
      <3>4. CASE after # Anchor
        BY <3>1, <3>2, <3>4, <1>1, <1>4, <1>5 DEF Beyond
      <3> QED BY <3>3, <3>4
    <2> QED BY <2>1, <2>2
  <1>11. Ascending'
    <2> SUFFICES ASSUME NEW x \in Links \ {position}
                 PROVE  IF next'[x] = Anchor THEN \A n \in InUse' : ~Beyond(x, n)'
                        ELSE /\ Beyond(x, next[x])'
                             /\ \A n \in InUse' : Beyond(x, n)' => Key(next[x])' <= Key(n)'
      BY <1>1 DEF Ascending
    <2>1. \A n \in InUse' : pair'[n][1] = Key(n)
      BY <1>2 DEF Key
    <2>2. x = Anchor \/ x \in InUse'
      BY <1>1 DEF Links
    <2> QED BY <1>10, <2>1, <2>2 DEF Beyond, Key
  <1> QED BY <1>1, <1>2, <1>7, <1>8, <1>9, <1>11 DEF SortedRing

\* What is before the next node is the node and what is before it.
LEMMA NextIsNext ==
  ASSUME ListTypeOK, SortedRing, NEW x \in InUse, NEW n \in InUse,
         next[x] = End \/ Key(n) < Key(next[x])
  PROVE  n = x \/ Key(n) < Key(x)
  <1>1. Key(n) \in Int /\ Key(x) \in Int /\ x \in Links
    BY KeyType
  <1>2. ~Beyond(x, n)
    <2>1. CASE next[x] = End
      BY <2>1, <1>1 DEF SortedRing, Ascending
    <2>2. CASE next[x] # End
      <3>1. next[x] \in InUse
        BY <2>2, <1>1 DEF ListTypeOK, Links
      <3> QED BY <2>2, <3>1, <1>1, KeyType DEF SortedRing, Ascending
    <2> QED BY <2>1, <2>2
  <1> QED BY <1>1, <1>2 DEF Beyond, SortedRing, OneEach

\* Before the first node there is none.
LEMMA FirstIsFirst ==
  ASSUME ListTypeOK, SortedRing, NEW n \in InUse
  PROVE  Begin # End /\ ~(Key(n) < Key(Begin))
  <1>1. Anchor \in Links /\ Key(n) \in Int
    BY KeyType DEF Links
  <1>2. Begin # End
    BY <1>1 DEF SortedRing, Ascending, Begin, Beyond
  <1>3. Begin \in InUse
    BY <1>1, <1>2 DEF ListTypeOK, Links, Begin
  <1> QED BY <1>1, <1>2, <1>3, KeyType DEF SortedRing, Ascending, Begin, Beyond

------------------------------------------------------------------------------
(* The program. *)

\* Where the list stays as it is, so does what is known of it.
LEMMA ListStays ==
  ASSUME ListTypeOK, SortedRing, UNCHANGED list
  PROVE  /\ ListTypeOK' /\ SortedRing' /\ InUse' = InUse /\ Links' = Links
         /\ \A n : Key(n)' = Key(n)
  BY DEF ListTypeOK, SortedRing, Ascending, OneEach, BothWays, Beyond, Key, InUse, Links, list

\* The program begins with an empty list, which is a ring.
LEMMA Initially == Init => IInv
  BY DEF Init, ListInit, IInv, TypeOK, ListTypeOK, SortedRing, Ascending, OneEach, BothWays,
         NotPassed, Absent, AtRest, InUse, Links, Key, Beyond, Walking

\* Loops that begin do so where nothing is passed.
LEMMA Begins ==
  ListTypeOK /\ SortedRing => Begin \in Links /\ \A n \in InUse : ~(Begin = End \/ Key(n) < Key(Begin))
  BY FirstIsFirst DEF ListTypeOK, Begin, Links

\* The same of the list after a step.
LEMMA BeginsThen ==
  (ListTypeOK /\ SortedRing => Begin \in Links /\ \A n \in InUse : ~(Begin = End \/ Key(n) < Key(Begin)))'
  BY Begins, PTL

\* Every iteration keeps all of it.
LEMMA Stepwise == IInv /\ [Next]_vars => IInv'
  <1> SUFFICES ASSUME IInv, [Next]_vars PROVE IInv'
    OBVIOUS
  <1> USE DEF IInv
  <1>1. CASE UNCHANGED vars
    <2>1. ListTypeOK' /\ SortedRing' /\ InUse' = InUse /\ Links' = Links /\ \A n : Key(n)' = Key(n)
      BY <1>1, ListStays DEF vars, TypeOK
    <2> QED BY <1>1, <2>1 DEF vars, TypeOK, NotPassed, Absent, AtRest, Walking
  <1>2. CASE OpenFile \/ MissingFile \/ EndOfFile \/ NoMoreFiles \/ Cleared
    <2>1. ListTypeOK' /\ SortedRing' /\ InUse' = InUse /\ Links' = Links /\ \A n : Key(n)' = Key(n)
      BY <1>2, ListStays DEF OpenFile, MissingFile, EndOfFile, NoMoreFiles, Cleared, TypeOK
    <2> QED BY <1>2, <2>1 DEF OpenFile, MissingFile, EndOfFile, NoMoreFiles, Cleared,
                             TypeOK, NotPassed, Absent, AtRest, Walking
  <1>3. ASSUME NEW l \in Lines, ReadLine(l) PROVE IInv'
    <2>1. ListTypeOK' /\ SortedRing' /\ InUse' = InUse /\ Links' = Links /\ \A n : Key(n)' = Key(n)
      BY <1>3, ListStays DEF ReadLine, TypeOK
    <2>2. itor' \in Links' /\ \A n \in InUse' : ~(itor' = End \/ Key(n)' < Key(itor)')
      BY <1>3, <2>1, BeginsThen DEF ReadLine, Begin, Key, list
    <2>3. TypeOK'
      <3>1. l # NoLine
        BY NoLineAssumption
      <3>2. pc' = IF l.op \in {"print", "values"} THEN "print" ELSE "find"
        BY <1>3 DEF ReadLine
      <3>3. l.op \in {"set", "erase", "find", "values", "print"}
        BY DEF Lines
      <3>4. said' \in Seq(Keys \X Values)
        BY <1>3 DEF ReadLine
      <3> QED BY <1>3, <2>1, <2>2, <3>1, <3>2, <3>3, <3>4 DEF ReadLine, TypeOK, Walking
    <2> QED BY <1>3, <2>1, <2>2, <2>3 DEF ReadLine, NotPassed, Absent, AtRest, Walking
  <1>4. CASE PrintPair \/ Seek \/ InsertSeeks
    <2>1. ListTypeOK' /\ SortedRing' /\ InUse' = InUse /\ Links' = Links /\ \A n : Key(n)' = Key(n)
      BY <1>4, ListStays DEF PrintPair, Seek, InsertSeeks, Advance, TypeOK
    <2>2. itor \in InUse /\ itor' = next[itor] /\ itor' \in Links'
      BY <1>4, <2>1 DEF PrintPair, Seek, InsertSeeks, Advance, TypeOK, ListTypeOK, Links
    <2>3. said' \in Seq(Keys \X Values)
      <3>1. pair[itor] \in Keys \X Values /\ said \in Seq(Keys \X Values)
        BY <2>2 DEF TypeOK, ListTypeOK
      <3>2. said' = said \/ said' = Append(said, pair[itor])
        BY <1>4 DEF PrintPair, Seek, InsertSeeks
      <3> QED BY <3>1, <3>2
    <2>4. TypeOK'
      BY <1>4, <2>1, <2>2, <2>3 DEF PrintPair, Seek, InsertSeeks, Advance, TypeOK
    <2>5. ASSUME NEW n \in InUse, itor' = End \/ Key(n) < Key(itor')
          PROVE  n = itor \/ Key(n) < Key(itor)
      BY <2>2, <2>5, NextIsNext DEF TypeOK
    <2>6. NotPassed'
      <3> SUFFICES ASSUME pc' \in {"find", "insert"}, NEW n \in InUse, itor' = End \/ Key(n) < Key(itor')
                   PROVE  IF pc' = "find" THEN Key(n) # line'.key ELSE Key(n) < line'.key
        BY <2>1 DEF NotPassed, Key
      <3> QED BY <1>4, <2>2, <2>5 DEF Seek, InsertSeeks, PrintPair, Advance, NotPassed
    <2>7. Absent' /\ AtRest'
      BY <1>4, <2>1 DEF PrintPair, Seek, InsertSeeks, Advance, Absent, AtRest, Walking
    <2> QED BY <2>1, <2>4, <2>6, <2>7
  <1>5. CASE Printed \/ FindPrints \/ NotFound
    <2>1. ListTypeOK' /\ SortedRing' /\ InUse' = InUse /\ Links' = Links /\ \A n : Key(n)' = Key(n)
      BY <1>5, ListStays DEF Printed, FindPrints, NotFound, TypeOK
    <2>2. said' \in Seq(Keys \X Values)
      <3>1. CASE Printed \/ NotFound
        BY <3>1 DEF Printed, NotFound, TypeOK
      <3>2. CASE FindPrints
        BY <3>2 DEF FindPrints, TypeOK, ListTypeOK, Links
      <3> QED BY <1>5, <3>1, <3>2
    <2>3. pc' = "lines" /\ line' = NoLine /\ itor' = End /\ status' = status
      BY <1>5 DEF Printed, FindPrints, NotFound, Done
    <2> QED BY <2>1, <2>2, <2>3 DEF TypeOK, NotPassed, Absent, AtRest, Walking, Links
  <1>6. CASE FindErases
    <2>1. itor \in InUse /\ Erase(itor)
      BY <1>6 DEF FindErases, TypeOK, Links
    <2>2. ListTypeOK' /\ SortedRing'
      BY <2>1, EraseKeepsRing DEF TypeOK
    <2> QED BY <1>6, <2>2 DEF FindErases, Done, TypeOK, NotPassed, Absent, AtRest, Walking, Links
  <1>7. CASE FindReplaces \/ FindAdds
    <2>1. pc' = "insert" /\ itor' = next'[Anchor] /\ line' = line /\ said' = said /\ status' = status
          /\ pc = "find" /\ line.op = "set"
      BY <1>7 DEF FindReplaces, FindAdds, Insertion
    <2>2. /\ ListTypeOK' /\ SortedRing'
          /\ \A n \in InUse' : Key(n)' # line.key
      <3>1. CASE FindAdds
        <4>1. ListTypeOK' /\ SortedRing' /\ InUse' = InUse /\ \A n : Key(n)' = Key(n)
          BY <3>1, ListStays DEF FindAdds, TypeOK
        <4> QED BY <3>1, <4>1 DEF FindAdds, NotPassed
      <3>2. CASE FindReplaces
        <4>1. itor \in InUse /\ Erase(itor) /\ Key(itor) = line.key
          BY <3>2 DEF FindReplaces, TypeOK, Links
        <4>2. /\ ListTypeOK' /\ SortedRing' /\ InUse' = InUse \ {itor}
              /\ \A n \in InUse' : Key(n)' = Key(n)
          BY <4>1, EraseKeepsRing DEF TypeOK
        <4> QED BY <4>1, <4>2 DEF SortedRing, OneEach
      <3> QED BY <1>7, <3>1, <3>2
    <2>3. itor' \in Links' /\ \A n \in InUse' : ~(itor' = End \/ Key(n)' < Key(itor)')
      BY <2>1, <2>2, BeginsThen DEF Begin, Key
    <2>4. TypeOK'
      BY <2>1, <2>2, <2>3 DEF TypeOK, Walking
    <2> QED BY <2>1, <2>2, <2>3, <2>4 DEF NotPassed, Absent, AtRest, Walking
  <1>8. CASE Inserts
    <2>1. PICK temp \in Nodes \ InUse : InsertBefore(itor, temp, <<line.key, line.value>>)
      BY <1>8 DEF Inserts
    <2>2. line.key \in Keys /\ line.value \in Values
      BY <1>8 DEF Inserts, TypeOK, Lines, Walking
    <2>3. ListTypeOK' /\ SortedRing'
      <3>1. \A n \in InUse : Key(n) # line.key
        BY <1>8 DEF Inserts, Absent
      <3>2. \A n \in InUse : (itor = End \/ Key(n) < Key(itor)) => Key(n) < line.key
        BY <1>8 DEF Inserts, NotPassed
      <3>3. itor # End => ~(Key(itor) < line.key)
        BY <1>8 DEF Inserts
      <3> QED BY <2>1, <2>2, <3>1, <3>2, <3>3, InsertKeepsRing DEF TypeOK
    <2>4. said' \in Seq(Keys \X Values)
      BY <1>8, <2>2 DEF Inserts
    <2> QED BY <1>8, <2>3, <2>4 DEF Inserts, Done, TypeOK, NotPassed, Absent, AtRest, Walking, Links
  <1>9. CASE Clear
    <2>1. Begin \in InUse /\ Erase(Begin)
      BY <1>9 DEF Clear, TypeOK, ListTypeOK, Links, Begin
    <2>2. ListTypeOK' /\ SortedRing'
      BY <2>1, EraseKeepsRing DEF TypeOK
    <2>3. itor' \in Links'
      <3>1. itor = End BY <1>9 DEF Clear, AtRest, Walking
      <3> QED BY <1>9, <3>1 DEF Clear, Links
    <2> QED BY <1>9, <2>2, <2>3 DEF Clear, TypeOK, NotPassed, Absent, AtRest, Walking
  <1> QED BY <1>1, <1>2, <1>3, <1>4, <1>5, <1>6, <1>7, <1>8, <1>9 DEF Next, Walk

\* Whatever is read, the nodes, lines and pairs are what they should be.
THEOREM TypeCorrect == Spec => []TypeOK
  <1>1. IInv => TypeOK
    BY DEF IInv
  <1> QED BY Initially, Stepwise, <1>1, PTL DEF Spec

\* Whatever is read, the list is one ring of all nodes in ascending order of their keys,
\* each once, and the way back is the way forwards.
THEOREM RingRemains == Spec => []SortedRing
  <1>1. IInv => SortedRing
    BY DEF IInv
  <1> QED BY Initially, Stepwise, <1>1, PTL DEF Spec

\* find and insert do not pass what they look for.
THEOREM NothingIsPassed == Spec => []NotPassed
  <1>1. IInv => NotPassed
    BY DEF IInv
  <1> QED BY Initially, Stepwise, <1>1, PTL DEF Spec

------------------------------------------------------------------------------
(* The map. *)

LEMMA Invariance == Spec => []IInv
  BY Initially, Stepwise, PTL DEF Spec

\* A function is what it is of each key.
LEMMA SameMap ==
  ASSUME NEW f, NEW g, NEW D, f = [k \in D |-> f[k]], g = [k \in D |-> g[k]],
         \A k \in D : f[k] = g[k]
  PROVE  f = g
  OBVIOUS

Pending == IF pc = "insert" THEN {line.key} ELSE {}

\* MapOf has one value for each key.
LEMMA MapIs ==
  ASSUME TypeOK, SortedRing, Absent
  PROVE  /\ MapOf = [k \in {Key(n) : n \in InUse} \union Pending |-> MapOf[k]]
         /\ \A n \in InUse : MapOf[Key(n)] = pair[n][2]
         /\ pc = "insert" => MapOf[line.key] = line.value
  <1> DEFINE stored  == {pair[n] : n \in InUse}
             pending == IF pc = "insert" THEN {<<line.key, line.value>>} ELSE {}
             keys    == {p[1] : p \in stored \union pending}
  <1>1. MapOf = [k \in keys |-> (CHOOSE p \in stored \union pending : p[1] = k)[2]]
    BY DEF MapOf
  <1>2. keys = {Key(n) : n \in InUse} \union Pending
    <2>1. \A k : k \in keys => k \in {Key(n) : n \in InUse} \union Pending
      BY DEF Key, Pending
    <2>2. \A n \in InUse : Key(n) \in keys
      BY DEF Key
    <2>3. pc = "insert" => line.key \in keys
      <3>1. <<line.key, line.value>>[1] = line.key
        OBVIOUS
      <3> QED BY <3>1
    <2> QED BY <2>1, <2>2, <2>3 DEF Pending
  <1>3. ASSUME NEW n \in InUse, NEW p \in stored \union pending, p[1] = Key(n)
        PROVE  p = pair[n]
    <2>1. CASE p \in stored
      <3>1. PICK m \in InUse : p = pair[m]
        BY <2>1
      <3> QED BY <1>3, <3>1 DEF SortedRing, OneEach, Key
    <2>2. CASE p \in pending
      BY <1>3, <2>2 DEF Absent
    <2> QED BY <2>1, <2>2
  <1>4. ASSUME NEW p \in stored \union pending, pc = "insert", p[1] = line.key
        PROVE  p = <<line.key, line.value>>
    BY <1>4 DEF Absent, Key
  <1>5. \A n \in InUse : Key(n) \in keys /\ pair[n] \in stored /\ pair[n][1] = Key(n)
    BY DEF Key
  <1>6. pc = "insert" => line.key \in keys /\ <<line.key, line.value>> \in pending
    BY <1>2 DEF Pending
  <1> HIDE DEF stored, pending, keys
  <1>7. ASSUME NEW n \in InUse PROVE MapOf[Key(n)] = pair[n][2]
    <2>1. (CHOOSE p \in stored \union pending : p[1] = Key(n)) = pair[n]
      BY <1>3, <1>5
    <2> QED BY <1>1, <1>5, <2>1
  <1>8. ASSUME pc = "insert" PROVE MapOf[line.key] = line.value
    <2>1. (CHOOSE p \in stored \union pending : p[1] = line.key) = <<line.key, line.value>>
      BY <1>4, <1>6, <1>8
    <2> QED BY <1>1, <1>6, <1>8, <2>1
  <1>9. MapOf = [k \in keys |-> MapOf[k]]
    BY <1>1
  <1> QED BY <1>2, <1>7, <1>8, <1>9

\* The same of the list after a step.
LEMMA MapIsThen ==
  (TypeOK /\ SortedRing /\ Absent
   => /\ MapOf = [k \in {Key(n) : n \in InUse} \union Pending |-> MapOf[k]]
      /\ \A n \in InUse : MapOf[Key(n)] = pair[n][2]
      /\ pc = "insert" => MapOf[line.key] = line.value)'
<1>1. TypeOK /\ SortedRing /\ Absent
      => /\ MapOf = [k \in {Key(n) : n \in InUse} \union Pending |-> MapOf[k]]
         /\ \A n \in InUse : MapOf[Key(n)] = pair[n][2]
         /\ pc = "insert" => MapOf[line.key] = line.value
  BY MapIs
<1> QED BY <1>1, PTL

\* What a line, and the end of main, may do to the map.
Changed ==
  \/ MapOf' = MapOf
  \/ line # NoLine /\ MapOf' = Sorted!After(MapOf, line)
  \/ pc = "clear" /\ \E k \in DOMAIN MapOf : MapOf' = Sorted!Restrict(MapOf, DOMAIN MapOf \ {k})

Answered == line # NoLine /\ line' = NoLine => MapOf' = Sorted!After(MapOf, line)

\* What the lemmas above say of a state and of the next.
LEMMA Maps ==
  ASSUME IInv, IInv'
  PROVE  /\ MapOf = [k \in {Key(n) : n \in InUse} \union Pending |-> MapOf[k]]
         /\ \A n \in InUse : MapOf[Key(n)] = pair[n][2]
         /\ pc = "insert" => MapOf[line.key] = line.value
         /\ MapOf' = [k \in {Key(n)' : n \in InUse'} \union Pending' |-> MapOf'[k]]
         /\ \A n \in InUse' : MapOf'[Key(n)'] = pair'[n][2]
         /\ pc' = "insert" => MapOf'[line'.key] = line'.value
  <1>1. IInv => TypeOK /\ SortedRing /\ Absent
    BY DEF IInv
  <1>2. (TypeOK /\ SortedRing /\ Absent)'
    BY DEF IInv
  <1> QED BY <1>1, <1>2, MapIs, MapIsThen

\* What only walks the list leaves the map as it is.
LEMMA MapStays ==
  ASSUME UNCHANGED list, pc = "insert" <=> pc' = "insert", pc = "insert" => line' = line
  PROVE  MapOf' = MapOf
  <1> DEFINE Of(S) == [k \in {p[1] : p \in S} |-> (CHOOSE p \in S : p[1] = k)[2]]
             now  == {pair[n] : n \in InUse}
                     \union (IF pc = "insert" THEN {<<line.key, line.value>>} ELSE {})
             then == {pair'[n] : n \in InUse'}
                     \union (IF pc' = "insert" THEN {<<line'.key, line'.value>>} ELSE {})
  <1>1. MapOf = Of(now) /\ MapOf' = Of(then)
    BY DEF MapOf
  <1>2. then = now
    BY DEF InUse, list
  <1> HIDE DEF Of, now, then
  <1> QED BY <1>1, <1>2

\* The node of an erased pair takes its key with it, and only that.
LEMMA ErasedPair ==
  ASSUME IInv, IInv', pc # "insert", pc' # "insert", NEW position \in InUse, Erase(position)
  PROVE  /\ Key(position) \in DOMAIN MapOf
         /\ MapOf' = Sorted!Restrict(MapOf, DOMAIN MapOf \ {Key(position)})
  <1>1. /\ InUse' = InUse \ {position}
        /\ \A n \in InUse' : Key(n)' = Key(n) /\ pair'[n] = pair[n]
    BY EraseKeepsRing, KeyType DEF IInv, TypeOK, Erase, Links
  <1>2. DOMAIN MapOf = {Key(n) : n \in InUse}
    BY Maps DEF Pending
  <1>3. {Key(n)' : n \in InUse'} = {Key(n) : n \in InUse} \ {Key(position)}
    BY <1>1 DEF IInv, SortedRing, OneEach
  <1>4. MapOf' = [k \in {Key(n) : n \in InUse} \ {Key(position)} |-> MapOf'[k]]
    BY <1>3, Maps DEF Pending
  <1>5. \A k \in {Key(n) : n \in InUse} \ {Key(position)} : MapOf'[k] = MapOf[k]
    <2> SUFFICES ASSUME NEW n \in InUse, Key(n) # Key(position) PROVE MapOf'[Key(n)] = MapOf[Key(n)]
      OBVIOUS
    <2>1. n \in InUse' /\ Key(n)' = Key(n) /\ pair'[n] = pair[n]
      BY <1>1
    <2> QED BY <2>1, Maps
  <1> QED BY <1>2, <1>4, <1>5 DEF Sorted!Restrict

\* A key is set before the pair is in the list, whether or not there was one.
LEMMA SetKey ==
  ASSUME IInv, IInv', FindReplaces \/ FindAdds
  PROVE  MapOf' = Sorted!After(MapOf, line)
  <1>1. /\ pc = "find" /\ pc' = "insert" /\ line' = line
        /\ line.op = "set" /\ line.key \in Keys /\ line.value \in Values
    BY DEF FindReplaces, FindAdds, Insertion, IInv, TypeOK, Lines, Walking
  <1>2. /\ InUse' \subseteq InUse
        /\ \A n \in InUse' : Key(n)' = Key(n) /\ pair'[n] = pair[n]
        /\ \A n \in InUse : Key(n) # line.key => n \in InUse'
    <2>1. CASE FindReplaces
      <3>1. itor \in InUse /\ Erase(itor) /\ Key(itor) = line.key
        BY <2>1 DEF FindReplaces, IInv, TypeOK, Links
      <3> QED BY <3>1, EraseKeepsRing, KeyType DEF IInv, TypeOK, Erase, Links
    <2>2. CASE FindAdds
      BY <2>2 DEF FindAdds, list, InUse, Key
    <2> QED BY <2>1, <2>2
  <1> DEFINE D == {Key(n) : n \in InUse}
  <1>3. DOMAIN MapOf = D
    BY <1>1, Maps DEF Pending
  <1>4. {Key(n)' : n \in InUse'} \union {line.key} = D \union {line.key}
    BY <1>2
  <1>5. MapOf' = [k \in D \union {line.key} |-> MapOf'[k]]
    BY <1>1, <1>4, Maps DEF Pending
  <1>6. ASSUME NEW k \in D \union {line.key}
        PROVE  MapOf'[k] = IF k = line.key THEN line.value ELSE MapOf[k]
    <2>1. CASE k = line.key
      BY <1>1, <2>1, Maps
    <2>2. CASE k # line.key
      <3>1. PICK n \in InUse : k = Key(n)
        BY <2>2
      <3>2. n \in InUse' /\ Key(n)' = Key(n) /\ pair'[n] = pair[n]
        BY <1>2, <2>2, <3>1
      <3> QED BY <2>2, <3>1, <3>2, Maps
    <2> QED BY <2>1, <2>2
  <1>7. Sorted!After(MapOf, line) =
          [k \in D \union {line.key} |-> IF k = line.key THEN line.value ELSE MapOf[k]]
    BY <1>1, <1>3 DEF Sorted!After
  <1> QED BY <1>5, <1>6, <1>7

\* Its insertion changes nothing more.
LEMMA InsertKey ==
  ASSUME IInv, IInv', Inserts
  PROVE  MapOf' = MapOf /\ MapOf = Sorted!After(MapOf, line)
  <1>1. PICK temp \in Nodes \ InUse : InsertBefore(itor, temp, <<line.key, line.value>>)
    BY DEF Inserts
  <1>2. pc = "insert" /\ pc' # "insert" /\ line.op = "set"
    BY DEF Inserts, Done, IInv, TypeOK
  <1>3. /\ InUse' = InUse \union {temp}
        /\ pair'[temp] = <<line.key, line.value>> /\ Key(temp)' = line.key
        /\ \A n \in InUse : Key(n)' = Key(n) /\ pair'[n] = pair[n]
    BY <1>1 DEF InsertBefore, InUse, Key
  <1> DEFINE D == {Key(n) : n \in InUse} \union {line.key}
  <1>4. {Key(n)' : n \in InUse'} = D
    BY <1>3
  <1>5. MapOf' = [k \in D |-> MapOf'[k]] /\ MapOf = [k \in D |-> MapOf[k]]
    BY <1>2, <1>4, Maps DEF Pending
  <1>6. MapOf[line.key] = line.value
    BY <1>2, Maps
  <1>7. ASSUME NEW k \in D PROVE MapOf'[k] = MapOf[k]
    <2>1. CASE k = line.key
      <3>1. MapOf'[Key(temp)'] = pair'[temp][2]
        BY <1>3, Maps
      <3> QED BY <1>3, <1>6, <2>1, <3>1
    <2>2. CASE k # line.key
      <3>1. PICK n \in InUse : k = Key(n)
        BY <2>2
      <3>2. n \in InUse' /\ Key(n)' = Key(n) /\ pair'[n] = pair[n]
        BY <1>3
      <3> QED BY <3>1, <3>2, Maps
    <2> QED BY <2>1, <2>2
  <1>8. DOMAIN MapOf = D
    BY <1>5
  <1>9. Sorted!After(MapOf, line) =
          [k \in D \union {line.key} |-> IF k = line.key THEN line.value ELSE MapOf[k]]
    BY <1>2, <1>8 DEF Sorted!After
  <1>10. [k \in D \union {line.key} |-> IF k = line.key THEN line.value ELSE MapOf[k]]
         = [k \in D |-> MapOf[k]]
    BY <1>6
  <1> QED BY <1>5, <1>7, <1>9, <1>10

\* A key that is not there need not be erased.
LEMMA EraseNothing ==
  ASSUME IInv, IInv', NotFound
  PROVE  MapOf = Sorted!After(MapOf, line)
  <1>1. pc = "find" /\ itor = End /\ line.op \in {"find", "erase"}
    BY DEF NotFound, IInv, TypeOK
  <1>2. \A n \in InUse : Key(n) # line.key
    BY <1>1 DEF IInv, NotPassed
  <1> DEFINE D == {Key(n) : n \in InUse}
  <1>3. MapOf = [k \in D |-> MapOf[k]]
    BY <1>1, Maps DEF Pending
  <1>4. DOMAIN MapOf = D
    BY <1>3
  <1>5. D \ {line.key} = D
    BY <1>2
  <1> HIDE DEF D
  <1>6. CASE line.op = "find"
    BY <1>6 DEF Sorted!After
  <1>7. CASE line.op = "erase"
    <2>1. Sorted!After(MapOf, line) = [k \in D \ {line.key} |-> MapOf[k]]
      BY <1>4, <1>7 DEF Sorted!After, Sorted!Restrict
    <2> QED BY <2>1, <1>3, <1>5
  <1> QED BY <1>1, <1>6, <1>7

\* Every iteration changes the map as its line asks, or not at all.
LEMMA MapStep == IInv /\ [Next]_vars => Changed /\ Answered
  <1> SUFFICES ASSUME IInv, [Next]_vars PROVE Changed /\ Answered
    OBVIOUS
  <1>0. IInv'
    BY Stepwise
  <1>1. CASE UNCHANGED vars
    <2>1. MapOf' = MapOf /\ line' = line
      BY <1>1, MapStays DEF vars
    <2> QED BY <2>1 DEF Changed, Answered
  <1>2. CASE OpenFile \/ MissingFile \/ EndOfFile \/ NoMoreFiles \/ Cleared
    <2>1. UNCHANGED list /\ pc # "insert" /\ pc' # "insert" /\ line' = line
      BY <1>2 DEF OpenFile, MissingFile, EndOfFile, NoMoreFiles, Cleared
    <2>2. MapOf' = MapOf
      BY <2>1, MapStays
    <2> QED BY <2>1, <2>2 DEF Changed, Answered
  <1>3. ASSUME NEW l \in Lines, ReadLine(l) PROVE Changed /\ Answered
    <2>1. UNCHANGED list /\ pc = "lines" /\ pc' # "insert" /\ line = NoLine
      BY <1>3 DEF ReadLine, IInv, TypeOK, Walking
    <2>2. MapOf' = MapOf
      BY <2>1, MapStays
    <2> QED BY <2>1, <2>2 DEF Changed, Answered
  <1>4. CASE PrintPair \/ Seek \/ InsertSeeks
    <2>1. UNCHANGED list /\ pc' = pc /\ line' = line
      BY <1>4 DEF PrintPair, Seek, InsertSeeks, Advance
    <2>2. MapOf' = MapOf
      BY <2>1, MapStays
    <2>3. line # NoLine
      BY <1>4 DEF PrintPair, Seek, InsertSeeks, IInv, TypeOK, Walking
    <2> QED BY <2>1, <2>2, <2>3 DEF Changed, Answered
  <1>5. CASE Printed \/ FindPrints
    <2>1. UNCHANGED list /\ pc # "insert" /\ pc' # "insert"
      BY <1>5 DEF Printed, FindPrints, Done
    <2>2. MapOf' = MapOf
      BY <2>1, MapStays
    <2>3. line.op \in {"print", "values", "find"}
      BY <1>5 DEF Printed, FindPrints, IInv, TypeOK
    <2> QED BY <2>2, <2>3 DEF Changed, Answered, Sorted!After
  <1>6. CASE NotFound
    <2>1. UNCHANGED list /\ pc # "insert" /\ pc' # "insert"
      BY <1>6 DEF NotFound, Done
    <2>2. MapOf' = MapOf
      BY <2>1, MapStays
    <2> QED BY <1>0, <1>6, <2>2, EraseNothing DEF Changed, Answered
  <1>7. CASE FindErases
    <2>1. /\ pc = "find" /\ pc' = "lines" /\ line.op = "erase"
          /\ itor \in InUse /\ Erase(itor) /\ Key(itor) = line.key /\ line # NoLine
      BY <1>7 DEF FindErases, Done, IInv, TypeOK, Links, Walking
    <2>2. MapOf' = Sorted!Restrict(MapOf, DOMAIN MapOf \ {line.key})
      BY <1>0, <2>1, ErasedPair
    <2> QED BY <2>1, <2>2 DEF Changed, Answered, Sorted!After
  <1>8. CASE FindReplaces \/ FindAdds
    <2>1. line # NoLine /\ line' = line
      BY <1>8 DEF FindReplaces, FindAdds, Insertion, IInv, TypeOK, Walking
    <2> QED BY <1>0, <1>8, <2>1, SetKey DEF Changed, Answered
  <1>9. CASE Inserts
    BY <1>0, <1>9, InsertKey DEF Changed, Answered
  <1>10. CASE Clear
    <2>1. /\ pc = "clear" /\ pc' = "clear" /\ line' = line
          /\ Begin \in InUse /\ Erase(Begin)
      BY <1>10 DEF Clear, IInv, TypeOK, ListTypeOK, Links, Begin
    <2>2. /\ Key(Begin) \in DOMAIN MapOf
          /\ MapOf' = Sorted!Restrict(MapOf, DOMAIN MapOf \ {Key(Begin)})
      BY <1>0, <2>1, ErasedPair
    <2> QED BY <2>1, <2>2 DEF Changed, Answered
  <1> QED BY <1>1, <1>2, <1>3, <1>4, <1>5, <1>6, <1>7, <1>8, <1>9, <1>10 DEF Next, Walk

\* Whatever lines are read, the map changes only as the line asks, when a line is done it
\* has, and the end of main takes away one key at a time.
THEOREM MapChanges == Spec => [][Changed /\ Answered]_vars
  BY Invariance, MapStep, PTL DEF Spec
------------------------------------------------------------------------------
(* What is printed. *)

\* The nodes that the iterator has left behind, and those that the line asks for.
Behind(n) == itor = End \/ Key(n) < Key(itor)
Wanted(n) == line.op = "print" \/ pair[n][2] = line.value

Ascends(s) == \A i, j \in DOMAIN s : i < j => s[i][1] < s[j][1]

\* A line that prints has printed what is behind its iterator; one that looks for a key
\* prints when it has found it.
Told ==
  /\ pc \in {"find", "insert"} => said = <<>>
  /\ pc = "print" =>
       /\ Ascends(said)
       /\ {said[i] : i \in DOMAIN said} = {pair[n] : n \in {n \in InUse : Behind(n) /\ Wanted(n)}}

LEMMA ToldFirst == Init => Told
  BY DEF Init, Told

\* A step forwards leaves one node more behind.
LEMMA OneMoreBehind ==
  ASSUME ListTypeOK, SortedRing, UNCHANGED list, NEW c \in InUse, itor = c, itor' = next[c]
  PROVE  /\ InUse' = InUse /\ \A n \in InUse : Behind(n)' <=> n = c \/ Behind(n)
         /\ \A n \in InUse : Behind(n) => Key(n) < Key(c)
  <1>1. InUse' = InUse /\ \A n : Key(n)' = Key(n)
    BY ListStays
  <1>2. /\ c # End /\ c \in Links /\ next[c] \in Links
        /\ \A n \in InUse : Key(n) \in Int
    BY KeyType DEF ListTypeOK
  <1>3. ASSUME NEW n \in InUse, n = c \/ Key(n) < Key(c), next[c] # End PROVE Key(n) < Key(next[c])
    <2>1. next[c] \in InUse /\ Key(c) < Key(next[c])
      BY <1>2, <1>3 DEF Links, SortedRing, Ascending, Beyond
    <2> QED BY <1>2, <1>3, <2>1
  <1>4. ASSUME NEW n \in InUse, next[c] = End \/ Key(n) < Key(next[c]) PROVE n = c \/ Key(n) < Key(c)
    BY <1>4, NextIsNext
  <1>5. \A n \in InUse : Behind(n)' <=> next[c] = End \/ Key(n) < Key(next[c])
    BY <1>1 DEF Behind
  <1>6. \A n \in InUse : Behind(n) <=> Key(n) < Key(c)
    BY <1>2 DEF Behind
  <1> QED BY <1>1, <1>3, <1>4, <1>5, <1>6

\* What comes after all that is printed is printed last.
LEMMA PrintsOne ==
  ASSUME NEW s \in Seq(Keys \X Values), Ascends(s), NEW p \in Keys \X Values,
         \A i \in DOMAIN s : s[i][1] < p[1]
  PROVE  /\ Ascends(Append(s, p))
         /\ {Append(s, p)[i] : i \in DOMAIN Append(s, p)} = {s[i] : i \in DOMAIN s} \union {p}
  <1> DEFINE t == Append(s, p)
  <1>1. /\ Len(s) \in Nat /\ DOMAIN s = 1 .. Len(s) /\ DOMAIN t = 1 .. Len(s) + 1
        /\ \A i \in 1 .. Len(s) : t[i] = s[i]
        /\ t[Len(s) + 1] = p
    BY AppendProperties
  <1> HIDE DEF t
  <1>2. DOMAIN t = DOMAIN s \union {Len(s) + 1}
    BY <1>1
  <1>3. ASSUME NEW i \in DOMAIN t, NEW j \in DOMAIN t, i < j PROVE t[i][1] < t[j][1]
    <2>1. i \in DOMAIN s
      BY <1>1, <1>3
    <2>2. CASE j \in DOMAIN s
      BY <1>1, <1>3, <2>1, <2>2 DEF Ascends
    <2>3. CASE j = Len(s) + 1
      BY <1>1, <2>1, <2>3
    <2> QED BY <1>2, <2>2, <2>3
  <1>4. {t[i] : i \in DOMAIN t} = {s[i] : i \in DOMAIN s} \union {p}
    BY <1>1, <1>2
  <1>5. Ascends(t)
    BY <1>3 DEF Ascends
  <1> QED BY <1>4, <1>5 DEF t

\* Every iteration keeps to it.
LEMMA ToldNext ==
  ASSUME IInv, IInv', Told, [Next]_vars
  PROVE  Told'
  <1>1. CASE UNCHANGED vars
    BY <1>1 DEF vars, list, Told, Ascends, InUse, Behind, Wanted, Key
  <1>2. ASSUME NEW l \in Lines, ReadLine(l) PROVE Told'
    <2>1. /\ InUse' = InUse /\ \A n : Key(n)' = Key(n)
          /\ said' = <<>> /\ itor' = Begin
      BY <1>2, ListStays DEF ReadLine, IInv, TypeOK
    <2>2. \A n \in InUse' : ~Behind(n)'
      BY <2>1, Begins DEF Behind, IInv, TypeOK
    <2>3. {n \in InUse' : Behind(n)' /\ Wanted(n)'} = {}
      BY <2>2
    <2>4. DOMAIN said' = {} /\ Ascends(said')
      BY <2>1 DEF Ascends
    <2>5. {said'[i] : i \in DOMAIN said'} = {pair'[n] : n \in {n \in InUse' : Behind(n)' /\ Wanted(n)'}}
      BY <2>3, <2>4
    <2> QED BY <2>1, <2>4, <2>5 DEF Told, Ascends
  <1>3. CASE PrintPair
    <2>1. PICK c \in InUse : c = itor
      BY <1>3 DEF PrintPair, IInv, TypeOK, Links
    <2>2. /\ UNCHANGED list /\ itor' = next[c] /\ pc = "print" /\ pc' = "print"
          /\ line' = line /\ pair' = pair
          /\ said' = IF Wanted(c) THEN Append(said, pair[c]) ELSE said
      BY <1>3, <2>1 DEF PrintPair, Advance, list, Wanted
    <2>3. /\ InUse' = InUse /\ \A n \in InUse : Behind(n)' <=> n = c \/ Behind(n)
          /\ \A n \in InUse : Behind(n) => Key(n) < Key(c)
      BY <2>1, <2>2, OneMoreBehind DEF IInv, TypeOK
    <2>4. \A n : Wanted(n)' <=> Wanted(n)
      BY <2>2 DEF Wanted
    <2>5. /\ pair[c] \in Keys \X Values /\ said \in Seq(Keys \X Values)
          /\ Ascends(said)
          /\ {said[i] : i \in DOMAIN said} = {pair[n] : n \in {n \in InUse : Behind(n) /\ Wanted(n)}}
      BY <2>2 DEF IInv, TypeOK, ListTypeOK, Told
    <2>6. CASE Wanted(c)
      <3>1. \A i \in DOMAIN said : said[i][1] < pair[c][1]
        BY <2>3, <2>5 DEF Key
      <3>2. /\ Ascends(said')
            /\ {said'[i] : i \in DOMAIN said'} = {said[i] : i \in DOMAIN said} \union {pair[c]}
        <4>1. said' = Append(said, pair[c])
          BY <2>2, <2>6
        <4>2. /\ Ascends(Append(said, pair[c]))
              /\ {Append(said, pair[c])[i] : i \in DOMAIN Append(said, pair[c])}
                   = {said[i] : i \in DOMAIN said} \union {pair[c]}
          BY <2>5, <3>1, PrintsOne
        <4> QED BY <4>1, <4>2
      <3>3. {n \in InUse' : Behind(n)' /\ Wanted(n)'}
              = {n \in InUse : Behind(n) /\ Wanted(n)} \union {c}
        BY <2>3, <2>4, <2>6
      <3>4. {said'[i] : i \in DOMAIN said'}
              = {pair'[n] : n \in {n \in InUse' : Behind(n)' /\ Wanted(n)'}}
        BY <2>2, <2>5, <3>2, <3>3
      <3> QED BY <2>2, <3>2, <3>4 DEF Told, Ascends
    <2>7. CASE ~Wanted(c)
      <3>1. {n \in InUse' : Behind(n)' /\ Wanted(n)'} = {n \in InUse : Behind(n) /\ Wanted(n)}
        BY <2>3, <2>4, <2>7
      <3>2. said' = said
        BY <2>2, <2>7
      <3> QED BY <2>2, <2>5, <3>1, <3>2 DEF Told, Ascends
    <2> QED BY <2>6, <2>7
  <1>4. CASE Seek \/ InsertSeeks \/ FindReplaces \/ FindAdds
    <2>1. pc \in {"find", "insert"} /\ pc' \in {"find", "insert"} /\ said' = said
      BY <1>4 DEF Seek, InsertSeeks, FindReplaces, FindAdds, Insertion, Advance
    <2> QED BY <2>1 DEF Told
  <1>5. CASE \/ OpenFile \/ MissingFile \/ EndOfFile \/ NoMoreFiles
             \/ Printed \/ FindPrints \/ FindErases \/ NotFound \/ Inserts \/ Clear \/ Cleared
    <2>1. pc' \notin {"find", "insert", "print"}
      BY <1>5 DEF OpenFile, MissingFile, EndOfFile, NoMoreFiles, Printed, FindPrints, FindErases,
                  NotFound, Inserts, Clear, Cleared, Done
    <2> QED BY <2>1 DEF Told
  <1> QED BY <1>1, <1>2, <1>3, <1>4, <1>5 DEF Next, Walk

LEMMA AlwaysTold == Spec => []Told
  BY Invariance, ToldFirst, ToldNext, PTL DEF Spec
------------------------------------------------------------------------------
(* The refinement. *)

\* A sequence of pairs that ascends is the answer that has these pairs.
LEMMA PairsAre ==
  ASSUME NEW s \in Seq(Keys \X Values), Ascends(s), NEW m, NEW S,
         {s[i] : i \in DOMAIN s} = {<<k, m[k]>> : k \in S}
  PROVE  s \in Sorted!Pairs(m, S)
  <1> DEFINE n == Len(s)
             P == {<<k, m[k]>> : k \in S}
  <1>1. n \in Nat /\ DOMAIN s = 1 .. n /\ \A i \in 1 .. n : s[i] \in Keys \X Values /\ s[i] \in P
    OBVIOUS
  <1>2. s \in [1 .. n -> P]
    BY <1>1
  <1>3. \A p \in P : \E i \in 1 .. n : s[i] = p
    BY <1>1
  <1>4. ASSUME NEW i \in 1 .. n, NEW j \in 1 .. n, s[i] = s[j] PROVE i = j
    <2>1. s[i][1] \in Int /\ s[j][1] = s[i][1]
      BY <1>1, <1>4, KeysAssumption
    <2>2. ~(i < j) /\ ~(j < i)
      <3>1. /\ i < j => s[i][1] < s[j][1]
            /\ j < i => s[j][1] < s[i][1]
        BY <1>1 DEF Ascends
      <3> QED BY <2>1, <3>1
    <2> QED BY <1>1, <2>2
  <1> HIDE DEF n, P
  <1>5. Cardinality(P) = n
    <2>1. s \in Bijection(1 .. n, P)
      BY <1>2, <1>3, <1>4, Fun_IsBij
    <2>2. ExistsBijection(1 .. n, P)
      BY <2>1 DEF ExistsBijection
    <2>3. IsFiniteSet(1 .. n) /\ Cardinality(1 .. n) = n
      BY <1>1, FS_Interval
    <2> QED BY <2>2, <2>3, FS_Bijection
  <1>6. s \in Sorted!SetToSeqs(P)
    <2>1. Sorted!Cardinality(P) = Cardinality(P)
      BY DEF Sorted!Cardinality, Cardinality
    <2> QED BY <1>2, <1>4, <1>5, <2>1 DEF Sorted!SetToSeqs
  <1> QED BY <1>6 DEF Sorted!Pairs, Ascends, P

\* Without a key that is about to be inserted, the map has the keys and pairs of the list.
LEMMA MapHas ==
  ASSUME IInv, IInv', pc # "insert"
  PROVE  /\ DOMAIN MapOf = {Key(n) : n \in InUse}
         /\ \A n \in InUse : pair[n] = <<Key(n), MapOf[Key(n)]>>
  <1>1. DOMAIN MapOf = {Key(n) : n \in InUse}
    BY Maps DEF Pending
  <1>2. \A n \in InUse : pair[n] \in Keys \X Values
    BY DEF IInv, TypeOK, ListTypeOK
  <1> QED BY <1>1, <1>2, Maps DEF Key

\* Replies of a line that changes nothing before it is done.
LEMMA PrintedReplies ==
  ASSUME IInv, IInv', Told, Printed
  PROVE  said \in Sorted!Pairs(MapOf, Sorted!Asked(MapOf, line))
  <1>1. /\ pc = "print" /\ line.op \in {"print", "values"} /\ itor = End
        /\ said \in Seq(Keys \X Values) /\ Ascends(said)
        /\ {said[i] : i \in DOMAIN said} = {pair[n] : n \in {n \in InUse : Behind(n) /\ Wanted(n)}}
    BY DEF Printed, IInv, TypeOK, Told
  <1> DEFINE S == Sorted!Asked(MapOf, line)
             W == {n \in InUse : Wanted(n)}
  <1>2. {n \in InUse : Behind(n) /\ Wanted(n)} = W
    BY <1>1 DEF Behind
  <1>3. /\ DOMAIN MapOf = {Key(n) : n \in InUse}
        /\ \A n \in InUse : pair[n] = <<Key(n), MapOf[Key(n)]>>
    BY <1>1, MapHas
  <1>4. S = {Key(n) : n \in W}
    <2>1. CASE line.op = "print"
      BY <1>3, <2>1 DEF Sorted!Asked, Wanted
    <2>2. CASE line.op = "values"
      <3>1. S = {k \in DOMAIN MapOf : MapOf[k] = line.value}
        BY <2>2 DEF Sorted!Asked
      <3>2. \A n \in InUse : Wanted(n) <=> MapOf[Key(n)] = line.value
        BY <1>3, <2>2 DEF Wanted
      <3> QED BY <1>3, <3>1, <3>2
    <2> QED BY <1>1, <2>1, <2>2
  <1> HIDE DEF S
  <1>5. {pair[n] : n \in W} = {<<k, MapOf[k]>> : k \in S}
    <2>1. \A n \in W : pair[n] = <<Key(n), MapOf[Key(n)]>>
      BY <1>3
    <2> HIDE DEF W
    <2> QED BY <1>4, <2>1
  <1> QED BY <1>1, <1>2, <1>5, PairsAre DEF S

\* No pair, and one.
LEMMA NoPair == ASSUME NEW m PROVE <<>> \in Sorted!Pairs(m, {})
  <1>1. <<>> \in Seq(Keys \X Values) /\ DOMAIN <<>> = {}
    BY EmptySeq
  <1>2. Ascends(<<>>)
    BY <1>1 DEF Ascends
  <1> QED BY <1>1, <1>2, PairsAre

LEMMA OnePair ==
  ASSUME NEW m, NEW k \in Keys, m[k] \in Values
  PROVE  <<<<k, m[k]>>>> \in Sorted!Pairs(m, {k})
  <1> DEFINE p == <<k, m[k]>>
             s == <<p>>
  <1>1. p \in Keys \X Values
    OBVIOUS
  <1> HIDE DEF p
  <1>2. s \in Seq(Keys \X Values) /\ DOMAIN s = {1} /\ s[1] = p
    BY <1>1
  <1>3. Ascends(s)
    BY <1>2 DEF Ascends
  <1>4. {s[i] : i \in DOMAIN s} = {p}
    BY <1>2
  <1>5. {<<l, m[l]>> : l \in {k}} = {p}
    BY DEF p
  <1> HIDE DEF s
  <1>6. s \in Sorted!Pairs(m, {k})
    BY <1>2, <1>3, <1>4, <1>5, PairsAre
  <1> QED BY <1>6 DEF s, p

LEMMA FindReplies ==
  ASSUME IInv, IInv', Told, FindPrints \/ NotFound \/ FindErases
  PROVE  said' \in Sorted!Pairs(MapOf', Sorted!Asked(MapOf', line))
  <1>1. /\ pc = "find" /\ pc' # "insert" /\ said = <<>> /\ line \in Lines /\ line.op # "set"
        /\ line.op \in {"find", "erase"}
    BY DEF FindPrints, NotFound, FindErases, Done, IInv, TypeOK, Told, Walking
  <1>2. CASE FindPrints
    <2>1. /\ line.op = "find" /\ itor \in InUse /\ Key(itor) = line.key /\ said' = <<pair[itor]>>
          /\ UNCHANGED list
      BY <1>2 DEF FindPrints, IInv, TypeOK, Links
    <2>2. MapOf' = MapOf
      BY <1>1, <2>1, MapStays
    <2>3. /\ line.key \in DOMAIN MapOf
          /\ pair[itor] = <<line.key, MapOf[line.key]>>
      BY <1>1, <2>1, MapHas
    <2>4. line.key \in Keys /\ MapOf[line.key] \in Values
      BY <2>1, <2>3 DEF IInv, TypeOK, ListTypeOK
    <2>5. Sorted!Asked(MapOf, line) = {line.key}
      BY <2>1, <2>3 DEF Sorted!Asked
    <2> QED BY <2>1, <2>2, <2>3, <2>4, <2>5, OnePair
  <1>3. CASE NotFound
    <2>1. said' = <<>> /\ itor = End /\ UNCHANGED list
      BY <1>1, <1>3 DEF NotFound
    <2>2. MapOf' = MapOf
      BY <1>1, <2>1, MapStays
    <2>3. line.key \notin DOMAIN MapOf
      <3>1. \A n \in InUse : Key(n) # line.key
        BY <1>1, <2>1 DEF IInv, NotPassed
      <3> QED BY <1>1, <3>1, MapHas
    <2>4. Sorted!Asked(MapOf, line) = {}
      BY <1>1, <2>3 DEF Sorted!Asked
    <2> QED BY <2>1, <2>2, <2>4, NoPair
  <1>4. CASE FindErases
    <2>1. said' = <<>> /\ line.op = "erase"
      BY <1>1, <1>4 DEF FindErases
    <2>2. Sorted!Asked(MapOf', line) = {}
      BY <2>1 DEF Sorted!Asked
    <2> QED BY <2>1, <2>2, NoPair
  <1> QED BY <1>2, <1>3, <1>4

LEMMA InsertReplies ==
  ASSUME IInv, IInv', Inserts
  PROVE  said' \in Sorted!Pairs(MapOf', Sorted!Asked(MapOf', line))
  <1>1. /\ pc = "insert" /\ line.op = "set" /\ line.key \in Keys /\ line.value \in Values
        /\ said' = <<<<line.key, line.value>>>>
    BY DEF Inserts, IInv, TypeOK, Lines, Walking
  <1>2. MapOf' = MapOf
    BY InsertKey
  <1>3. line.key \in DOMAIN MapOf /\ MapOf[line.key] = line.value
    BY <1>1, Maps DEF Pending
  <1>4. Sorted!Asked(MapOf, line) = {line.key}
    BY <1>1, <1>3 DEF Sorted!Asked
  <1> QED BY <1>1, <1>2, <1>3, <1>4, OnePair

\* What SortedMap sees of the output.
Heard == IF line = NoLine THEN said ELSE <<>>
Open  == pc \notin {"clear", "ended"}

LEMMA SafetyFirst == Init => Sorted!Init
  <1> SUFFICES ASSUME Init PROVE Sorted!Init
    OBVIOUS
  <1>1. pc = "files" /\ line = NoLine /\ said = <<>> /\ pair = <<>>
    BY DEF Init, ListInit
  <1>2. {pair[n] : n \in InUse} \union (IF pc = "insert" THEN {<<line.key, line.value>>} ELSE {}) = {}
    BY <1>1 DEF InUse
  <1>3. MapOf = <<>>
    BY <1>2 DEF MapOf
  <1> QED BY <1>1, <1>3 DEF Sorted!Init

\* Every iteration is a step of SortedMap, or none.
LEMMA SafetyNext ==
  ASSUME IInv, IInv', Told, [Next]_vars
  PROVE  [Sorted!Next]_<<MapOf, line, Heard, Open>>
  <1>1. CASE UNCHANGED vars
    <2>1. MapOf' = MapOf
      BY <1>1, MapStays DEF vars
    <2> QED BY <1>1, <2>1 DEF vars, Heard, Open
  <1>2. CASE OpenFile \/ MissingFile \/ EndOfFile \/ Cleared
    <2>1. /\ UNCHANGED list /\ pc # "insert" /\ pc' # "insert" /\ line' = line /\ said' = said
          /\ Open' = Open
      BY <1>2 DEF OpenFile, MissingFile, EndOfFile, Cleared, Open
    <2>2. MapOf' = MapOf
      BY <2>1, MapStays
    <2> QED BY <2>1, <2>2 DEF Heard
  <1>3. CASE NoMoreFiles
    <2>1. /\ UNCHANGED list /\ pc = "files" /\ pc' = "clear" /\ line' = line /\ said' = said
          /\ line = NoLine
      BY <1>3 DEF NoMoreFiles, IInv, TypeOK, Walking
    <2>2. MapOf' = MapOf
      BY <2>1, MapStays
    <2>3. Sorted!Close
      BY <2>1, <2>2 DEF Sorted!Close
    <2> QED BY <2>3 DEF Sorted!Next
  <1>4. ASSUME NEW l \in Lines, ReadLine(l) PROVE [Sorted!Next]_<<MapOf, line, Heard, Open>>
    <2>1. /\ UNCHANGED list /\ pc = "lines" /\ pc' \in {"print", "find"} /\ line' = l /\ said' = <<>>
          /\ line = NoLine /\ l # NoLine
      BY <1>4, NoLineAssumption DEF ReadLine, IInv, TypeOK, Walking
    <2>2. MapOf' = MapOf
      BY <2>1, MapStays
    <2>3. Sorted!Ask(l)
      BY <2>1, <2>2 DEF Sorted!Ask
    <2> QED BY <2>3 DEF Sorted!Next
  <1>5. CASE PrintPair \/ Seek \/ InsertSeeks
    <2>1. UNCHANGED list /\ pc' = pc /\ line' = line /\ line # NoLine
      BY <1>5 DEF PrintPair, Seek, InsertSeeks, Advance, IInv, TypeOK, Walking
    <2>2. MapOf' = MapOf
      BY <2>1, MapStays
    <2> QED BY <2>1, <2>2 DEF Heard, Open
  <1>6. CASE FindReplaces \/ FindAdds
    <2>1. pc = "find" /\ pc' = "insert" /\ line' = line /\ line # NoLine
      BY <1>6 DEF FindReplaces, FindAdds, Insertion, IInv, TypeOK, Walking
    <2>2. MapOf' = Sorted!After(MapOf, line)
      BY <1>6, SetKey
    <2>3. Sorted!Change
      BY <2>1, <2>2 DEF Sorted!Change
    <2> QED BY <2>3 DEF Sorted!Next
  <1>7. CASE Printed \/ FindPrints \/ FindErases \/ NotFound \/ Inserts
    <2>1. /\ pc \in Walking /\ pc' = "lines" /\ line' = NoLine /\ line # NoLine
      BY <1>7 DEF Printed, FindPrints, FindErases, NotFound, Inserts, Done, IInv, TypeOK, Walking
    <2>2. MapOf' = Sorted!After(MapOf, line)
      BY <2>1, MapStep DEF Answered
    <2>3. said' \in Sorted!Pairs(MapOf', Sorted!Asked(MapOf', line))
      <3>1. CASE Printed
        <4>1. said' = said /\ UNCHANGED list /\ pc # "insert" /\ pc' # "insert"
          BY <2>1, <3>1 DEF Printed
        <4>2. MapOf' = MapOf
          BY <4>1, MapStays
        <4> QED BY <3>1, <4>1, <4>2, PrintedReplies
      <3> QED BY <1>7, <3>1, FindReplies, InsertReplies
    <2>4. Sorted!Reply
      BY <2>1, <2>2, <2>3 DEF Sorted!Reply, Walking
    <2> QED BY <2>4 DEF Sorted!Next
  <1>8. CASE Clear
    <2>1. /\ pc = "clear" /\ pc' = "clear" /\ line' = line /\ said' = said /\ line = NoLine
          /\ Begin \in InUse /\ Erase(Begin)
      BY <1>8 DEF Clear, IInv, TypeOK, ListTypeOK, Links, Begin, Walking
    <2>2. /\ Key(Begin) \in DOMAIN MapOf
          /\ MapOf' = Sorted!Restrict(MapOf, DOMAIN MapOf \ {Key(Begin)})
      BY <2>1, ErasedPair
    <2>3. Sorted!Forget
      BY <2>1, <2>2 DEF Sorted!Forget
    <2> QED BY <2>3 DEF Sorted!Next
  <1> QED BY <1>1, <1>2, <1>3, <1>4, <1>5, <1>6, <1>7, <1>8 DEF Next, Walk

\* keyvalue answers as a sorted map does: whatever lines are read, each is answered by the
\* pairs it asks for, in ascending order, and changes the map as it says.
THEOREM Refinement == Spec => Sorted!Safety
  <1>1. IInv /\ IInv' /\ Told /\ [Next]_vars => [Sorted!Next]_<<MapOf, line, Heard, Open>>
    BY SafetyNext
  <1>2. IInv /\ IInv' /\ Told /\ [Next]_vars => [Sorted!Next]_Sorted!vars
    BY <1>1 DEF Sorted!vars, Heard, Open
  <1> QED BY SafetyFirst, <1>2, Invariance, AlwaysTold, PTL DEF Spec, Sorted!Safety
==============================================================================
