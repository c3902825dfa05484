---------------------------- MODULE Yshell_proofs ----------------------------
(* Theorems about Yshell, for all names, texts, paths and numbers of inodes. *)
EXTENDS Yshell, FiniteSetTheorems, SequenceTheorems, TLAPS

------------------------------------------------------------------------------
(* What Reach comes to, for any kids. *)

\* Reach is closed, and has its start.
LEMMA ReachClosed ==
  ASSUME NEW kids \in [Inode -> SUBSET Inode], NEW i \in Inode
  PROVE  Reach(kids, i) \subseteq Inode /\ i \in Reach(kids, i) /\ Closed(kids, Reach(kids, i))
<1>1. Reach(kids, i) \subseteq Inode /\ i \in Reach(kids, i)
  BY DEF Reach
<1>2. ASSUME NEW j \in Reach(kids, i), NEW k \in kids[j]
      PROVE  k \in Reach(kids, i)
  <2>1. j \in Inode /\ k \in Inode
    BY <1>1, <1>2
  <2>2. ASSUME NEW S \in SUBSET Inode, i \in S /\ Closed(kids, S)
        PROVE  k \in S
    BY <1>2, <2>1, <2>2 DEF Reach, Closed
  <2> QED BY <2>1, <2>2 DEF Reach
<1> QED BY <1>1, <1>2 DEF Closed

\* Reach is the least such set.
LEMMA ReachLeast ==
  ASSUME NEW kids, NEW i, NEW S \in SUBSET Inode, i \in S, Closed(kids, S)
  PROVE  Reach(kids, i) \subseteq S
BY DEF Reach

\* What Reach has but its start is the kid of something that it has.
LEMMA ReachFrom ==
  ASSUME NEW kids \in [Inode -> SUBSET Inode], NEW i \in Inode,
         NEW j \in Reach(kids, i), j # i
  PROVE  \E k \in Reach(kids, i) : j \in kids[k]
<1> DEFINE S == {k \in Reach(kids, i) : k = i \/ \E l \in Reach(kids, i) : k \in kids[l]}
<1>1. S \in SUBSET Inode /\ i \in S
  BY ReachClosed
<1>2. Closed(kids, S)
  BY ReachClosed DEF Closed
<1>3. Reach(kids, i) \subseteq S
  <2> HIDE DEF S
  <2> QED BY <1>1, <1>2, ReachLeast
<1> QED BY <1>3

\* With more kids Reach has no less.
LEMMA ReachGrows ==
  ASSUME NEW f \in [Inode -> SUBSET Inode], NEW g \in [Inode -> SUBSET Inode],
         NEW i \in Inode, \A j \in Inode : f[j] \subseteq g[j]
  PROVE  Reach(f, i) \subseteq Reach(g, i)
<1>1. Reach(g, i) \in SUBSET Inode /\ i \in Reach(g, i)
  BY ReachClosed
<1>2. Closed(f, Reach(g, i))
  BY ReachClosed DEF Closed
<1> QED BY <1>1, <1>2, ReachLeast

\* Where every inode is the kid of one only, and t is taken from its parent, what
\* remains is what was not below t.
LEMMA ReachCut ==
  ASSUME NEW f \in [Inode -> SUBSET Inode], NEW g \in [Inode -> SUBSET Inode],
         NEW r \in Inode, NEW d \in Inode, NEW t \in f[d],
         \A j \in Inode : r \notin f[j],
         \A j, k \in Inode : f[j] \cap f[k] # {} => j = k,
         g[d] = f[d] \ {t}, \A j \in Inode \ {d} : g[j] = f[j]
  PROVE  /\ Reach(g, r) \cap Reach(f, t) = {}
         /\ Reach(f, r) \subseteq Reach(g, r) \union Reach(f, t)
<1>1. t \in Inode /\ t # r /\ \A j \in Inode : t \notin g[j] /\ g[j] \subseteq f[j]
  OBVIOUS
<1>2. r \notin Reach(f, t)
  BY <1>1, ReachClosed, ReachFrom
<1> DEFINE S == Inode \ Reach(f, t)
<1>3. S \in SUBSET Inode /\ r \in S
  BY <1>2
<1>4. Closed(g, S)
  <2> SUFFICES ASSUME NEW j \in S, NEW k \in g[j], k \in Reach(f, t)
               PROVE  FALSE
    BY DEF Closed
  <2>1. k # t /\ k \in f[j]
    BY <1>1
  <2>2. PICK l \in Reach(f, t) : k \in f[l]
    BY <1>1, <2>1, ReachFrom
  <2>3. l = j
    BY <1>1, <2>1, <2>2, ReachClosed
  <2> QED BY <2>2, <2>3
<1>5. Reach(g, r) \subseteq S
  <2> HIDE DEF S
  <2> QED BY <1>3, <1>4, ReachLeast
<1> DEFINE T == Reach(g, r) \union Reach(f, t)
<1>6. T \in SUBSET Inode /\ r \in T
  BY <1>1, ReachClosed
<1>7. Closed(f, T)
  <2> SUFFICES ASSUME NEW j \in T, NEW k \in f[j]
               PROVE  k \in T
    BY DEF Closed
  <2>1. CASE j \in Reach(f, t)
    BY <1>1, <2>1, ReachClosed DEF Closed
  <2>2. CASE j \in Reach(g, r) /\ k \in g[j]
    BY <1>1, <2>2, ReachClosed DEF Closed
  <2>3. CASE k \notin g[j]
    BY <1>1, <2>3, <1>6, ReachClosed
  <2> QED BY <2>1, <2>2, <2>3
<1>8. Reach(f, r) \subseteq T
  <2> HIDE DEF T
  <2> QED BY <1>6, <1>7, ReachLeast
<1> QED BY <1>5, <1>8

\* Where a fresh t is added to the kids of d, no more than t is added to what Reach
\* has, and only if it has d.
LEMMA ReachAdd ==
  ASSUME NEW f \in [Inode -> SUBSET Inode], NEW g \in [Inode -> SUBSET Inode],
         NEW r \in Inode, NEW d \in Inode, NEW t \in Inode, t # r, t # d,
         f[t] = {}, \A j \in Inode : t \notin f[j],
         g[d] = f[d] \union {t}, \A j \in Inode \ {d} : g[j] = f[j]
  PROVE  /\ Reach(f, r) \subseteq Reach(g, r)
         /\ Reach(g, r) \subseteq Reach(f, r) \union {t}
         /\ t \in Reach(g, r) => d \in Reach(f, r)
<1> DEFINE S == Reach(f, r) \union (IF d \in Reach(f, r) THEN {t} ELSE {})
<1>1. Reach(f, r) \subseteq Reach(g, r)
  BY ReachGrows
<1>2. S \in SUBSET Inode /\ r \in S
  BY ReachClosed
<1>3. Closed(g, S)
  <2> SUFFICES ASSUME NEW j \in S, NEW k \in g[j]
               PROVE  k \in S
    BY DEF Closed
  <2>1. j \in Reach(f, r) \/ j = t
    OBVIOUS
  <2>2. CASE j = t
    BY <2>2
  <2>3. CASE j \in Reach(f, r) /\ k \in f[j]
    BY <2>3, ReachClosed DEF Closed
  <2>4. CASE j \in Reach(f, r) /\ k \notin f[j]
    <3>1. j \in Inode
      BY <1>2
    <3> QED BY <2>4, <3>1
  <2> QED BY <2>1, <2>2, <2>3, <2>4
<1>4. Reach(g, r) \subseteq S
  <2> HIDE DEF S
  <2> QED BY <1>2, <1>3, ReachLeast
<1>5. t \notin Reach(f, r)
  <2> SUFFICES ASSUME t \in Reach(f, r) PROVE FALSE
    OBVIOUS
  <2>1. PICK k \in Reach(f, r) : t \in f[k]
    BY ReachFrom
  <2> QED BY <2>1, ReachClosed
<1> QED BY <1>1, <1>4, <1>5

------------------------------------------------------------------------------
(* Types. *)

\* What the inductive invariant adds to the types: also in directories that were
\* removed, a size never falls below the number of entries, and so never wraps.
Typed ==
  /\ TreeTypeOK
  /\ Root \in Dirs
  /\ \A d \in Dirs : IsFiniteSet(Entries(d)) /\ Cardinality(Entries(d)) <= size_[d]

LEMMA DotsFinite == IsFiniteSet(Dots) /\ Cardinality(Dots) = 2
<1>1. IsFiniteSet({"."}) /\ Cardinality({"."}) = 1
  BY FS_Singleton
<1>2. IsFiniteSet({"."} \union {".."}) /\ Cardinality({"."} \union {".."}) = 2
  BY <1>1, FS_AddElement
<1>3. Dots = {"."} \union {".."}
  BY DEF Dots
<1> QED BY <1>2, <1>3

\* One element more, or less, and one more, or less, counted.
LEMMA CountMore ==
  ASSUME NEW S, NEW x, x \notin S, IsFiniteSet(S), NEW k \in Nat, Cardinality(S) <= k
  PROVE  /\ IsFiniteSet(S \union {x}) /\ Cardinality(S \union {x}) <= k + 1
         /\ k = Cardinality(S) => k + 1 = Cardinality(S \union {x})
BY FS_AddElement, FS_CardinalityType

LEMMA CountLess ==
  ASSUME NEW S, NEW x \in S, IsFiniteSet(S), NEW k \in Nat, Cardinality(S) <= k
  PROVE  /\ IsFiniteSet(S \ {x}) /\ k - 1 \in Nat /\ Cardinality(S \ {x}) <= k - 1
         /\ k = Cardinality(S) => k - 1 = Cardinality(S \ {x})
<1>1. Cardinality(S) \in Nat /\ Cardinality(S \ {x}) = Cardinality(S) - 1
  BY FS_RemoveElement, FS_CardinalityType
<1>2. IsFiniteSet(S \ {x}) /\ Cardinality(S \ {x}) \in Nat
  BY FS_RemoveElement, FS_CardinalityType
<1> QED BY <1>1, <1>2

LEMMA KidsType ==
  ASSUME TreeTypeOK, Root \in Dirs
  PROVE  /\ Kids \in [Inode -> SUBSET Inode]
         /\ \A i \in Inode : Kids[i] \subseteq Dirs \union Files
         /\ Dirs \union Files \subseteq Inode /\ Root \in Inode
BY MaxInodeAssumption DEF TreeTypeOK, Kids, Inode, Root, Dirs, Files, Entries

\* Live has directories and files only.
LEMMA LiveType ==
  ASSUME TreeTypeOK, Root \in Dirs
  PROVE  /\ Live \subseteq Dirs \union Files /\ Root \in Live
         /\ Closed(Kids, Live)
<1>1. Closed(Kids, Dirs \union Files)
  BY KidsType DEF Closed
<1>2. Reach(Kids, Root) \subseteq Dirs \union Files
  BY <1>1, KidsType, ReachLeast
<1> QED BY <1>2, KidsType, ReachClosed DEF Live, Below

LEMMA InitTyped == Init => Typed
<1> SUFFICES ASSUME Init PROVE Typed
  OBVIOUS
<1>1. next_inode_nr = 2 /\ dirents = [d \in {1} |-> [n \in Dots |-> 1]]
      /\ size_ = [d \in {1} |-> 2] /\ data = <<>>
  BY DEF Init, TreeInit, Root
<1>2. Dirs = {1} /\ Files = {} /\ Entries(1) = Dots
  BY <1>1 DEF Dirs, Files, Entries
<1>3. TreeTypeOK
  <2>1. next_inode_nr \in 2 .. MaxInode + 1
    BY <1>1, MaxInodeAssumption
  <2>2. data \in [Files -> Texts]
    BY <1>1, <1>2
  <2> QED BY <1>1, <1>2, <2>1, <2>2 DEF TreeTypeOK
<1> QED BY <1>1, <1>2, <1>3, DotsFinite DEF Typed, Root

\* d, an existing directory, gets an entry for the new inode, as both mkfile and
\* mkdir do.
Added(d, n) ==
  /\ dirents'[d] = WithEntry(dirents[d], n, next_inode_nr)
  /\ \A e \in Dirs \ {d} : dirents'[e] = dirents[e]
  /\ size_'[d] = size_[d] + 1
  /\ \A e \in Dirs \ {d} : size_'[e] = size_[e]

LEMMA AddedEntries ==
  ASSUME Typed, NEW d \in Dirs, NEW n, n \notin Entries(d), Added(d, n)
  PROVE  /\ Entries(d)' = Entries(d) \union {n}
         /\ \A e \in Dirs \ {d} : Entries(e)' = Entries(e)
         /\ \A e \in Dirs : IsFiniteSet(Entries(e)') /\ Cardinality(Entries(e)') <= size_'[e]
<1>1. Entries(d)' = Entries(d) \union {n} /\ \A e \in Dirs \ {d} : Entries(e)' = Entries(e)
  BY DEF Added, WithEntry, Entries
<1>2. /\ IsFiniteSet(Entries(d)) /\ Cardinality(Entries(d)) <= size_[d]
      /\ size_[d] \in Nat
  BY DEF Typed, TreeTypeOK
<1>3. /\ IsFiniteSet(Entries(d) \union {n})
      /\ Cardinality(Entries(d) \union {n}) <= size_[d] + 1
  BY <1>2, CountMore
<1>4. ASSUME NEW e \in Dirs
      PROVE  IsFiniteSet(Entries(e)') /\ Cardinality(Entries(e)') <= size_'[e]
  <2>1. CASE e = d
    <3>1. size_'[e] = size_[d] + 1 /\ Entries(e)' = Entries(d) \union {n}
      BY <1>1, <2>1 DEF Added
    <3> QED BY <1>3, <3>1
  <2>2. CASE e # d
    BY <1>1, <2>2 DEF Added, Typed
  <2> QED BY <2>1, <2>2
<1> QED BY <1>1, <1>4

\* mkfile and writefile.
LEMMA NewFileTyped ==
  ASSUME Typed, NEW d \in Dirs, NEW n \in Names \union Dots, n \notin Entries(d),
         NEW text \in Texts, NewFile(d, n, text)
  PROVE  Typed' /\ Dirs' = Dirs /\ Added(d, n)
<1> USE DEF NewFile, NewInode
<1>1. Dirs' = Dirs /\ Files' = Files \union {next_inode_nr} /\ next_inode_nr \notin Dirs
  BY DEF Typed, TreeTypeOK, WithEntry, Dirs, Files
<1>2. Added(d, n)
  BY DEF Added, Typed, TreeTypeOK, Dirs
<1>3. next_inode_nr \in Nat /\ next_inode_nr' \in 2 .. MaxInode + 1
  BY MaxInodeAssumption DEF Typed, TreeTypeOK
<1>4. /\ Dirs' \subseteq 1 .. next_inode_nr' - 1 /\ Files' \subseteq 1 .. next_inode_nr' - 1
      /\ Dirs' \cap Files' = {}
  BY <1>1, <1>3 DEF Typed, TreeTypeOK
<1>5. ASSUME NEW e \in Dirs
      PROVE  /\ Entries(e)' \subseteq Names \union Dots
             /\ \A m \in Entries(e)' : dirents'[e][m] \in Dirs' \union Files'
  <2>1. CASE e = d
    BY <1>1, <1>2, <2>1 DEF Typed, TreeTypeOK, Added, WithEntry, Entries
  <2>2. CASE e # d
    BY <1>1, <1>2, <2>2 DEF Typed, TreeTypeOK, Added, Entries
  <2> QED BY <2>1, <2>2
<1>6. size_' \in [Dirs' -> Nat] /\ data' \in [Files' -> Texts]
  BY <1>1 DEF Typed, TreeTypeOK, WithEntry, Dirs, Files
<1> QED BY <1>1, <1>2, <1>3, <1>4, <1>5, <1>6, AddedEntries DEF Typed, TreeTypeOK

\* mkdir, set_parent and set_dot.
LEMMA NewDirectoryTyped ==
  ASSUME Typed, NEW d \in Dirs, NEW n \in Names \union Dots, n \notin Entries(d),
         NewDirectory(d, n)
  PROVE  /\ Typed' /\ Dirs' = Dirs \union {next_inode_nr} /\ Added(d, n)
         /\ dirents'[next_inode_nr] = [m \in Dots |-> IF m = "." THEN next_inode_nr ELSE d]
         /\ size_'[next_inode_nr] = 2
<1> DEFINE t == next_inode_nr
<1> USE DEF NewDirectory, NewInode
<1>1. /\ Dirs' = Dirs \union {t} /\ Files' = Files
      /\ t \notin Dirs /\ t \notin Files
  BY DEF Typed, TreeTypeOK, WithEntry, Dirs, Files
<1>2. /\ Added(d, n)
      /\ dirents'[t] = [m \in Dots |-> IF m = "." THEN t ELSE d]
      /\ size_'[t] = 2
  BY <1>1 DEF Added, WithEntry, Typed, TreeTypeOK, Dirs
<1>3. DOMAIN dirents'[t] = Dots
  BY <1>2
<1>4. t \in Nat /\ next_inode_nr' = t + 1 /\ next_inode_nr' \in 2 .. MaxInode + 1
  BY MaxInodeAssumption DEF Typed, TreeTypeOK
<1>5. /\ Dirs' \subseteq 1 .. next_inode_nr' - 1 /\ Files' \subseteq 1 .. next_inode_nr' - 1
      /\ Dirs' \cap Files' = {}
  BY <1>1, <1>4 DEF Typed, TreeTypeOK
<1>6. ASSUME NEW e \in Dirs'
      PROVE  /\ Entries(e)' \subseteq Names \union Dots
             /\ \A m \in Entries(e)' : dirents'[e][m] \in Dirs' \union Files'
  <2>1. CASE e = t
    BY <1>1, <1>2, <1>3, <2>1 DEF Entries
  <2>2. CASE e = d
    BY <1>1, <1>2, <2>2 DEF Typed, TreeTypeOK, Added, WithEntry, Entries
  <2>3. CASE e \in Dirs \ {d}
    BY <1>1, <1>2, <2>3 DEF Typed, TreeTypeOK, Added, Entries
  <2> QED BY <1>1, <2>1, <2>2, <2>3
<1>7. size_' \in [Dirs' -> Nat] /\ data' \in [Files' -> Texts]
  BY <1>1 DEF Typed, TreeTypeOK, WithEntry, Dirs, Files
<1>8. ASSUME NEW e \in Dirs'
      PROVE  IsFiniteSet(Entries(e)') /\ Cardinality(Entries(e)') <= size_'[e]
  <2>1. CASE e = t
    BY <1>2, <1>3, <2>1, DotsFinite DEF Entries
  <2>2. CASE e \in Dirs
    BY <1>2, <2>2, AddedEntries
  <2> QED BY <1>1, <2>1, <2>2
<1> HIDE DEF NewDirectory, NewInode
<1>9. TreeTypeOK'
  BY <1>1, <1>4, <1>5, <1>6, <1>7 DEF TreeTypeOK
<1> QED BY <1>1, <1>2, <1>8, <1>9 DEF Typed

\* Entries are taken away, from any directories.
LEMMA FewerTyped ==
  ASSUME Typed, DOMAIN dirents' = Dirs, UNCHANGED <<next_inode_nr, data>>,
         size_' \in [Dirs -> Nat],
         \A e \in Dirs :
           /\ Entries(e)' \subseteq Entries(e)
           /\ \A m \in Entries(e)' : dirents'[e][m] = dirents[e][m]
           /\ Cardinality(Entries(e)') <= size_'[e]
  PROVE  Typed'
<1>1. Dirs' = Dirs /\ Files' = Files
  BY DEF Dirs, Files
<1>2. TreeTypeOK'
  BY <1>1 DEF Typed, TreeTypeOK
<1>3. \A e \in Dirs : IsFiniteSet(Entries(e)')
  BY FS_Subset DEF Typed
<1> QED BY <1>1, <1>2, <1>3 DEF Typed

LEMMA RemoveEntryTyped ==
  ASSUME Typed, NEW d \in Dirs, NEW n \in Entries(d), RemoveEntry(d, n)
  PROVE  Typed' /\ Dirs' = Dirs
<1>1. /\ DOMAIN dirents' = Dirs /\ UNCHANGED <<next_inode_nr, data>>
      /\ size_' = [size_ EXCEPT ![d] = @ - 1]
  BY DEF RemoveEntry, Without
<1>2. ASSUME NEW e \in Dirs
      PROVE  /\ Entries(e)' \subseteq Entries(e) \ (IF e = d THEN {n} ELSE {})
             /\ \A m \in Entries(e)' : dirents'[e][m] = dirents[e][m]
  BY DEF RemoveEntry, Without, Restrict, Entries
<1>3. /\ IsFiniteSet(Entries(d) \ {n}) /\ size_[d] - 1 \in Nat
      /\ Cardinality(Entries(d) \ {n}) <= size_[d] - 1
  <2>1. /\ IsFiniteSet(Entries(d)) /\ Cardinality(Entries(d)) <= size_[d]
        /\ size_[d] \in Nat
    BY DEF Typed, TreeTypeOK
  <2> QED BY <2>1, CountLess
<1>4. size_' \in [Dirs -> Nat] /\ size_'[d] = size_[d] - 1
      /\ \A e \in Dirs \ {d} : size_'[e] = size_[e]
  BY <1>1, <1>3 DEF Typed, TreeTypeOK
<1>5. ASSUME NEW e \in Dirs
      PROVE  Cardinality(Entries(e)') <= size_'[e]
  <2>1. CASE e = d
    <3>1. Entries(e)' \in SUBSET (Entries(d) \ {n})
      BY <1>2, <2>1
    <3>2. /\ IsFiniteSet(Entries(e)') /\ Cardinality(Entries(e)') \in Nat
          /\ Cardinality(Entries(e)') <= Cardinality(Entries(d) \ {n})
          /\ Cardinality(Entries(d) \ {n}) \in Nat
      BY <1>3, <3>1, FS_Subset, FS_CardinalityType
    <3>3. size_'[e] = size_[d] - 1
      BY <1>4, <2>1
    <3> QED BY <1>3, <3>2, <3>3
  <2>2. CASE e # d
    <3>1. Entries(e)' \in SUBSET Entries(e)
      BY <1>2
    <3>2. /\ IsFiniteSet(Entries(e)) /\ Cardinality(Entries(e)) <= size_[e]
          /\ size_[e] \in Nat
      BY DEF Typed, TreeTypeOK
    <3>3. /\ IsFiniteSet(Entries(e)') /\ Cardinality(Entries(e)') \in Nat
          /\ Cardinality(Entries(e)') <= Cardinality(Entries(e))
          /\ Cardinality(Entries(e)) \in Nat
      BY <3>1, <3>2, FS_Subset, FS_CardinalityType
    <3>4. size_'[e] = size_[e]
      BY <1>4, <2>2
    <3> QED BY <3>2, <3>3, <3>4
  <2> QED BY <2>1, <2>2
<1>6. Typed'
  BY <1>1, <1>2, <1>4, <1>5, FewerTyped
<1> QED BY <1>1, <1>6 DEF Dirs

LEMMA DisownTyped ==
  ASSUME Typed, NEW i, Disown(i)
  PROVE  Typed' /\ Dirs' = Dirs
<1>1. DOMAIN dirents' = Dirs /\ UNCHANGED <<next_inode_nr, size_, data>>
  BY DEF Disown
<1>2. ASSUME NEW e \in Dirs
      PROVE  /\ Entries(e)' \subseteq Entries(e)
             /\ \A m \in Entries(e)' : dirents'[e][m] = dirents[e][m]
  BY DEF Disown, Restrict, Entries
<1>3. ASSUME NEW e \in Dirs
      PROVE  Cardinality(Entries(e)') <= size_'[e]
  <2>1. Entries(e)' \in SUBSET Entries(e)
    BY <1>2
  <2>2. /\ IsFiniteSet(Entries(e)) /\ Cardinality(Entries(e)) <= size_[e]
        /\ size_[e] \in Nat
    BY DEF Typed, TreeTypeOK
  <2>3. /\ IsFiniteSet(Entries(e)') /\ Cardinality(Entries(e)') \in Nat
        /\ Cardinality(Entries(e)') <= Cardinality(Entries(e))
        /\ Cardinality(Entries(e)) \in Nat
    BY <2>1, <2>2, FS_Subset, FS_CardinalityType
  <2> QED BY <1>1, <2>2, <2>3
<1>4. size_' \in [Dirs -> Nat]
  BY <1>1 DEF Typed, TreeTypeOK
<1>5. Typed'
  BY <1>1, <1>2, <1>3, <1>4, FewerTyped
<1> QED BY <1>1, <1>5 DEF Dirs

------------------------------------------------------------------------------
(* The tree. *)

Sized == \A d \in Live \cap Dirs : size_[d] = Cardinality(Entries(d))

\* What was removed does not lead back into the tree, not by . and .. either.
Severed == \A d \in Dirs \ Live : \A n \in Entries(d) : dirents[d][n] \notin Live

Sound == ProperTree /\ Sized /\ Severed

\* Every inode is the kid of one directory at most, by one name.
LEMMA OneParent ==
  ASSUME Typed, OneName
  PROVE  \A j, k \in Inode : Kids[j] \cap Kids[k] # {} => j = k
BY DEF OneName, Kids

\* A new entry under a proper name is a new kid; one of . and .. is none.
LEMMA AddedKids ==
  ASSUME Typed, Typed', NEW d \in Dirs, NEW n, n \notin Entries(d), Added(d, n),
         next_inode_nr \in Inode,
         \/ Dirs' = Dirs
         \/ /\ Dirs' = Dirs \union {next_inode_nr}
            /\ DOMAIN dirents'[next_inode_nr] = Dots
  PROVE  Kids' = IF n \in Dots THEN Kids ELSE [Kids EXCEPT ![d] = @ \union {next_inode_nr}]
<1> DEFINE t == next_inode_nr
<1>1. t \notin Dirs /\ Dirs \subseteq Inode
  BY KidsType DEF Typed, TreeTypeOK
<1>2. Kids \in [Inode -> SUBSET Inode] /\ Kids' \in [Inode -> SUBSET Inode]
  <2>1. Kids \in [Inode -> SUBSET Inode]
    BY KidsType DEF Typed
  <2>2. TreeTypeOK' /\ (Root \in Dirs)' => (Kids \in [Inode -> SUBSET Inode])'
    BY KidsType, PTL
  <2> QED BY <2>1, <2>2 DEF Typed
<1>3. ASSUME NEW e \in Inode, e # d
      PROVE  Kids'[e] = Kids[e]
  <2>1. CASE e \in Dirs
    BY <1>1, <1>3, <2>1 DEF Kids, Added, Entries
  <2>2. CASE e \notin Dirs
    BY <1>1, <1>3, <2>2 DEF Kids, Entries
  <2> QED BY <2>1, <2>2
<1>4. Kids'[d] = IF n \in Dots THEN Kids[d] ELSE Kids[d] \union {t}
  <2>1. /\ DOMAIN dirents'[d] = DOMAIN dirents[d] \union {n}
        /\ dirents'[d][n] = t
        /\ \A m \in DOMAIN dirents[d] : dirents'[d][m] = dirents[d][m]
    BY DEF Added, WithEntry, Entries
  <2>2. /\ Kids[d] = {dirents[d][m] : m \in DOMAIN dirents[d] \ Dots}
        /\ Kids'[d] = {dirents'[d][m] : m \in DOMAIN dirents'[d] \ Dots}
    BY <1>1 DEF Kids, Entries
  <2>3. CASE n \in Dots
    <3>1. Kids'[d] = Kids[d]
      BY <2>1, <2>2, <2>3
    <3> QED BY <2>3, <3>1
  <2>4. CASE n \notin Dots
    <3>1. Kids'[d] = Kids[d] \union {t}
      BY <2>1, <2>2, <2>4
    <3> QED BY <2>4, <3>1
  <2> QED BY <2>3, <2>4
<1> QED BY <1>1, <1>2, <1>3, <1>4

\* A new file, or a new directory, keeps the tree: nothing that was in it moves,
\* and what is new is where . and .. say.
LEMMA AddedSound ==
  ASSUME Typed, Typed', Sound, NEW d \in Dirs, NEW n, n \notin Entries(d), Added(d, n),
         next_inode_nr \in Inode, next_inode_nr \notin Dirs \union Files,
         \/ Dirs' = Dirs
         \/ /\ Dirs' = Dirs \union {next_inode_nr}
            /\ dirents'[next_inode_nr] =
                 [m \in Dots |-> IF m = "." THEN next_inode_nr ELSE d]
            /\ size_'[next_inode_nr] = 2
  PROVE  Sound'
<1>1. PICK t \in Inode : t = next_inode_nr
  OBVIOUS
<1>2. /\ Kids \in [Inode -> SUBSET Inode] /\ Dirs \subseteq Inode /\ Root \in Inode
      /\ Root \in Dirs /\ t # Root /\ t # d
      /\ \A j \in Inode : t \notin Kids[j]
      /\ Kids[t] = {}
  BY <1>1, KidsType DEF Typed, Kids
<1>3. Kids' = IF n \in Dots THEN Kids ELSE [Kids EXCEPT ![d] = @ \union {t}]
  BY <1>1, AddedKids
<1>4. /\ OneName /\ RootUnnamed /\ DotsLead /\ Sized /\ Severed
      /\ Live \subseteq Inode
  BY <1>2, ReachClosed DEF Sound, ProperTree, Live, Below
<1>5. /\ Live \subseteq Live' /\ Live' \subseteq Live \union {t}
      /\ t \in Live' => d \in Live /\ n \notin Dots
  <2>1. Live = Reach(Kids, Root) /\ Live' = Reach(Kids', Root)
    BY DEF Live, Below
  <2>2. CASE n \in Dots
    <3>1. Kids' = Kids
      BY <1>3, <2>2
    <3>2. t \notin Live
      <4> SUFFICES ASSUME t \in Live PROVE FALSE
        OBVIOUS
      <4>1. PICK k \in Reach(Kids, Root) : t \in Kids[k]
        BY <1>2, <2>1, ReachFrom
      <4> QED BY <1>2, <1>4, <2>1, <4>1
    <3> QED BY <2>1, <3>1, <3>2
  <2>3. CASE n \notin Dots
    <3>1. /\ Kids' = [Kids EXCEPT ![d] = @ \union {t}]
          /\ Kids' \in [Inode -> SUBSET Inode]
      BY <1>2, <1>3, <2>3
    <3>2. d \in Inode /\ t \in Inode /\ t # Root /\ t # d
      BY <1>2
    <3>3. /\ Reach(Kids, Root) \subseteq Reach(Kids', Root)
          /\ Reach(Kids', Root) \subseteq Reach(Kids, Root) \union {t}
          /\ t \in Reach(Kids', Root) => d \in Reach(Kids, Root)
      <4>1. PICK f \in [Inode -> SUBSET Inode], g \in [Inode -> SUBSET Inode] :
              f = Kids /\ g = Kids'
        BY <1>2, <3>1
      <4>2. /\ f[t] = {} /\ \A j \in Inode : t \notin f[j]
            /\ g[d] = f[d] \union {t} /\ \A j \in Inode \ {d} : g[j] = f[j]
            /\ Root \in Inode
        BY <1>2, <3>1, <3>2, <4>1
      <4>3. /\ Reach(f, Root) \subseteq Reach(g, Root)
            /\ Reach(g, Root) \subseteq Reach(f, Root) \union {t}
            /\ t \in Reach(g, Root) => d \in Reach(f, Root)
        BY <3>2, <4>1, <4>2, ReachAdd
      <4> QED BY <4>1, <4>3
    <3> QED BY <2>1, <2>3, <3>3
  <2> QED BY <2>2, <2>3
\* what the entries are
<1>6. ASSUME NEW e \in Dirs
      PROVE  /\ e \in Dirs' /\ Entries(e) \subseteq Entries(e)'
             /\ \A m \in Entries(e) : dirents'[e][m] = dirents[e][m]
             /\ \A m \in Entries(e)' \ Entries(e) : e = d /\ m = n /\ dirents'[e][m] = t
  BY <1>1 DEF Added, WithEntry, Entries
<1>7. ASSUME NEW e \in Dirs' \ Dirs
      PROVE  /\ e = t /\ Entries(e)' = Dots /\ size_'[e] = 2
             /\ dirents'[e]["."] = t /\ dirents'[e][".."] = d
  BY <1>1 DEF Entries, Dots
<1>8. OneName'
  <2> SUFFICES ASSUME NEW e \in Dirs', NEW f \in Dirs',
                      NEW m \in Entries(e)' \ Dots, NEW o \in Entries(f)' \ Dots,
                      dirents'[e][m] = dirents'[f][o]
               PROVE  e = f /\ m = o
    BY DEF OneName
  <2>1. e \in Dirs /\ f \in Dirs
    BY <1>7
  <2>2. /\ \A k \in Entries(e) : dirents[e][k] # t
        /\ \A k \in Entries(f) : dirents[f][k] # t
    BY <1>1, <2>1 DEF Typed, TreeTypeOK
  <2>3. \/ m \in Entries(e) /\ o \in Entries(f)
        \/ m \notin Entries(e) /\ o \notin Entries(f)
    BY <1>6, <2>1, <2>2 DEF Entries
  <2>4. CASE m \in Entries(e) /\ o \in Entries(f)
    BY <1>4, <1>6, <2>1, <2>4 DEF OneName
  <2>5. CASE m \notin Entries(e) /\ o \notin Entries(f)
    BY <1>6, <2>1, <2>5
  <2> QED BY <2>3, <2>4, <2>5
<1>9. \A e \in Inode : Root \notin Kids'[e]
  <2>1. \A e \in Inode : Root \notin Kids[e]
    BY <1>4 DEF RootUnnamed, Kids
  <2> QED BY <1>2, <1>3, <2>1
<1>10. RootUnnamed'
  <2>1. Dirs' \subseteq Inode
    BY <1>1, <1>2, <1>7
  <2> QED BY <1>9, <2>1 DEF RootUnnamed
<1>11. ASSUME NEW e \in Live \cap Dirs
       PROVE  /\ Dots \subseteq Entries(e)'
              /\ dirents'[e]["."] = e
              /\ IF e = Root THEN dirents'[e][".."] = Root
                 ELSE dirents'[e][".."] \in Live' /\ e \in Kids'[dirents'[e][".."]]
              /\ size_'[e] = Cardinality(Entries(e)')
  <2>1. /\ Dots \subseteq Entries(e) /\ dirents[e]["."] = e
        /\ IF e = Root THEN dirents[e][".."] = Root
           ELSE dirents[e][".."] \in Live /\ e \in Kids[dirents[e][".."]]
        /\ size_[e] = Cardinality(Entries(e))
    BY <1>4 DEF DotsLead, Sized
  <2>2. dirents'[e]["."] = dirents[e]["."] /\ dirents'[e][".."] = dirents[e][".."]
    BY <1>6, <2>1 DEF Dots
  <2>3. \A k \in Inode : Kids[k] \subseteq Kids'[k]
    BY <1>2, <1>3
  <2>4. size_'[e] = Cardinality(Entries(e)')
    <3>1. CASE e = d
      <4>1. Entries(e)' = Entries(d) \union {n} /\ size_'[e] = size_[d] + 1
        BY <3>1, AddedEntries DEF Added
      <4>2. /\ IsFiniteSet(Entries(d)) /\ Cardinality(Entries(d)) = size_[d]
            /\ size_[d] \in Nat /\ Cardinality(Entries(d)) <= size_[d]
        BY <2>1, <3>1 DEF Typed, TreeTypeOK
      <4>3. size_[d] + 1 = Cardinality(Entries(d) \union {n})
        BY <4>2, CountMore
      <4> QED BY <4>1, <4>3
    <3>2. CASE e # d
      BY <2>1, <3>2, AddedEntries DEF Added
    <3> QED BY <3>1, <3>2
  <2> QED BY <1>4, <1>5, <1>6, <2>1, <2>2, <2>3, <2>4
<1>12. ASSUME NEW e \in Dirs' \ Dirs, e \in Live'
       PROVE  /\ Dots \subseteq Entries(e)'
              /\ dirents'[e]["."] = e
              /\ e # Root /\ dirents'[e][".."] \in Live' /\ e \in Kids'[dirents'[e][".."]]
              /\ size_'[e] = Cardinality(Entries(e)')
  <2>1. /\ e = t /\ Entries(e)' = Dots /\ size_'[e] = 2
        /\ dirents'[e]["."] = t /\ dirents'[e][".."] = d
    BY <1>7
  <2>2. d \in Live' /\ n \notin Dots /\ d \in Inode
    BY <1>2, <1>5, <1>12, <2>1
  <2> QED BY <1>2, <1>3, <2>1, <2>2, DotsFinite
<1>13. \A e \in Live' \cap Dirs' : e \in Live \cap Dirs \/ e \in Dirs' \ Dirs
  BY <1>1, <1>5
<1>14. DotsLead' /\ Sized'
  BY <1>11, <1>12, <1>13 DEF DotsLead, Sized
<1>15. ASSUME NEW e \in Dirs' \ Live', NEW m \in Entries(e)'
       PROVE  dirents'[e][m] \notin Live'
  <2>1. CASE e \in Dirs /\ m \in Entries(e)
    <3>1. dirents[e][m] \notin Live /\ dirents'[e][m] = dirents[e][m]
      BY <1>4, <1>5, <1>6, <1>15, <2>1 DEF Severed
    <3>2. dirents[e][m] # t
      BY <1>1, <2>1 DEF Typed, TreeTypeOK
    <3> QED BY <1>5, <3>1, <3>2
  <2>2. CASE e \in Dirs /\ m \notin Entries(e)
    <3>1. e = d /\ dirents'[e][m] = t
      BY <1>6, <1>15, <2>2
    <3> QED BY <1>5, <1>15, <3>1
  <2>3. CASE e \notin Dirs
    <3>1. e = t /\ dirents'[e][m] \in {t, d}
      BY <1>7, <1>15, <2>3 DEF Dots
    <3>2. d \notin Live'
      <4> SUFFICES ASSUME d \in Live' PROVE FALSE
        OBVIOUS
      <4>1. d \in Live /\ n \notin Dots
        BY <1>2, <1>4, <1>5 DEF DotsLead
      <4>2. t \in Kids'[d]
        BY <1>2, <1>3, <4>1
      <4>3. Closed(Kids, Live)'
        <5>1. TreeTypeOK' /\ (Root \in Dirs)' => Closed(Kids, Live)'
          BY LiveType, PTL
        <5> QED BY <5>1 DEF Typed
      <4> QED BY <1>15, <3>1, <4>2, <4>3 DEF Closed
    <3> QED BY <1>15, <3>1, <3>2
  <2> QED BY <2>1, <2>2, <2>3
<1>16. Severed'
  BY <1>15 DEF Severed
<1> QED BY <1>8, <1>10, <1>14, <1>16 DEF Sound, ProperTree

\* Where an entry is removed, the tree loses what is below it, and keeps the rest:
\* also when the directory is not in the tree, so that it loses nothing.
LEMMA RemovedLive ==
  ASSUME Typed, Typed', ProperTree, NEW d \in Dirs, NEW n \in Entries(d) \ Dots,
         RemoveEntry(d, n), NEW i \in Inode, i = dirents[d][n]
  PROVE  /\ Live' = Live \ Below(i)
         /\ Kids' \in [Inode -> SUBSET Inode]
         /\ i \in Kids[d] /\ Kids'[d] = Kids[d] \ {i}
         /\ \A j \in Inode \ {d} : Kids'[j] = Kids[j]
<1>1. i = dirents[d][n]
  OBVIOUS
<1>2. /\ Dirs' = Dirs
      /\ \A e \in Dirs :
           /\ Entries(e)' = (Entries(e) \ (IF e \in Below(i) THEN Dots ELSE {}))
                            \ (IF e = d THEN {n} ELSE {})
           /\ \A m \in Entries(e)' : dirents'[e][m] = dirents[e][m]
      /\ size_' = [size_ EXCEPT ![d] = @ - 1]
  BY <1>1 DEF RemoveEntry, Without, Restrict, Dirs, Entries
<1>3. /\ Kids \in [Inode -> SUBSET Inode] /\ Dirs \subseteq Inode /\ Root \in Inode
      /\ Root \in Dirs
      /\ OneName /\ RootUnnamed
      /\ \A j \in Inode : Root \notin Kids[j]
      /\ \A j, k \in Inode : Kids[j] \cap Kids[k] # {} => j = k
  <2>1. OneName /\ RootUnnamed
    BY DEF ProperTree
  <2>2. \A j \in Inode : Root \notin Kids[j]
    BY <2>1 DEF RootUnnamed, Kids
  <2> QED BY <2>1, <2>2, KidsType, OneParent DEF Typed
<1>4. /\ Kids' \in [Inode -> SUBSET Inode]
      /\ i \in Kids[d] /\ Kids'[d] = Kids[d] \ {i}
      /\ \A j \in Inode \ {d} : Kids'[j] = Kids[j]
  <2>1. /\ Entries(d)' \ Dots = (Entries(d) \ Dots) \ {n}
        /\ \A e \in Dirs \ {d} : Entries(e)' \ Dots = Entries(e) \ Dots
    BY <1>2
  <2>2. /\ Kids[d] = {dirents[d][m] : m \in Entries(d) \ Dots}
        /\ Kids'[d] = {dirents'[d][m] : m \in Entries(d)' \ Dots}
    BY <1>2, <1>3 DEF Kids
  <2>3. i \in Kids[d] /\ Kids'[d] = Kids[d] \ {i}
    <3>1. \A m \in Entries(d) \ Dots : dirents[d][m] = i => m = n
      BY <1>1, <1>3 DEF OneName
    <3>2. \A m \in Entries(d)' : dirents'[d][m] = dirents[d][m]
      BY <1>2
    <3>3. i \in Kids[d]
      BY <1>1, <2>2
    <3>4. ASSUME NEW k \in Kids'[d] PROVE k \in Kids[d] \ {i}
      BY <2>1, <2>2, <3>1, <3>2
    <3>5. ASSUME NEW k \in Kids[d] \ {i} PROVE k \in Kids'[d]
      BY <1>1, <2>1, <2>2, <3>2
    <3> QED BY <3>3, <3>4, <3>5
  <2>4. ASSUME NEW j \in Inode \ {d}
        PROVE  Kids'[j] = Kids[j]
    <3>1. CASE j \in Dirs
      <4>1. /\ Kids[j] = {dirents[j][m] : m \in Entries(j) \ Dots}
            /\ Kids'[j] = {dirents'[j][m] : m \in Entries(j)' \ Dots}
        BY <1>2, <3>1 DEF Kids
      <4>2. /\ Entries(j)' \ Dots = Entries(j) \ Dots
            /\ \A m \in Entries(j)' : dirents'[j][m] = dirents[j][m]
        BY <1>2, <2>1, <3>1
      <4> QED BY <4>1, <4>2
    <3>2. CASE j \notin Dirs
      BY <1>2, <3>2 DEF Kids
    <3> QED BY <3>1, <3>2
  <2>5. Kids' \in [Inode -> SUBSET Inode]
    <3>1. \A j \in Inode : Kids'[j] \subseteq Inode
      BY <1>3, <2>3, <2>4
    <3>2. Kids' = [j \in Inode |-> Kids'[j]]
      BY DEF Kids
    <3> QED BY <3>1, <3>2
  <2> QED BY <2>3, <2>4, <2>5
<1>5. Live' = Live \ Below(i)
  <2>1. PICK f \in [Inode -> SUBSET Inode], g \in [Inode -> SUBSET Inode] :
          f = Kids /\ g = Kids'
    BY <1>3, <1>4
  <2>2. /\ d \in Inode /\ Root \in Inode /\ i \in f[d]
        /\ \A j \in Inode : Root \notin f[j]
        /\ \A j, k \in Inode : f[j] \cap f[k] # {} => j = k
        /\ g[d] = f[d] \ {i} /\ \A j \in Inode \ {d} : g[j] = f[j]
    BY <1>3, <1>4, <2>1
  <2>3. /\ Reach(g, Root) \cap Reach(f, i) = {}
        /\ Reach(f, Root) \subseteq Reach(g, Root) \union Reach(f, i)
    BY <2>1, <2>2, ReachCut
  <2>4. \A j \in Inode : g[j] \subseteq f[j]
    BY <2>2
  <2>5. Reach(g, Root) \subseteq Reach(f, Root) /\ Reach(f, Root) \subseteq Inode
    BY <2>1, <2>2, <2>4, ReachGrows, ReachClosed
  <2>6. Live = Reach(f, Root) /\ Live' = Reach(g, Root) /\ Below(i) = Reach(f, i)
    BY <2>1 DEF Live, Below
  <2> QED BY <2>3, <2>5, <2>6
<1> QED BY <1>4, <1>5

LEMMA RemovedSound ==
  ASSUME Typed, Typed', Sound, NEW d \in Dirs, NEW n \in Entries(d) \ Dots, RemoveEntry(d, n)
  PROVE  Sound'
<1>1. PICK i \in Inode : i = dirents[d][n]
  BY KidsType DEF Typed, TreeTypeOK
<1>2. /\ Dirs' = Dirs
      /\ \A e \in Dirs :
           /\ Entries(e)' = (Entries(e) \ (IF e \in Below(i) THEN Dots ELSE {}))
                            \ (IF e = d THEN {n} ELSE {})
           /\ \A m \in Entries(e)' : dirents'[e][m] = dirents[e][m]
      /\ size_' = [size_ EXCEPT ![d] = @ - 1]
  BY <1>1 DEF RemoveEntry, Without, Restrict, Dirs, Entries
<1>3. /\ Kids \in [Inode -> SUBSET Inode] /\ Dirs \subseteq Inode /\ Root \in Inode
      /\ Root \in Dirs
      /\ OneName /\ RootUnnamed /\ DotsLead /\ Sized /\ Severed
      /\ \A j \in Inode : Root \notin Kids[j]
      /\ \A j, k \in Inode : Kids[j] \cap Kids[k] # {} => j = k
  <2>1. OneName /\ RootUnnamed /\ DotsLead /\ Sized /\ Severed
    BY DEF Sound, ProperTree
  <2>2. \A j \in Inode : Root \notin Kids[j]
    BY <2>1 DEF RootUnnamed, Kids
  <2> QED BY <2>1, <2>2, KidsType, OneParent DEF Typed
<1>4. /\ Kids' \in [Inode -> SUBSET Inode]
      /\ i \in Kids[d] /\ Kids'[d] = Kids[d] \ {i}
      /\ \A j \in Inode \ {d} : Kids'[j] = Kids[j]
      /\ Live' = Live \ Below(i)
  BY <1>1, RemovedLive DEF Sound
<1>5. Live' \cap Below(i) = {} /\ Live' \subseteq Live /\ Live \subseteq Inode
  BY <1>3, <1>4, ReachClosed DEF Live, Below
<1>6. OneName'
  <2> SUFFICES ASSUME NEW e \in Dirs', NEW f \in Dirs',
                      NEW m \in Entries(e)' \ Dots, NEW o \in Entries(f)' \ Dots,
                      dirents'[e][m] = dirents'[f][o]
               PROVE  e = f /\ m = o
    BY DEF OneName
  <2>1. /\ e \in Dirs /\ f \in Dirs /\ m \in Entries(e) \ Dots /\ o \in Entries(f) \ Dots
        /\ dirents[e][m] = dirents[f][o]
    BY <1>2 DEF Entries
  <2> QED BY <1>3, <2>1 DEF OneName
<1>7. RootUnnamed'
  BY <1>2, <1>3, <1>4 DEF RootUnnamed
<1>8. ASSUME NEW e \in Live' \cap Dirs'
      PROVE  /\ Dots \subseteq Entries(e)'
             /\ dirents'[e]["."] = e
             /\ IF e = Root THEN dirents'[e][".."] = Root
                ELSE dirents'[e][".."] \in Live' /\ e \in Kids'[dirents'[e][".."]]
             /\ size_'[e] = Cardinality(Entries(e)')
  <2>1. e \in Live /\ e \in Dirs /\ e \notin Below(i)
    BY <1>2, <1>5
  <2>2. /\ Dots \subseteq Entries(e) /\ dirents[e]["."] = e
        /\ IF e = Root THEN dirents[e][".."] = Root
           ELSE dirents[e][".."] \in Live /\ e \in Kids[dirents[e][".."]]
        /\ size_[e] = Cardinality(Entries(e))
    BY <1>3, <2>1 DEF DotsLead, Sized
  <2>3. /\ Entries(e)' = Entries(e) \ (IF e = d THEN {n} ELSE {})
        /\ \A m \in Entries(e)' : dirents'[e][m] = dirents[e][m]
    BY <1>2, <2>1
  <2>4. Dots \subseteq Entries(e)'
    BY <2>2, <2>3
  <2>5. dirents'[e]["."] = dirents[e]["."] /\ dirents'[e][".."] = dirents[e][".."]
    BY <2>3, <2>4 DEF Dots
  <2>6. e = Root => dirents'[e][".."] = Root
    BY <2>2, <2>5
  <2>7. ASSUME e # Root
        PROVE  dirents[e][".."] \in Live' /\ e \in Kids'[dirents[e][".."]]
    <3>1. PICK k \in Reach(Kids', Root) : e \in Kids'[k]
      BY <1>3, <1>4, <2>7, ReachFrom DEF Live, Below
    <3>2. k \in Live' /\ k \in Inode
      BY <1>5, <3>1 DEF Live, Below
    <3>3. e \in Kids[k]
      BY <1>3, <1>4, <3>1, <3>2
    <3>4. dirents[e][".."] \in Inode /\ e \in Kids[dirents[e][".."]]
      BY <1>5, <2>2, <2>7
    <3>5. k = dirents[e][".."]
      BY <1>3, <3>2, <3>3, <3>4
    <3> QED BY <3>1, <3>2, <3>5
  <2>8. size_'[e] = Cardinality(Entries(e)')
    <3>1. /\ IsFiniteSet(Entries(e)) /\ size_[e] \in Nat /\ size_ \in [Dirs -> Nat]
          /\ Cardinality(Entries(e)) <= size_[e]
      BY <2>1 DEF Typed, TreeTypeOK
    <3>2. CASE e = d
      <4>1. size_[e] - 1 = Cardinality(Entries(e) \ {n})
        BY <2>2, <3>1, <3>2, CountLess
      <4>2. Entries(e)' = Entries(e) \ {n} /\ size_'[e] = size_[e] - 1
        BY <1>2, <2>1, <2>3, <3>1, <3>2
      <4> QED BY <4>1, <4>2
    <3>3. CASE e # d
      <4>1. Entries(e)' = Entries(e) /\ size_'[e] = size_[e]
        BY <1>2, <2>1, <2>3, <3>1, <3>3
      <4> QED BY <2>2, <4>1
    <3> QED BY <3>2, <3>3
  <2> QED BY <2>2, <2>4, <2>5, <2>6, <2>7, <2>8
<1>9. DotsLead' /\ Sized'
  BY <1>8 DEF DotsLead, Sized
<1>10. ASSUME NEW e \in Dirs' \ Live', NEW m \in Entries(e)'
       PROVE  dirents'[e][m] \notin Live'
  <2>1. /\ e \in Dirs /\ e \in Inode /\ m \in Entries(e)
        /\ dirents'[e][m] = dirents[e][m] /\ (e \in Below(i) => m \notin Dots)
    BY <1>2, <1>3, <1>10
  <2>2. CASE e \notin Live
    BY <1>3, <1>5, <2>1, <2>2 DEF Severed
  <2>3. CASE e \in Live
    <3>1. e \in Below(i) /\ dirents[e][m] \in Kids[e]
      BY <1>4, <1>10, <2>1, <2>3 DEF Kids
    <3>2. dirents[e][m] \in Below(i)
      BY <1>3, <3>1, ReachClosed DEF Below, Closed
    <3> QED BY <1>5, <2>1, <3>2
  <2> QED BY <2>2, <2>3
<1>11. Severed'
  BY <1>10 DEF Severed
<1> QED BY <1>6, <1>7, <1>9, <1>11 DEF Sound, ProperTree

\* What is written to a file, or made for nothing, leaves the tree as it is.
LEMMA KeptSound ==
  ASSUME Sound, UNCHANGED <<dirents, size_>>
  PROVE  Sound'
<1>1. Kids' = Kids /\ Dirs' = Dirs
  BY DEF Kids, Dirs, Entries
<1>2. Live' = Live
  BY <1>1 DEF Live, Below
<1> QED BY <1>1, <1>2 DEF Sound, ProperTree, OneName, RootUnnamed, DotsLead, Sized, Severed, Entries

LEMMA InitSound == Init => Sound
<1> SUFFICES ASSUME Init PROVE Sound
  OBVIOUS
<1>1. /\ dirents = [d \in {Root} |-> [n \in Dots |-> Root]]
      /\ size_ = [d \in {Root} |-> 2]
  BY DEF Init, TreeInit
<1>2. /\ Dirs = {Root} /\ Entries(Root) = Dots
      /\ dirents[Root]["."] = Root /\ dirents[Root][".."] = Root /\ size_[Root] = 2
  BY <1>1 DEF Dirs, Entries, Dots
<1>3. \A i \in Inode : Kids[i] = {}
  BY <1>2 DEF Kids
<1>4. OneName /\ RootUnnamed
  <2>1. OneName
    BY <1>2 DEF OneName
  <2>2. Root \in Inode
    BY InitTyped, KidsType DEF Typed
  <2> QED BY <1>2, <1>3, <2>1, <2>2 DEF RootUnnamed
<1>5. Live \cap Dirs \subseteq {Root}
  BY <1>2
<1>6. DotsLead /\ Sized
  BY <1>2, <1>5, DotsFinite DEF DotsLead, Sized
<1>7. Severed
  <2>1. Root \in Live
    BY InitTyped, LiveType DEF Typed
  <2> QED BY <1>2, <2>1 DEF Severed
<1> QED BY <1>4, <1>6, <1>7 DEF Sound, ProperTree

------------------------------------------------------------------------------
(* The commands. *)

IInv ==
  /\ Typed
  /\ TypeOK
  /\ sh # "exited" => Sound

LEMMA InitIInv == Init => IInv
<1> SUFFICES ASSUME Init PROVE IInv
  OBVIOUS
<1>1. Typed /\ Sound
  BY InitTyped, InitSound
<1>2. TypeOK
  BY <1>1 DEF Init, TypeOK, Typed
<1> QED BY <1>1, <1>2 DEF IInv

\* Commands that read, and those that fail.
LEMMA ReadsKeeps ==
  ASSUME IInv, NEW outcome, Reads(outcome), sh = "running"
  PROVE  IInv'
<1>1. /\ UNCHANGED <<next_inode_nr, dirents, size_, data, cwd>>
      /\ sh' \in Ends \union {"running"} /\ exit_status' \in ExitCodes \union {0, 1}
  BY DEF Reads, Report, tree, IInv, TypeOK, Ends
<1>2. Typed' /\ (Dirs' = Dirs) /\ TreeTypeOK'
  BY <1>1 DEF IInv, Typed, TreeTypeOK, Dirs, Files, Entries
<1>3. Sound'
  BY <1>1, KeptSound DEF IInv
<1> QED BY <1>1, <1>2, <1>3 DEF IInv, TypeOK

\* Commands that change the tree, and leave the shell running where it is.
LEMMA ChangeKeeps ==
  ASSUME IInv, sh = "running", Typed', Sound', NEW outcome \in {"ok", "error"},
         Report(outcome), cwd' = cwd, Dirs \subseteq Dirs'
  PROVE  IInv'
<1>1. sh' = sh /\ exit_status' \in ExitCodes \union {0, 1} /\ cwd' \in Dirs'
  BY DEF Report, Ends, IInv, TypeOK
<1> QED BY <1>1 DEF IInv, TypeOK, Typed

\* An inode for nothing, or for what is written over.
LEMMA SpentKeeps ==
  ASSUME IInv, sh = "running", NewInode, UNCHANGED <<dirents, size_>>,
         data' \in [Files -> Texts], NEW outcome \in {"ok", "error"},
         Report(outcome), cwd' = cwd
  PROVE  IInv'
<1>1. Dirs' = Dirs /\ Files' = Files
  BY DEF Dirs, Files
<1>2. next_inode_nr \in Nat /\ next_inode_nr' = next_inode_nr + 1
      /\ next_inode_nr' \in 2 .. MaxInode + 1
  BY MaxInodeAssumption DEF NewInode, IInv, Typed, TreeTypeOK
<1>3. Typed'
  <2>1. Dirs' \subseteq 1 .. next_inode_nr' - 1 /\ Files' \subseteq 1 .. next_inode_nr' - 1
    BY <1>1, <1>2 DEF IInv, Typed, TreeTypeOK
  <2> QED BY <1>1, <1>2, <2>1 DEF IInv, Typed, TreeTypeOK, Entries
<1>4. Sound'
  BY KeptSound DEF IInv
<1> QED BY <1>1, <1>3, <1>4, ChangeKeeps

\* An operand with a name in it has a part.
LEMMA OperandParts ==
  ASSUME NEW p \in Operands
  PROVE  /\ p.parts \in Seq(Names \union Dots)
         /\ p \notin {Slash, Slashes} => p.parts # <<>>
<1>1. <<>> \in Seq(Names \union Dots)
  BY EmptySeq
<1>2. p \in [slashes : {0, 1}, parts : Paths] => p.parts \in Paths
  OBVIOUS
<1>3. p \in {Slash, Slashes} => p.parts = <<>>
  BY DEF Slash, Slashes, Operand
<1>4. p \in [slashes : {0, 1}, parts : Paths] \/ p \in {Slash, Slashes}
  BY DEF Operands
<1>5. \A parts \in Paths : parts \in Seq(Names \union Dots) /\ parts # <<>>
  BY PathsAssumption
<1> QED BY <1>1, <1>2, <1>3, <1>4, <1>5

\* The last part of an operand is a name, and its entry, if there is none, is new.
LEMMA LastName ==
  ASSUME NEW p \in Operands, ~NoName(p)
  PROVE  Last(p.parts) \in Names \union Dots
<1>1. p.parts \in Seq(Names \union Dots) /\ p.parts # <<>>
  BY OperandParts DEF NoName
<1> QED BY <1>1 DEF Last

LEMMA NotFound ==
  ASSUME Typed, NEW d \in Dirs, NEW n, Find(d, n) = Null
  PROVE  n \notin Entries(d)
BY DEF Find, Null, Typed, TreeTypeOK

LEMMA FreshInode ==
  ASSUME Typed, NewInode
  PROVE  next_inode_nr \in Inode /\ next_inode_nr \notin Dirs \union Files
BY MaxInodeAssumption DEF Typed, TreeTypeOK, NewInode, Inode

LEMMA MakeKeeps ==
  ASSUME IInv, sh = "running", NEW p \in Operands, NEW text \in Texts, Make(p, text)
  PROVE  IInv'
<1> DEFINE d == ParentOf(p)
           i == Find(d, Last(p.parts))
<1>1. Last(p.parts) \in Names \union Dots
  BY LastName DEF Make
<1>2. CASE d \notin Dirs
  <2>1. Reads("error")
    BY <1>2 DEF Make, Fails, Reads
  <2> QED BY <2>1, ReadsKeeps
<1>3. CASE d \in Dirs /\ i = Null
  <2>0. Null \notin Files /\ Null \notin Dirs
    BY DEF IInv, Typed, TreeTypeOK, Null
  <2>1. NewFile(d, Last(p.parts), text) /\ Report(IF i \in Dirs THEN "error" ELSE "ok") /\ cwd' = cwd
    BY <1>3, <2>0 DEF Make
  <2>2. Last(p.parts) \notin Entries(d) /\ Typed /\ Sound
    BY <1>3, NotFound DEF IInv
  <2>3. Typed' /\ Dirs' = Dirs /\ Added(d, Last(p.parts))
    BY <1>1, <1>3, <2>1, <2>2, NewFileTyped
  <2>4. next_inode_nr \in Inode /\ next_inode_nr \notin Dirs \union Files
    BY <2>1, <2>2, FreshInode DEF NewFile
  <2>5. Sound'
    BY <1>3, <2>2, <2>3, <2>4, AddedSound
  <2> QED BY <2>1, <2>3, <2>5, ChangeKeeps
<1>4. CASE d \in Dirs /\ i # Null /\ i \in Files
  <2>1. WriteFile(i, text) /\ Report(IF i \in Dirs THEN "error" ELSE "ok") /\ cwd' = cwd
    BY <1>4 DEF Make
  <2>2. NewInode /\ UNCHANGED <<dirents, size_>> /\ data' \in [Files -> Texts]
    BY <2>1 DEF WriteFile, IInv, Typed, TreeTypeOK
  <2> QED BY <2>1, <2>2, SpentKeeps
<1>5. CASE d \in Dirs /\ i # Null /\ i \notin Files
  <2>1. /\ NewInode /\ UNCHANGED <<dirents, size_, data>>
        /\ Report(IF i \in Dirs THEN "error" ELSE "ok") /\ cwd' = cwd
    BY <1>5 DEF Make
  <2>2. data' \in [Files -> Texts]
    BY <2>1 DEF IInv, Typed, TreeTypeOK
  <2> QED BY <2>1, <2>2, SpentKeeps
<1> QED BY <1>2, <1>3, <1>4, <1>5

LEMMA MkdirKeeps ==
  ASSUME IInv, sh = "running", NEW p \in Operands, Mkdir(p)
  PROVE  IInv'
<1> DEFINE d == ParentOf(p)
           i == Find(d, Last(p.parts))
<1>1. Last(p.parts) \in Names \union Dots
  BY LastName DEF Mkdir
<1>2. CASE d \notin Dirs
  <2>1. Reads("error")
    BY <1>2 DEF Mkdir, Fails, Reads
  <2> QED BY <2>1, ReadsKeeps
<1>3. CASE d \in Dirs /\ i = Null
  <2>1. NewDirectory(d, Last(p.parts)) /\ Report("ok") /\ cwd' = cwd
    BY <1>3 DEF Mkdir
  <2>2. Last(p.parts) \notin Entries(d) /\ Typed /\ Sound
    BY <1>3, NotFound DEF IInv
  <2>3. /\ Typed' /\ Dirs' = Dirs \union {next_inode_nr} /\ Added(d, Last(p.parts))
        /\ dirents'[next_inode_nr] = [m \in Dots |-> IF m = "." THEN next_inode_nr ELSE d]
        /\ size_'[next_inode_nr] = 2
    BY <1>1, <1>3, <2>1, <2>2, NewDirectoryTyped
  <2>4. next_inode_nr \in Inode /\ next_inode_nr \notin Dirs \union Files
    BY <2>1, <2>2, FreshInode DEF NewDirectory
  <2>5. Sound'
    BY <1>3, <2>2, <2>3, <2>4, AddedSound
  <2> QED BY <2>1, <2>3, <2>5, ChangeKeeps
<1>4. CASE d \in Dirs /\ i # Null
  <2>1. NewInode /\ UNCHANGED <<dirents, size_, data>> /\ Report("error") /\ cwd' = cwd
    BY <1>4 DEF Mkdir
  <2>2. data' \in [Files -> Texts]
    BY <2>1 DEF IInv, Typed, TreeTypeOK
  <2> QED BY <2>1, <2>2, SpentKeeps
<1> QED BY <1>2, <1>3, <1>4

\* Both rm and rmr: what find_name finds is never . or ..
LEMMA RemoveFromKeeps ==
  ASSUME IInv, sh = "running", NEW d, NEW i, RemoveFrom(d, i)
  PROVE  IInv'
<1>1. CASE d \notin Dirs \/ FindName(d, i) = {} \/ Fails
  <2>1. Reads("error")
    BY <1>1 DEF RemoveFrom, Fails, Reads
  <2> QED BY <2>1, ReadsKeeps
<1>2. CASE d \in Dirs /\ FindName(d, i) # {} /\ ~Fails
  <2>1. PICK n \in FindName(d, i) :
          n \in Entries(d) /\ RemoveEntry(d, n) /\ Report("ok") /\ cwd' = cwd
    BY <1>2 DEF RemoveFrom
  <2>2. n \notin Dots
    BY <2>1 DEF FindName
  <2>3. Typed /\ Sound
    BY DEF IInv
  <2>4. Typed' /\ Dirs' = Dirs
    BY <1>2, <2>1, <2>3, RemoveEntryTyped
  <2>5. Sound'
    BY <1>2, <2>1, <2>2, <2>3, <2>4, RemovedSound
  <2> QED BY <2>1, <2>4, <2>5, ChangeKeeps
<1> QED BY <1>1, <1>2

LEMMA RemovalKeeps ==
  ASSUME IInv, sh = "running", NEW p \in Operands, Rm(p) \/ Rmr(p)
  PROVE  IInv'
<1>1. CASE Fails
  <2>1. Reads("error")
    BY <1>1 DEF Fails, Reads
  <2> QED BY <2>1, ReadsKeeps
<1>2. CASE ~Fails
  <2>1. RemoveFrom(ParentOf(p), Target(p))
    BY <1>2 DEF Rm, Rmr
  <2> QED BY <2>1, RemoveFromKeeps
<1> QED BY <1>1, <1>2

LEMMA EnterKeeps ==
  ASSUME IInv, sh = "running", NEW d \in Dirs, Enter(d)
  PROVE  IInv'
<1>1. /\ UNCHANGED <<next_inode_nr, dirents, size_, data>> /\ cwd' = d
      /\ sh' = sh /\ exit_status' = exit_status
  BY DEF Enter, Report, tree, Ends
<1>2. Typed' /\ Dirs' = Dirs
  BY <1>1 DEF IInv, Typed, TreeTypeOK, Dirs, Files, Entries
<1>3. Sound'
  BY <1>1, KeptSound DEF IInv
<1> QED BY <1>1, <1>2, <1>3 DEF IInv, TypeOK, Typed

LEMMA ExitKeeps ==
  ASSUME IInv, NEW status \in ExitCodes \union {exit_status}, Exit(status)
  PROVE  IInv'
<1>1. Typed' /\ Dirs' = Dirs
  BY DisownTyped DEF Exit, IInv
<1> QED BY <1>1 DEF Exit, IInv, TypeOK, Typed, Ends

LEMMA NextKeeps == IInv /\ [Next]_vars => IInv'
<1> SUFFICES ASSUME IInv, [Next]_vars PROVE IInv'
  OBVIOUS
<1>1. CASE UNCHANGED vars
  <2>1. /\ UNCHANGED <<next_inode_nr, dirents, size_, data>>
        /\ UNCHANGED <<cwd, exit_status, sh>>
    BY <1>1 DEF vars, tree
  <2>2. Typed' /\ Dirs' = Dirs
    BY <2>1 DEF IInv, Typed, TreeTypeOK, Dirs, Files, Entries
  <2>3. sh # "exited" => Sound'
    BY <2>1, KeptSound DEF IInv
  <2> QED BY <2>1, <2>2, <2>3 DEF IInv, TypeOK, Typed
<1>2. CASE sh = "running" /\ Command
  <2>1. CASE \E p \in Operands : Rm(p) \/ Rmr(p)
    BY <1>2, <2>1, RemovalKeeps
  <2>2. CASE \E p \in Operands : Mkdir(p)
    BY <1>2, <2>2, MkdirKeeps
  <2>3. CASE \E p \in Operands, text \in Texts : Make(p, text)
    BY <1>2, <2>3, MakeKeeps
  <2>4. CASE CdRoot \/ \E p \in Operands \ {Slash} : Cd(p)
    <3>1. Root \in Dirs
      BY DEF IInv, Typed
    <3>2. (\E d \in Dirs : Enter(d)) \/ Reads("error")
      BY <2>4, <3>1 DEF CdRoot, Cd, Fails, Reads
    <3> QED BY <1>2, <3>2, EnterKeeps, ReadsKeeps
  <2>5. CASE \E status \in ExitCodes \union {exit_status} : Exit(status)
    BY <2>5, ExitKeeps
  <2>6. CASE \/ \E p \in Operands : Cat(p) \/ Ls(p) \/ Lsr(p)
             \/ Pwd \/ LsHere \/ LsRoot \/ LsrHere \/ LsrRoot
             \/ BadCommand
    <3>1. \E outcome : Reads(outcome)
      BY <2>6 DEF Cat, Ls, Lsr, Pwd, LsHere, LsRoot, LsrHere, LsrRoot, BadCommand, Fails, Reads
    <3> QED BY <1>2, <3>1, ReadsKeeps
  <2> QED BY <1>2, <2>1, <2>2, <2>3, <2>4, <2>5, <2>6 DEF Command
<1>3. CASE sh = "running" /\ Malformed
  <2>1. \E outcome : Reads(outcome)
    BY <1>3 DEF Malformed
  <2> QED BY <1>3, <2>1, ReadsKeeps
<1> QED BY <1>1, <1>2, <1>3 DEF Next

LEMMA Invariance == Spec => []IInv
BY InitIInv, NextKeeps, PTL DEF Spec

\* The types hold in every state, for every number of inodes.
THEOREM TypeCorrect == Spec => []TypeOK
<1>1. IInv => TypeOK
  BY DEF IInv
<1> QED BY <1>1, Invariance, PTL

\* Whatever is made and removed, from wherever, the tree remains a tree: no inode
\* has two names, . and .. lead where they should, and nothing in it is disowned.
THEOREM TreeRemains == Spec => []TreeStands
<1>1. IInv => TreeStands
  BY DEF IInv, TreeStands, Sound
<1> QED BY <1>1, Invariance, PTL

\* The size that is counted up and down is the number of entries: what rm takes for
\* an empty directory is empty.
THEOREM SizesRemain == Spec => []SizesAgree
<1>1. IInv => SizesAgree
  BY DEF IInv, SizesAgree, Sound, Sized
<1> QED BY <1>1, Invariance, PTL

LEMMA SilenceIsSuccess ==
  ASSUME IInv, NEW p \in Operands, Mkdir(p) \/ Rm(p) \/ Rmr(p), dirents' = dirents
  PROVE  exit_status' = 1
<1>1. CASE Fails
  BY <1>1 DEF Fails, Report
<1>2. CASE Mkdir(p) /\ ~Fails
  <2> DEFINE d == ParentOf(p)
             i == Find(d, Last(p.parts))
  <2>1. CASE i = Null
    <3>1. NewDirectory(d, Last(p.parts))
      BY <1>2, <2>1 DEF Mkdir
    <3>2. next_inode_nr \in DOMAIN dirents'
      BY <3>1 DEF NewDirectory, WithEntry
    <3>3. next_inode_nr \notin Dirs
      BY DEF IInv, Typed, TreeTypeOK
    <3> QED BY <3>2, <3>3 DEF Dirs
  <2>2. CASE i # Null
    <3>1. Report("error")
      BY <1>2, <2>2 DEF Mkdir
    <3> QED BY <3>1 DEF Report
  <2> QED BY <2>1, <2>2
<1>3. CASE (Rm(p) \/ Rmr(p)) /\ ~Fails
  <2> DEFINE d == ParentOf(p)
  <2>1. RemoveFrom(d, Target(p))
    BY <1>3 DEF Rm, Rmr
  <2>2. PICK n : d \in Dirs /\ n \in Entries(d) /\ RemoveEntry(d, n)
    BY <1>3, <2>1 DEF RemoveFrom
  <2> HIDE DEF d
  <2>3. DOMAIN dirents'[d] =
          (Entries(d) \ (IF d \in Below(dirents[d][n]) THEN Dots ELSE {})) \ {n}
    BY <2>2 DEF RemoveEntry, Without, Restrict
  <2> QED BY <2>2, <2>3 DEF Entries
<1> QED BY <1>1, <1>2, <1>3

\* mkdir, rm and rmr make or remove an entry, or say by the exit status that they did not.
THEOREM FailuresAreTold == Spec => FailuresTell
<1>1. IInv /\ [Next]_vars
      => [dirents' = dirents /\ exit_status' # 1 =>
            \A p \in Operands : ~(Mkdir(p) \/ Rm(p) \/ Rmr(p))]_vars
  BY SilenceIsSuccess
<1> QED BY <1>1, Invariance, PTL DEF Spec, FailuresTell
------------------------------------------------------------------------------
(* Where paths lead. *)

LEMMA Upwards ==
  ASSUME NEW S, 0 \in S, \A k \in Nat : k \in S => k + 1 \in S
  PROVE  Nat \subseteq S
<1> SUFFICES ASSUME NEW n \in Nat \ S PROVE FALSE
  OBVIOUS
<1>1. \E m \in Nat \ S : \A k \in Nat \ S : ~(<<k, m>> \in OpToRel(<, Nat))
  BY NatLessThanWellFounded, WFMin
<1>2. PICK m \in Nat \ S : \A k \in Nat \ S : ~(k < m)
  BY <1>1 DEF OpToRel
<1>3. m # 0 /\ m - 1 \in Nat \ S => FALSE
  BY <1>2
<1>4. m # 0 /\ m - 1 \in Nat
  BY <1>2
<1> QED BY <1>2, <1>3, <1>4

\* The inodes that Walk comes to.
IsWay(at, i, parts) ==
  at = [k \in 0 .. Len(parts) |-> IF k = 0 THEN i ELSE Find(at[k - 1], parts[k])]

Way(i, parts) == CHOOSE at : IsWay(at, i, parts)

LEMMA WayExists ==
  ASSUME NEW i, NEW parts, Len(parts) \in Nat
  PROVE  IsWay(Way(i, parts), i, parts)
<1> DEFINE Partly(n, f) == f = [k \in 0 .. n |-> IF k = 0 THEN i ELSE Find(f[k - 1], parts[k])]
           S == {n \in Nat : \E f : Partly(n, f)}
<1>1. 0 \in S
  <2> DEFINE f == [k \in 0 .. 0 |-> i]
  <2>1. f = [k \in 0 .. 0 |-> IF k = 0 THEN i ELSE Find(f[k - 1], parts[k])]
    OBVIOUS
  <2> HIDE DEF f
  <2>2. \E g : Partly(0, g)
    BY <2>1
  <2> QED BY <2>2
<1>2. ASSUME NEW n \in Nat, n \in S PROVE n + 1 \in S
  <2>1. PICK f : Partly(n, f)
    BY <1>2
  <2> DEFINE g == [k \in 0 .. n + 1 |-> IF k = n + 1 THEN Find(f[n], parts[k]) ELSE f[k]]
  <2>2. ASSUME NEW k \in 0 .. n + 1
        PROVE  g[k] = IF k = 0 THEN i ELSE Find(g[k - 1], parts[k])
    <3>1. CASE k = n + 1
      BY <3>1
    <3>2. CASE k # n + 1
      <4>1. k \in 0 .. n /\ g[k] = f[k] /\ (k # 0 => g[k - 1] = f[k - 1])
        BY <3>2
      <4>2. f[k] = IF k = 0 THEN i ELSE Find(f[k - 1], parts[k])
        BY <2>1, <4>1
      <4> QED BY <4>1, <4>2
    <3> QED BY <3>1, <3>2
  <2>3. g = [k \in 0 .. n + 1 |-> g[k]]
    OBVIOUS
  <2> HIDE DEF g
  <2>4. g = [k \in 0 .. n + 1 |-> IF k = 0 THEN i ELSE Find(g[k - 1], parts[k])]
    BY <2>2, <2>3
  <2>5. \E h : Partly(n + 1, h)
    BY <2>4
  <2> QED BY <2>5
<1>3. Len(parts) \in S
  <2> HIDE DEF S
  <2> QED BY <1>1, <1>2, Upwards
<1>4. \E f : IsWay(f, i, parts)
  BY <1>3 DEF IsWay
<1> QED BY <1>4 DEF Way

LEMMA FrontType ==
  ASSUME NEW X, NEW parts \in Seq(X), parts # <<>>
  PROVE  /\ Front(parts) \in Seq(X) /\ Last(parts) \in X
         /\ Len(parts) \in Nat \ {0} /\ Len(Front(parts)) = Len(parts) - 1
         /\ \A k \in 1 .. Len(parts) - 1 : Front(parts)[k] = parts[k]
<1> DEFINE n == Len(parts) - 1
<1>1. n \in Nat /\ \A k \in 1 .. n : parts[k] \in X
  OBVIOUS
<1>2. /\ SubSeq(parts, 1, n) \in Seq(X)
      /\ Len(SubSeq(parts, 1, n)) = IF 1 <= n THEN n - 1 + 1 ELSE 0
      /\ \A k \in 1 .. n - 1 + 1 : SubSeq(parts, 1, n)[k] = parts[1 + k - 1]
  BY <1>1, SubSeqProperties, Z3
<1> HIDE DEF n
<1>3. Len(SubSeq(parts, 1, n)) = n
  BY <1>1, <1>2
<1>4. ASSUME NEW k \in 1 .. n PROVE SubSeq(parts, 1, n)[k] = parts[k]
  <2>1. k \in 1 .. n - 1 + 1 /\ 1 + k - 1 = k
    BY <1>1
  <2> QED BY <1>2, <2>1
<1>5. Last(parts) \in X /\ Len(parts) \in Nat \ {0}
  BY DEF Last
<1> QED BY <1>2, <1>3, <1>4, <1>5 DEF Front, n

\* Walk ends where the last entry leads from where it has come without it.
LEMMA WalkLast ==
  ASSUME NEW i, NEW X, NEW parts \in Seq(X), parts # <<>>
  PROVE  Walk(i, parts) = Find(Walk(i, Front(parts)), Last(parts))
<1> DEFINE n == Len(parts)
           f == Way(i, parts)
           g == Way(i, Front(parts))
           S == {k \in Nat : k <= n - 1 => f[k] = g[k]}
<1>1. n \in Nat \ {0} /\ Len(Front(parts)) = n - 1
      /\ \A k \in 1 .. n - 1 : Front(parts)[k] = parts[k]
  BY FrontType
<1>2. Walk(i, parts) = f[n] /\ Walk(i, Front(parts)) = g[n - 1]
  BY <1>1 DEF Walk, Way, IsWay
<1>3. \A k \in 0 .. n : f[k] = IF k = 0 THEN i ELSE Find(f[k - 1], parts[k])
  BY <1>1, WayExists DEF IsWay
<1>4. \A k \in 0 .. n - 1 : g[k] = IF k = 0 THEN i ELSE Find(g[k - 1], Front(parts)[k])
  BY <1>1, WayExists DEF IsWay
<1> HIDE DEF f, g
<1>5. 0 \in S
  BY <1>1, <1>3, <1>4
<1>6. ASSUME NEW k \in Nat, k \in S PROVE k + 1 \in S
  <2>1. CASE k + 1 <= n - 1
    <3>1. f[k] = g[k] /\ k + 1 \in 0 .. n /\ k + 1 \in 0 .. n - 1 /\ k + 1 \in 1 .. n - 1
      BY <1>1, <1>6, <2>1
    <3>2. f[k + 1] = Find(f[k], parts[k + 1]) /\ g[k + 1] = Find(g[k], parts[k + 1])
      BY <1>1, <1>3, <1>4, <3>1
    <3> QED BY <3>1, <3>2
  <2>2. CASE ~(k + 1 <= n - 1)
    BY <2>2
  <2> QED BY <2>1, <2>2
<1>7. n - 1 \in S
  <2> HIDE DEF S
  <2> QED BY <1>1, <1>5, <1>6, Upwards
<1>8. f[n - 1] = g[n - 1]
  BY <1>1, <1>7
<1>9. f[n] = Find(f[n - 1], parts[n])
  BY <1>1, <1>3
<1> QED BY <1>2, <1>8, <1>9 DEF Last

LEMMA WalkNowhere == ASSUME NEW i PROVE Walk(i, <<>>) = i
<1>1. Len(<<>>) = 0
  OBVIOUS
<1>2. IsWay(Way(i, <<>>), i, <<>>)
  BY <1>1, WayExists
<1>3. Way(i, <<>>)[0] = i
  BY <1>1, <1>2 DEF IsWay
<1> QED BY <1>1, <1>3 DEF Walk, Way, IsWay
------------------------------------------------------------------------------
(* What rm and rmr take away. *)

\* Nothing below an inode of the tree leads back to it.
LEMMA NoCycle ==
  ASSUME NEW kids \in [Inode -> SUBSET Inode], NEW r \in Inode,
         \A j \in Inode : r \notin kids[j],
         \A j, k \in Inode : kids[j] \cap kids[k] # {} => j = k,
         NEW d \in Reach(kids, r), NEW p \in Inode, d \in kids[p]
  PROVE  p \notin Reach(kids, d)
<1> SUFFICES ASSUME p \in Reach(kids, d) PROVE FALSE
  OBVIOUS
<1>1. d \in Inode /\ d # r
  BY ReachClosed
<1> DEFINE S == Inode \ Reach(kids, d)
<1>2. r \notin Reach(kids, d)
  BY <1>1, ReachClosed, ReachFrom
<1>3. Closed(kids, S)
  <2> SUFFICES ASSUME NEW j \in S, NEW k \in kids[j], k \in Reach(kids, d) PROVE FALSE
    BY DEF Closed
  <2>1. PICK l \in Reach(kids, d) : k \in kids[l]
    BY <1>1, ReachFrom
  <2>2. l \in Inode /\ l = j
    BY <1>1, <2>1, ReachClosed
  <2> QED BY <2>1, <2>2
<1>4. S \in SUBSET Inode /\ r \in S
  BY <1>2
<1>5. Reach(kids, r) \subseteq S
  <2> HIDE DEF S
  <2> QED BY <1>3, <1>4, ReachLeast
<1> QED BY <1>1, <1>5, ReachClosed

\* Nothing below an inode that is not in the tree is in it.
LEMMA Apart ==
  ASSUME NEW kids \in [Inode -> SUBSET Inode], NEW r \in Inode,
         \A j \in Inode : r \notin kids[j],
         \A j, k \in Inode : kids[j] \cap kids[k] # {} => j = k,
         NEW t \in Inode, t \notin Reach(kids, r)
  PROVE  Reach(kids, t) \cap Reach(kids, r) = {}
<1> DEFINE S == Reach(kids, r) \ Reach(kids, t)
<1>1. r \in Reach(kids, r) /\ Reach(kids, r) \subseteq Inode /\ Closed(kids, Reach(kids, r))
  BY ReachClosed
<1>2. r \notin Reach(kids, t)
  BY <1>1, ReachClosed, ReachFrom
<1>3. Closed(kids, S)
  <2> SUFFICES ASSUME NEW j \in S, NEW k \in kids[j] PROVE k \notin Reach(kids, t) /\ k \in Reach(kids, r)
    BY DEF Closed
  <2>1. k \in Reach(kids, r)
    BY <1>1 DEF Closed
  <2>2. ASSUME k \in Reach(kids, t) PROVE FALSE
    <3>1. PICK l \in Reach(kids, t) : k \in kids[l]
      BY <2>1, <2>2, ReachFrom
    <3>2. l = j
      BY <1>1, <3>1, ReachClosed
    <3> QED BY <3>1, <3>2
  <2> QED BY <2>1, <2>2
<1>4. S \in SUBSET Inode /\ r \in S
  BY <1>1, <1>2
<1>5. Reach(kids, r) \subseteq S
  <2> HIDE DEF S
  <2> QED BY <1>3, <1>4, ReachLeast
<1> QED BY <1>5

\* The kids of the tree are as the lemmas on Reach want them.
LEMMA TreeKids ==
  ASSUME Typed, ProperTree
  PROVE  /\ Kids \in [Inode -> SUBSET Inode] /\ Root \in Inode /\ Dirs \union Files \subseteq Inode
         /\ \A j \in Inode : Root \notin Kids[j]
         /\ \A j, k \in Inode : Kids[j] \cap Kids[k] # {} => j = k
         /\ Root \in Live /\ Live \subseteq Dirs \union Files /\ Closed(Kids, Live)
<1>1. \A j \in Inode : Root \notin Kids[j]
  BY DEF ProperTree, RootUnnamed, Kids
<1> QED BY <1>1, KidsType, LiveType, OneParent DEF Typed, ProperTree

LEMMA LooseBelow ==
  ASSUME Typed, ProperTree, NEW t \in Inode, t \notin Live
  PROVE  Below(t) \cap Live = {}
BY TreeKids, Apart DEF Below, Live

LEMMA NoCycleBelow ==
  ASSUME Typed, ProperTree, NEW d \in Live, NEW i \in Inode, d \in Kids[i]
  PROVE  i \notin Below(d)
BY TreeKids, NoCycle DEF Below, Live

\* What an operand names is the directory itself, or an entry of its parent.
LEMMA TargetAndParent ==
  ASSUME IInv, NEW p \in Operands, p # Slashes, Target(p) # Null, ParentOf(p) \in Dirs
  PROVE  \/ Target(p) = ParentOf(p)
         \/ \E m \in Entries(ParentOf(p)) : Target(p) = dirents[ParentOf(p)][m]
<1>1. CASE p = Slash
  BY <1>1 DEF Target, ParentOf
<1>2. CASE p # Slash
  <2>1. p.parts \in Seq(Names \union Dots) /\ p.parts # <<>>
    BY <1>2, OperandParts
  <2>2. Walk(cwd, p.parts) = Find(Walk(cwd, Front(p.parts)), Last(p.parts))
    BY <2>1, WalkLast
  <2> QED BY <1>2, <2>2 DEF Target, ParentOf, Find
<1> QED BY <1>1, <1>2

\* The entry that find_name finds is the one that the operand names, if it is looked for
\* in the tree.
LEMMA FoundIsNamed ==
  ASSUME Typed, ProperTree, NEW d \in Live \cap Dirs, NEW i \in Inode,
         i = d \/ \E m \in Entries(d) : i = dirents[d][m],
         NEW n \in FindName(d, i), n \in Entries(d)
  PROVE  dirents[d][n] = i
<1>1. CASE \E m \in Entries(d) \ Dots : dirents[d][m] = i
  BY <1>1 DEF FindName
<1>2. CASE ~\E m \in Entries(d) \ Dots : dirents[d][m] = i
  <2>1. PICK e \in Below(d) \cap Dirs : n \in Entries(e) \ Dots /\ dirents[e][n] = i
    BY <1>2 DEF FindName
  <2>2. e \in Inode /\ d \in Inode /\ i \in Kids[e]
    BY <2>1, TreeKids DEF Kids
  <2>3. i # Root
    BY <2>2, TreeKids
  <2>4. i \in Below(d)
    BY <2>1, <2>2, TreeKids, ReachClosed DEF Below, Closed
  <2>5. CASE i = d
    BY <2>1, <2>2, <2>5, NoCycleBelow
  <2>6. CASE i # d
    <3>1. PICK m \in Entries(d) \cap Dots : i = dirents[d][m]
      BY <1>2, <2>6
    <3>2. dirents[d]["."] = d /\ (d # Root => d \in Kids[dirents[d][".."]])
          /\ (d = Root => dirents[d][".."] = Root)
      BY DEF ProperTree, DotsLead
    <3>3. i = dirents[d][".."] /\ d \in Kids[i]
      BY <2>3, <2>6, <3>1, <3>2 DEF Dots
    <3> QED BY <2>4, <3>3, NoCycleBelow
  <2> QED BY <2>5, <2>6
<1> QED BY <1>1, <1>2

LEMMA RemovalLoses ==
  ASSUME IInv, IInv', sh = "running", NEW p \in Operands, Rm(p) \/ Rmr(p), dirents' # dirents
  PROVE  /\ Target(p) \in Inode /\ Live' = Live \ Below(Target(p))
<1> DEFINE d == ParentOf(p)
           i == Target(p)
<1>1. ~Fails /\ p # Slashes /\ i # Null /\ RemoveFrom(d, i)
  BY DEF Rm, Rmr, Fails, tree
<1>2. PICK n \in FindName(d, i) : d \in Dirs /\ n \in Entries(d) /\ RemoveEntry(d, n)
  BY <1>1 DEF RemoveFrom
<1>3. /\ Typed /\ Typed' /\ Sound /\ ProperTree /\ Severed
      /\ d \in Inode /\ n \in Entries(d) \ Dots
  <2>1. Typed /\ Typed' /\ Sound
    BY DEF IInv
  <2> QED BY <1>2, <2>1, TreeKids DEF Sound, FindName
<1>4. i = d \/ \E m \in Entries(d) : i = dirents[d][m]
  BY <1>1, <1>2, TargetAndParent
<1>5. i \in Inode /\ dirents[d][n] \in Inode
  BY <1>2, <1>3, <1>4, TreeKids DEF Typed, TreeTypeOK
<1> HIDE DEF d, i
<1>6. Live' = Live \ Below(dirents[d][n])
  BY <1>2, <1>3, <1>5, RemovedLive
<1>7. CASE d \in Live
  <2>1. dirents[d][n] = i
    BY <1>2, <1>3, <1>4, <1>5, <1>7, FoundIsNamed
  <2> QED BY <1>5, <1>6, <2>1 DEF i
<1>8. CASE d \notin Live
  <2>1. i \notin Live /\ dirents[d][n] \notin Live
    BY <1>2, <1>3, <1>4, <1>8 DEF Severed
  <2>2. Below(i) \cap Live = {} /\ Below(dirents[d][n]) \cap Live = {}
    BY <1>3, <1>5, <2>1, LooseBelow
  <2> QED BY <1>5, <1>6, <2>2 DEF i
<1> QED BY <1>7, <1>8

LEMMA Childless ==
  ASSUME NEW kids \in [Inode -> SUBSET Inode], NEW i \in Inode, kids[i] = {}
  PROVE  Reach(kids, i) = {i}
<1>1. Closed(kids, {i}) /\ {i} \in SUBSET Inode
  BY DEF Closed
<1> QED BY <1>1, ReachLeast, ReachClosed

\* What rm takes out of the tree has no kids.
LEMMA RmLoses ==
  ASSUME IInv, IInv', sh = "running", NEW p \in Operands, Rm(p), dirents' # dirents
  PROVE  Cardinality(Live \ Live') <= 1
<1> DEFINE i == Target(p)
<1>1. i \in Inode /\ Live' = Live \ Below(i)
  BY RemovalLoses
<1>2. i \in Dirs => size_[i] = 2
  <2>1. ~Fails
    BY DEF Fails, tree
  <2> QED BY <2>1 DEF Rm
<1>3. Typed /\ ProperTree /\ Sized
  BY DEF IInv, Sound
<1> HIDE DEF i
<1>4. ASSUME i \in Live PROVE Kids[i] = {}
  <2>1. CASE i \in Files
    BY <1>1, <1>3, <2>1 DEF Kids, Typed, TreeTypeOK
  <2>2. CASE i \in Dirs
    <3>1. /\ Dots \subseteq Entries(i) /\ Cardinality(Entries(i)) = 2
          /\ IsFiniteSet(Entries(i))
      BY <1>2, <1>3, <1>4, <2>2 DEF ProperTree, DotsLead, Sized, Typed
    <3>2. Entries(i) = Dots
      BY <3>1, DotsFinite, FS_Subset
    <3> QED BY <1>1, <3>2 DEF Kids
  <2> QED BY <1>3, <1>4, <2>1, <2>2, TreeKids
<1>5. Live \ Live' \subseteq {i}
  <2>1. CASE i \in Live
    BY <1>1, <1>3, <1>4, <2>1, TreeKids, Childless DEF Below
  <2>2. CASE i \notin Live
    BY <1>1, <1>3, <2>2, LooseBelow
  <2> QED BY <2>1, <2>2
<1>6. IsFiniteSet({i}) /\ Cardinality({i}) = 1
  BY FS_Singleton
<1>7. Live \ Live' \in SUBSET {i}
  BY <1>5
<1> QED BY <1>6, <1>7, FS_Subset, FS_CardinalityType

\* The commands find what an operand names, unless it begins with a slash and the working
\* directory is not the root.
LEMMA TargetIsNamed ==
  ASSUME NEW p \in Operands, p.slashes = 0 \/ cwd = Root
  PROVE  Target(p) = Named(p)
<1>1. CASE p = Slash
  BY <1>1, WalkNowhere DEF Target, Named, Slash, Operand
<1>2. CASE p # Slash
  BY <1>2 DEF Target, Named
<1> QED BY <1>1, <1>2

\* rm and rmr take away what their operand names, with all below it, or nothing.
THEOREM RemovalsAreNamed == Spec => RemovesNamed
<1>1. IInv /\ IInv' /\ [Next]_vars
      => [dirents' # dirents =>
            \A p \in Operands :
              (Rm(p) \/ Rmr(p)) /\ (p.slashes = 0 \/ cwd = Root) =>
                Live' = Live \ Below(Named(p))]_vars
  <2> SUFFICES ASSUME IInv, IInv', [Next]_vars, dirents' # dirents, vars' # vars,
                      NEW p \in Operands, Rm(p) \/ Rmr(p), p.slashes = 0 \/ cwd = Root
               PROVE  Live' = Live \ Below(Named(p))
    OBVIOUS
  <2>1. Live' = Live \ Below(Target(p))
    BY RemovalLoses DEF Next
  <2> QED BY <2>1, TargetIsNamed
<1> QED BY <1>1, Invariance, PTL DEF Spec, RemovesNamed

\* rm takes away one inode at most: a directory with entries stays.
THEOREM RmTakesOne == Spec => RmRemovesOne
<1>1. IInv /\ IInv' /\ [Next]_vars
      => [dirents' # dirents =>
            \A p \in Operands : Rm(p) => Cardinality(Live \ Live') <= 1]_vars
  BY RmLoses DEF Next
<1> QED BY <1>1, Invariance, PTL DEF Spec, RmRemovesOne
------------------------------------------------------------------------------
(* Which commands return. *)

IsUp(up, i) ==
  up = [k \in 0 .. MaxInode |->
          IF k = 0 THEN i
          ELSE IF Find(up[k - 1], "..") = Null THEN up[k - 1] ELSE Find(up[k - 1], "..")]

UpWay(i) == CHOOSE up : IsUp(up, i)

LEMMA UpExists == ASSUME NEW i PROVE IsUp(UpWay(i), i)
<1> DEFINE Above(e) == IF Find(e, "..") = Null THEN e ELSE Find(e, "..")
           Partly(n, f) == f = [k \in 0 .. n |-> IF k = 0 THEN i ELSE Above(f[k - 1])]
           S == {n \in Nat : \E f : Partly(n, f)}
<1>1. 0 \in S
  <2> DEFINE f == [k \in 0 .. 0 |-> i]
  <2>1. f = [k \in 0 .. 0 |-> IF k = 0 THEN i ELSE Above(f[k - 1])]
    OBVIOUS
  <2> HIDE DEF f
  <2>2. \E g : Partly(0, g)
    BY <2>1
  <2> QED BY <2>2
<1>2. ASSUME NEW n \in Nat, n \in S PROVE n + 1 \in S
  <2>1. PICK f : Partly(n, f)
    BY <1>2
  <2> DEFINE g == [k \in 0 .. n + 1 |-> IF k = n + 1 THEN Above(f[n]) ELSE f[k]]
  <2> HIDE DEF Above
  <2>2. ASSUME NEW k \in 0 .. n + 1
        PROVE  g[k] = IF k = 0 THEN i ELSE Above(g[k - 1])
    <3>1. CASE k = n + 1
      BY <3>1
    <3>2. CASE k # n + 1
      <4>1. k \in 0 .. n /\ g[k] = f[k] /\ (k # 0 => g[k - 1] = f[k - 1])
        BY <3>2
      <4>2. f[k] = IF k = 0 THEN i ELSE Above(f[k - 1])
        BY <2>1, <4>1
      <4> QED BY <4>1, <4>2
    <3> QED BY <3>1, <3>2
  <2>3. g = [k \in 0 .. n + 1 |-> g[k]]
    OBVIOUS
  <2> HIDE DEF g
  <2>4. g = [k \in 0 .. n + 1 |-> IF k = 0 THEN i ELSE Above(g[k - 1])]
    BY <2>2, <2>3
  <2>5. \E h : Partly(n + 1, h)
    BY <2>4
  <2> QED BY <2>5
<1>3. MaxInode \in S
  <2> HIDE DEF S
  <2> QED BY <1>1, <1>2, Upwards, MaxInodeAssumption
<1>4. \E f : IsUp(f, i)
  BY <1>3 DEF IsUp
<1> QED BY <1>4 DEF UpWay

\* Every entry in the tree leads to something in the tree.
LEMMA LiveEntries ==
  ASSUME Typed, ProperTree, NEW d \in Live \cap Dirs, NEW n \in Entries(d)
  PROVE  Find(d, n) \in Live /\ Find(d, n) # Null
<1>1. dirents[d][n] \in Live
  <2>1. CASE n \in Dots
    BY <2>1, TreeKids DEF ProperTree, DotsLead, Dots
  <2>2. CASE n \notin Dots
    <3>1. d \in Inode /\ dirents[d][n] \in Kids[d]
      BY <2>2, TreeKids DEF Kids
    <3> QED BY <3>1, TreeKids DEF Closed
  <2> QED BY <2>1, <2>2
<1>2. Null \notin Live
  BY TreeKids DEF Null, Inode
<1> QED BY <1>1, <1>2 DEF Find

\* A kid in the tree has less below it than its parent.
LEMMA KidHasLess ==
  ASSUME Typed, ProperTree, NEW d \in Live, NEW q \in Inode, d \in Kids[q]
  PROVE  Below(d) \union {q} \subseteq Below(q) /\ q \notin Below(d)
<1>1. d \in Inode /\ d \in Below(q) /\ q \in Below(q)
  BY TreeKids, ReachClosed DEF Below, Closed
<1>2. Below(d) \subseteq Below(q)
  BY <1>1, TreeKids, ReachClosed, ReachLeast DEF Below
<1> QED BY <1>1, <1>2, NoCycleBelow

\* Each set of inodes is finite, and has no more than all.
LEMMA HowManyBelow ==
  ASSUME Typed, ProperTree, NEW e \in Live
  PROVE  /\ IsFiniteSet(Below(e)) /\ Cardinality(Below(e)) \in Nat \ {0}
         /\ Cardinality(Below(e)) <= MaxInode
<1>1. IsFiniteSet(Inode) /\ Cardinality(Inode) = MaxInode
  BY FS_Interval, MaxInodeAssumption DEF Inode
<1>2. e \in Below(e) /\ Below(e) \in SUBSET Inode
  BY TreeKids, ReachClosed DEF Below
<1>3. IsFiniteSet(Below(e)) /\ Cardinality(Below(e)) <= MaxInode
  BY <1>1, <1>2, FS_Subset
<1> QED BY <1>2, <1>3, FS_CardinalityType, FS_EmptySet

\* One element more in a set that is contained in another.
LEMMA CountBetween ==
  ASSUME NEW B, NEW C, NEW x, IsFiniteSet(B), IsFiniteSet(C), x \notin B, B \union {x} \subseteq C
  PROVE  Cardinality(B) + 1 <= Cardinality(C)
<1>1. Cardinality(B \union {x}) = Cardinality(B) + 1
  BY FS_AddElement
<1>2. Cardinality(B \union {x}) <= Cardinality(C)
  BY FS_Subset
<1> QED BY <1>1, <1>2

\* The parent of a directory of the tree has more below it.
LEMMA ParentHasMore ==
  ASSUME Typed, ProperTree, NEW d \in Live \cap Dirs
  PROVE  /\ Find(d, "..") \in Live \cap Dirs /\ Find(d, "..") # Null
         /\ d = Root => Find(d, "..") = Root
         /\ d # Root => Cardinality(Below(d)) + 1 <= Cardinality(Below(Find(d, "..")))
<1> DEFINE q == Find(d, "..")
<1>1. q \in Live /\ q # Null /\ q = dirents[d][".."] /\ q \in Inode
  <2>1. ".." \in Entries(d)
    BY DEF ProperTree, DotsLead, Dots
  <2> QED BY <2>1, LiveEntries, TreeKids DEF Find
<1>2. (d = Root => q = Root) /\ (d # Root => d \in Kids[q])
  BY <1>1 DEF ProperTree, DotsLead
<1> HIDE DEF q
<1>3. q \in Dirs
  BY <1>1, <1>2 DEF Kids
<1>4. ASSUME d # Root PROVE Cardinality(Below(d)) + 1 <= Cardinality(Below(q))
  <2>1. Below(d) \union {q} \subseteq Below(q) /\ q \notin Below(d)
    BY <1>1, <1>2, <1>4, KidHasLess
  <2>2. IsFiniteSet(Below(d)) /\ IsFiniteSet(Below(q))
    BY <1>1, HowManyBelow
  <2> QED BY <2>1, <2>2, CountBetween
<1> QED BY <1>1, <1>2, <1>3, <1>4 DEF q

\* The way up from a directory of the tree ends at the root: on each step but the last
\* there is more below.
LEMMA UpEnds ==
  ASSUME Typed, ProperTree, NEW d \in Live \cap Dirs
  PROVE  Up(d) = Root
<1> DEFINE u == UpWay(d)
           S == {k \in Nat : k <= MaxInode =>
                   /\ u[k] \in Live \cap Dirs
                   /\ u[k] = Root \/ Cardinality(Below(u[k])) >= k + 1}
<1>1. \A k \in 0 .. MaxInode : u[k] =
        IF k = 0 THEN d
        ELSE IF Find(u[k - 1], "..") = Null THEN u[k - 1] ELSE Find(u[k - 1], "..")
  BY UpExists DEF IsUp
<1>2. MaxInode \in Nat
  BY MaxInodeAssumption
<1> HIDE DEF u
<1>3. 0 \in S
  BY <1>1, <1>2, HowManyBelow
<1>4. ASSUME NEW k \in Nat, k \in S PROVE k + 1 \in S
  <2> SUFFICES ASSUME k + 1 <= MaxInode
               PROVE  /\ u[k + 1] \in Live \cap Dirs
                      /\ u[k + 1] = Root \/ Cardinality(Below(u[k + 1])) >= (k + 1) + 1
    BY <1>4
  <2>1. u[k] \in Live \cap Dirs /\ (u[k] = Root \/ Cardinality(Below(u[k])) >= k + 1)
    BY <1>2, <1>4
  <2>2. u[k + 1] = IF Find(u[k], "..") = Null THEN u[k] ELSE Find(u[k], "..")
    BY <1>1, <1>2
  <2>3. u[k + 1] = Find(u[k], "..") /\ u[k + 1] \in Live \cap Dirs
    BY <2>1, <2>2, ParentHasMore
  <2>4. CASE u[k] = Root
    BY <2>1, <2>3, <2>4, ParentHasMore
  <2>5. CASE u[k] # Root
    <3>1. Cardinality(Below(u[k])) + 1 <= Cardinality(Below(u[k + 1]))
      BY <2>1, <2>3, <2>5, ParentHasMore
    <3>2. Cardinality(Below(u[k])) \in Nat /\ Cardinality(Below(u[k + 1])) \in Nat
      BY <2>1, <2>3, HowManyBelow
    <3> QED BY <2>1, <2>3, <2>5, <3>1, <3>2
  <2> QED BY <2>4, <2>5
<1>5. MaxInode \in S
  <2> HIDE DEF S
  <2> QED BY <1>2, <1>3, <1>4, Upwards
<1>6. u[MaxInode] = Root
  <2>1. u[MaxInode] \in Live /\ (u[MaxInode] = Root \/ Cardinality(Below(u[MaxInode])) >= MaxInode + 1)
    BY <1>2, <1>5
  <2>2. ~(Cardinality(Below(u[MaxInode])) >= MaxInode + 1)
    BY <1>2, <2>1, HowManyBelow
  <2> QED BY <2>1, <2>2
<1> QED BY <1>6 DEF Up, u, UpWay, IsUp

LEMMA PathIsBuilt ==
  ASSUME Typed, ProperTree, NEW d \in Live \cap Dirs
  PROVE  BuildPath(d) = "ok"
<1>1. Up(d) = Root /\ Root \in Live \cap Dirs /\ Root \notin Files
  BY UpEnds, TreeKids DEF Typed, TreeTypeOK
<1>2. Find(Root, "..") = Root /\ Find(Root, "..") # Null
  BY <1>1, ParentHasMore
<1> QED BY <1>1, <1>2 DEF BuildPath

\* From the tree a path leads into the tree, or nowhere.
LEMMA WalkLive ==
  ASSUME Typed, ProperTree, NEW i \in Live, NEW X, NEW parts \in Seq(X), Walk(i, parts) # Null
  PROVE  Walk(i, parts) \in Live
<1> DEFINE n == Len(parts)
           f == Way(i, parts)
           S == {k \in Nat : k <= n => f[k] \in Live \union {Null}}
<1>1. n \in Nat /\ Walk(i, parts) = f[n]
  BY DEF Walk, Way, IsWay
<1>2. \A k \in 0 .. n : f[k] = IF k = 0 THEN i ELSE Find(f[k - 1], parts[k])
  BY <1>1, WayExists DEF IsWay
<1> HIDE DEF f, n
<1>3. 0 \in S
  BY <1>1, <1>2
<1>4. ASSUME NEW k \in Nat, k \in S PROVE k + 1 \in S
  <2> SUFFICES ASSUME k + 1 <= n PROVE f[k + 1] \in Live \union {Null}
    OBVIOUS
  <2>1. f[k] \in Live \union {Null} /\ f[k + 1] = Find(f[k], parts[k + 1])
    BY <1>1, <1>2, <1>4
  <2>2. CASE f[k] \in Live \cap Dirs /\ parts[k + 1] \in Entries(f[k])
    BY <2>1, <2>2, LiveEntries
  <2>3. CASE ~(f[k] \in Dirs /\ parts[k + 1] \in Entries(f[k]))
    BY <2>1, <2>3 DEF Find
  <2>4. Null \notin Dirs
    BY DEF Typed, TreeTypeOK, Null
  <2> QED BY <2>1, <2>2, <2>3, <2>4
<1>5. n \in S
  <2> HIDE DEF S
  <2> QED BY <1>1, <1>3, <1>4, Upwards
<1> QED BY <1>1, <1>5

Listed(o) ==
  \/ o \in {"ok", "error"}
  \/ o = "loops" /\ \E i \in Live : TooWide(i)

LEMMA ListReturns ==
  ASSUME Typed, ProperTree, NEW i \in Live PROVE Listed(List(i))
<1>1. i \in Files \/ i \in Dirs
  BY TreeKids
<1>2. CASE i \in Dirs /\ \E n \in Entries(i) : TooWide(dirents[i][n])
  <2>1. PICK n \in Entries(i) : TooWide(dirents[i][n])
    BY <1>2
  <2>2. dirents[i][n] \in Live
    BY <1>2, LiveEntries DEF Find
  <2>3. List(i) \in {"error", "loops"}
    BY <1>2 DEF List
  <2> QED BY <2>1, <2>2, <2>3 DEF Listed
<1>3. CASE ~(i \in Dirs /\ \E n \in Entries(i) : TooWide(dirents[i][n]))
  BY <1>1, <1>3 DEF List, Listed
<1> QED BY <1>2, <1>3

LEMMA ListAllReturns ==
  ASSUME Typed, ProperTree, NEW i \in Live, NEW o \in ListAll(i) PROVE Listed(o)
<1>1. Below(i) \subseteq Live
  BY TreeKids, ReachLeast DEF Below
<1>2. ASSUME NEW d \in Below(i) \cap Dirs PROVE Listed(ListSubdir(d))
  <2>1. d \in Live \cap Dirs /\ "." \in Entries(d) /\ dirents[d]["."] = d
    BY <1>1 DEF ProperTree, DotsLead, Dots
  <2>2. Find(d, ".") = d /\ Find(d, ".") # Null /\ BuildPath(d) = "ok"
    BY <2>1, LiveEntries, PathIsBuilt DEF Find
  <2>3. ListSubdir(d) = List(d)
    BY <2>2 DEF ListSubdir
  <2> QED BY <2>1, <2>3, ListReturns
<1>3. CASE i \in Files
  BY <1>3 DEF ListAll, Listed
<1>4. CASE i \notin Files
  <2>1. o \in {List(i)} \union {ListSubdir(d) : d \in (Below(i) \cap Dirs) \ {i}}
    BY <1>4 DEF ListAll
  <2> QED BY <1>2, <2>1, ListReturns
<1> QED BY <1>3, <1>4

\* What commands report that are given in a directory of the tree.
LEMMA ReadsReturn ==
  ASSUME IInv, sh = "running", cwd \in Live,
         \/ \E p \in Operands : Cat(p) \/ Ls(p) \/ Lsr(p)
         \/ Pwd \/ LsHere \/ LsRoot \/ LsrHere \/ LsrRoot \/ BadCommand
  PROVE  \E o : Listed(o) /\ Report(o)
<1>1. Typed /\ ProperTree /\ cwd \in Live \cap Dirs /\ Root \in Live
  BY TreeKids DEF IInv, Sound, TypeOK
<1>2. Listed("ok") /\ Listed("error")
  BY DEF Listed
<1>3. Here = "ok"
  BY <1>1, PathIsBuilt DEF Here
<1>4. ASSUME NEW p \in Operands, Target(p) # Null PROVE Target(p) \in Live
  <2>1. CASE p = Slash
    BY <1>1, <2>1 DEF Target
  <2>2. CASE p # Slash
    <3>1. p.parts \in Seq(Names \union Dots)
      BY OperandParts
    <3> QED BY <1>1, <1>4, <2>2, <3>1, WalkLive DEF Target
  <2> QED BY <2>1, <2>2
<1>5. CASE \E p \in Operands : Cat(p)
  BY <1>2, <1>5 DEF Cat, Reads
<1>6. CASE \E p \in Operands : Ls(p)
  <2>1. PICK p \in Operands : Ls(p)
    BY <1>6
  <2> QED BY <1>1, <1>2, <1>4, <2>1, ListReturns DEF Ls, Reads
<1>7. CASE \E p \in Operands : Lsr(p)
  <2>1. PICK p \in Operands : Lsr(p)
    BY <1>7
  <2>2. PICK o \in IF Target(p) = Null THEN {"error"} ELSE ListAll(Target(p)) : Reads(o)
    BY <2>1 DEF Lsr
  <2> QED BY <1>1, <1>2, <1>4, <2>2, ListAllReturns DEF Reads
<1>8. CASE LsrHere \/ LsrRoot
  <2>1. PICK o \in ListAll(cwd) \union ListAll(Root) : Reads(o)
    BY <1>3, <1>8 DEF LsrHere, LsrRoot
  <2> QED BY <1>1, <2>1, ListAllReturns DEF Reads
<1>9. CASE LsHere \/ LsRoot
  <2>1. PICK o \in {List(cwd), List(Root)} : Reads(o)
    BY <1>3, <1>9 DEF LsHere, LsRoot
  <2> QED BY <1>1, <2>1, ListReturns DEF Reads
<1>10. CASE Pwd \/ BadCommand
  BY <1>2, <1>3, <1>10 DEF Pwd, BadCommand, Fails, Reads
<1> QED BY <1>5, <1>6, <1>7, <1>8, <1>9, <1>10

LEMMA NextReturns ==
  ASSUME IInv, Next, sh' \in {"undefined", "loops"}
  PROVE  \/ cwd \notin Live /\ UNCHANGED <<tree, cwd>>
         \/ sh' = "loops" /\ \E i \in Live : TooWide(i)
<1>1. sh = "running" /\ (Command \/ Malformed)
  BY DEF Next
<1>2. \A o : Report(o) => o = sh' /\ o \in {"undefined", "loops"}
  BY <1>1 DEF Report, Ends
<1>3. ~Report("ok") /\ ~Report("error")
  BY <1>2
<1>4. ~Fails /\ ~Malformed
  BY <1>2, <1>3 DEF Fails, Malformed, Reads
<1>5. \A p \in Operands : ~Mkdir(p) /\ ~Rm(p) /\ ~Rmr(p)
  <2>1. \A d, i : ~RemoveFrom(d, i)
    BY <1>3, <1>4 DEF RemoveFrom
  <2> QED BY <1>3, <1>4, <2>1 DEF Mkdir, Rm, Rmr
<1>6. \A p \in Operands, text \in Texts : ~Make(p, text)
  BY <1>3, <1>4 DEF Make
<1>7. (\A p \in Operands \ {Slash} : ~Cd(p)) /\ ~CdRoot
  BY <1>3, <1>4 DEF Cd, CdRoot, Enter
<1>8. \A status : ~Exit(status)
  BY DEF Exit
<1>9. \/ \E p \in Operands : Cat(p) \/ Ls(p) \/ Lsr(p)
      \/ Pwd \/ LsHere \/ LsRoot \/ LsrHere \/ LsrRoot \/ BadCommand
  BY <1>1, <1>4, <1>5, <1>6, <1>7, <1>8 DEF Command
<1>10. UNCHANGED <<tree, cwd>>
  BY <1>9 DEF Cat, Ls, Lsr, Pwd, LsHere, LsRoot, LsrHere, LsrRoot, BadCommand, Fails, Reads
<1>11. CASE cwd \in Live
  <2>1. PICK o : Listed(o) /\ Report(o)
    BY <1>1, <1>9, <1>11, ReadsReturn
  <2> QED BY <1>2, <2>1 DEF Listed
<1> QED BY <1>10, <1>11

\* In the tree every command returns, but for a listing of what is too wide; out of it
\* only what asks for a path does not, and changes nothing.
THEOREM CommandsDoReturn == Spec => CommandsReturn
<1>1. IInv /\ [Next]_vars
      => [sh' \in {"undefined", "loops"} =>
            \/ cwd \notin Live /\ UNCHANGED <<tree, cwd>>
            \/ sh' = "loops" /\ \E i \in Live : TooWide(i)]_vars
  BY NextReturns
<1> QED BY <1>1, Invariance, PTL DEF Spec, CommandsReturn
------------------------------------------------------------------------------
(* Paths of names. *)

NamePaths == Seq(Names)

\* The paths of a model with a bound are those that are not too long.
LEMMA PathsUpTo ==
  ASSUME NEW a \in {0, 1}
  PROVE  UNION {[1 .. k -> Names] : k \in a .. MaxInode - 1}
           = {q \in NamePaths : a <= Len(q) /\ Len(q) <= MaxInode - 1}
<1>1. MaxInode \in Nat \ {0} /\ a \in Nat
  BY MaxInodeAssumption
<1>2. ASSUME NEW k \in a .. MaxInode - 1, NEW q \in [1 .. k -> Names]
      PROVE  q \in NamePaths /\ Len(q) = k
  <2>1. k \in Nat
    BY <1>1
  <2> QED BY <2>1 DEF NamePaths
<1>3. ASSUME NEW q \in NamePaths, a <= Len(q), Len(q) <= MaxInode - 1
      PROVE  \E k \in a .. MaxInode - 1 : q \in [1 .. k -> Names]
  <2>1. Len(q) \in a .. MaxInode - 1 /\ q \in [1 .. Len(q) -> Names]
    BY <1>1, <1>3, LenProperties DEF NamePaths
  <2> QED BY <2>1
<1> QED BY <1>1, <1>2, <1>3

\* What holds of the empty path, and of each whose front it holds of, holds of all.
LEMMA OnPaths ==
  ASSUME NEW T, <<>> \in T, \A q \in NamePaths : q # <<>> /\ Front(q) \in T => q \in T
  PROVE  NamePaths \subseteq T
<1> DEFINE S == {k \in Nat : \A q \in NamePaths : Len(q) = k => q \in T}
<1>1. 0 \in S
  BY EmptySeq DEF NamePaths
<1>2. ASSUME NEW k \in Nat, k \in S PROVE k + 1 \in S
  <2> SUFFICES ASSUME NEW q \in NamePaths, Len(q) = k + 1 PROVE q \in T
    OBVIOUS
  <2>1. q # <<>>
    BY EmptySeq
  <2>2. Front(q) \in NamePaths /\ Len(Front(q)) = k
    BY <2>1, FrontType DEF NamePaths
  <2> QED BY <1>2, <2>1, <2>2
<1>3. \A k \in Nat : k \in S
  <2> HIDE DEF S
  <2> QED BY <1>1, <1>2, Upwards
<1>4. \A q \in NamePaths : Len(q) \in Nat
  BY DEF NamePaths
<1> QED BY <1>3, <1>4

LEMMA FrontAndLast ==
  ASSUME NEW q \in NamePaths, NEW r \in NamePaths, q # <<>>, r # <<>>,
         Front(q) = Front(r), Last(q) = Last(r)
  PROVE  q = r
<1> DEFINE n == Len(q)
<1>1. n \in Nat \ {0} /\ Len(r) = n
  BY FrontType DEF NamePaths
<1>2. ASSUME NEW k \in 1 .. n PROVE q[k] = r[k]
  <2>1. CASE k = n
    BY <1>1, <2>1 DEF Last
  <2>2. CASE k # n
    <3>1. k \in 1 .. Len(q) - 1 /\ k \in 1 .. Len(r) - 1
      BY <1>1, <2>2
    <3>2. Front(q)[k] = q[k] /\ Front(r)[k] = r[k]
      BY <3>1, FrontType DEF NamePaths
    <3> QED BY <3>2
  <2> QED BY <2>1, <2>2
<1> QED BY <1>1, <1>2, SeqEqual DEF NamePaths

LEMMA OneLonger ==
  ASSUME NEW q \in NamePaths, NEW n \in Names
  PROVE  /\ Append(q, n) \in NamePaths /\ Append(q, n) # <<>>
         /\ Front(Append(q, n)) = q /\ Last(Append(q, n)) = n
         /\ Len(Append(q, n)) = Len(q) + 1 /\ Len(q) \in Nat
<1> DEFINE p == Append(q, n)
<1>1. /\ p \in NamePaths /\ p # <<>> /\ Len(p) = Len(q) + 1 /\ Len(q) \in Nat
      /\ \A k \in 1 .. Len(q) : p[k] = q[k]
      /\ p[Len(q) + 1] = n
  BY AppendProperties DEF NamePaths
<1> HIDE DEF p
<1>2. Last(p) = n
  BY <1>1 DEF Last
<1>3. Front(p) = q
  <2>1. /\ Front(p) \in NamePaths /\ Len(Front(p)) = Len(q)
        /\ \A k \in 1 .. Len(q) : Front(p)[k] = p[k]
    BY <1>1, FrontType DEF NamePaths
  <2> QED BY <1>1, <2>1, SeqEqual DEF NamePaths
<1> QED BY <1>1, <1>2, <1>3 DEF p

LEMMA PrefixIs ==
  ASSUME NEW p \in NamePaths, NEW q \in NamePaths
  PROVE  IsPrefix(p, q) <=> Len(p) <= Len(q) /\ \A k \in 1 .. Len(p) : p[k] = q[k]
<1> DEFINE n == Len(p)
<1>1. n \in Nat /\ Len(q) \in Nat
  BY DEF NamePaths
<1> SUFFICES ASSUME n <= Len(q)
             PROVE  SubSeq(p, 1, n) = SubSeq(q, 1, n) <=> \A k \in 1 .. n : p[k] = q[k]
  BY <1>1 DEF IsPrefix
<1>2. /\ \A k \in 1 .. n : p[k] \in Names /\ q[k] \in Names
  BY <1>1 DEF NamePaths
<1>3. ASSUME NEW s \in NamePaths, n <= Len(s), \A k \in 1 .. n : s[k] \in Names
      PROVE  /\ SubSeq(s, 1, n) \in NamePaths /\ Len(SubSeq(s, 1, n)) = n
             /\ \A k \in 1 .. n : SubSeq(s, 1, n)[k] = s[k]
  <2>1. /\ SubSeq(s, 1, n) \in Seq(Names)
        /\ Len(SubSeq(s, 1, n)) = IF 1 <= n THEN n - 1 + 1 ELSE 0
        /\ \A k \in 1 .. n - 1 + 1 : SubSeq(s, 1, n)[k] = s[1 + k - 1]
    BY <1>1, <1>3, SubSeqProperties, Z3
  <2> HIDE DEF n
  <2>2. Len(SubSeq(s, 1, n)) = n
    BY <1>1, <2>1
  <2>3. ASSUME NEW k \in 1 .. n PROVE SubSeq(s, 1, n)[k] = s[k]
    <3>1. k \in 1 .. n - 1 + 1 /\ 1 + k - 1 = k
      BY <1>1
    <3> QED BY <2>1, <3>1
  <2> QED BY <2>1, <2>2, <2>3 DEF NamePaths
<1>4. /\ SubSeq(p, 1, n) \in NamePaths /\ Len(SubSeq(p, 1, n)) = n
      /\ \A k \in 1 .. n : SubSeq(p, 1, n)[k] = p[k]
  BY <1>1, <1>2, <1>3
<1>5. /\ SubSeq(q, 1, n) \in NamePaths /\ Len(SubSeq(q, 1, n)) = n
      /\ \A k \in 1 .. n : SubSeq(q, 1, n)[k] = q[k]
  BY <1>1, <1>2, <1>3
<1> HIDE DEF n
<1>6. ASSUME SubSeq(p, 1, n) = SubSeq(q, 1, n) PROVE \A k \in 1 .. n : p[k] = q[k]
  BY <1>4, <1>5, <1>6
<1>7. ASSUME \A k \in 1 .. n : p[k] = q[k] PROVE SubSeq(p, 1, n) = SubSeq(q, 1, n)
  BY <1>4, <1>5, <1>7, SeqEqual DEF NamePaths
<1> QED BY <1>6, <1>7

\* The prefixes of a path are the path and those of its front.
LEMMA PrefixOfFront ==
  ASSUME NEW p \in NamePaths, NEW q \in NamePaths, q # <<>>
  PROVE  IsPrefix(p, q) <=> p = q \/ IsPrefix(p, Front(q))
<1>1. /\ Front(q) \in NamePaths /\ Len(Front(q)) = Len(q) - 1 /\ Len(q) \in Nat \ {0}
      /\ \A k \in 1 .. Len(q) - 1 : Front(q)[k] = q[k]
      /\ Len(p) \in Nat
  BY FrontType DEF NamePaths
<1>2. ASSUME Len(p) <= Len(q) - 1 PROVE IsPrefix(p, q) <=> IsPrefix(p, Front(q))
  <2>1. \A k \in 1 .. Len(p) : Front(q)[k] = q[k]
    BY <1>1, <1>2
  <2> QED BY <1>1, <1>2, <2>1, PrefixIs
<1>3. ASSUME Len(p) = Len(q) PROVE IsPrefix(p, q) <=> p = q
  BY <1>1, <1>3, PrefixIs, SeqEqual DEF NamePaths
<1>4. ASSUME Len(p) > Len(q) - 1 PROVE ~IsPrefix(p, Front(q))
  BY <1>1, <1>4, PrefixIs
<1>5. ASSUME Len(p) > Len(q) PROVE ~IsPrefix(p, q)
  BY <1>1, <1>5, PrefixIs
<1>6. p = q => Len(p) = Len(q)
  OBVIOUS
<1> QED BY <1>1, <1>2, <1>3, <1>4, <1>5, <1>6
------------------------------------------------------------------------------
(* What the paths from the root lead to. *)

Leads(q) == Walk(Root, q)

\* One part leads one step further.
ByParts ==
  /\ Leads(<<>>) = Root
  /\ \A d : \A q \in NamePaths :
       q # <<>> /\ d = Leads(Front(q)) => Leads(q) = Find(d, Last(q))

LEMMA LeadByParts == ByParts
BY WalkNowhere, WalkLast DEF ByParts, Leads, NamePaths

LEMMA LeadsIntoTree ==
  ASSUME Typed, ProperTree, NEW q \in NamePaths
  PROVE  Leads(q) \in Live \union {Null}
BY TreeKids, WalkLive DEF Leads, NamePaths

\* A name in a directory of the tree leads to a kid.
LEMMA NameLeadsToKid ==
  ASSUME Typed, ProperTree, NEW d \in Live \union {Null}, NEW n \in Names, Find(d, n) # Null
  PROVE  /\ d \in Live \cap Dirs /\ d \in Inode /\ n \in Entries(d) \ Dots
         /\ Find(d, n) = dirents[d][n] /\ Find(d, n) \in Kids[d]
<1>1. d \in Dirs /\ n \in Entries(d) /\ Find(d, n) = dirents[d][n]
  BY DEF Find
<1>2. Null \notin Dirs /\ d \in Inode
  BY <1>1, TreeKids DEF Null, Typed, TreeTypeOK
<1>3. n \notin Dots
  BY NamesAssumption
<1> QED BY <1>1, <1>2, <1>3 DEF Kids

\* Some path leads to all that is in the tree.
LEMMA SomePath ==
  ASSUME Typed, ProperTree
  PROVE  \A i \in Live : \E q \in NamePaths : Leads(q) = i
<1> DEFINE S == {i \in Live : \E q \in NamePaths : Leads(q) = i}
<1>1. Root \in S
  BY TreeKids, LeadByParts, EmptySeq DEF ByParts, NamePaths
<1>2. Closed(Kids, S)
  <2> SUFFICES ASSUME NEW j \in S, NEW k \in Kids[j] PROVE k \in S
    BY DEF Closed
  <2>1. PICK q \in NamePaths : Leads(q) = j
    OBVIOUS
  <2>2. j \in Dirs /\ j \in Inode
    BY TreeKids DEF Kids
  <2>3. PICK n \in Entries(j) \ Dots : k = dirents[j][n]
    BY <2>2 DEF Kids
  <2>4. n \in Names
    BY <2>2, <2>3 DEF Typed, TreeTypeOK
  <2>5. Leads(Append(q, n)) = k /\ Append(q, n) \in NamePaths
    <3>1. /\ Append(q, n) \in NamePaths /\ Append(q, n) # <<>>
          /\ Front(Append(q, n)) = q /\ Last(Append(q, n)) = n
      BY <2>1, <2>4, OneLonger
    <3>2. Leads(Append(q, n)) = Find(j, n)
      BY <2>1, <3>1, LeadByParts DEF ByParts
    <3> QED BY <2>2, <2>3, <3>1, <3>2 DEF Find
  <2>6. k \in Live
    BY TreeKids DEF Closed
  <2> QED BY <2>5, <2>6
<1>3. S \in SUBSET Inode
  BY TreeKids
<1>4. Live \subseteq S
  <2> HIDE DEF S
  <2> QED BY <1>1, <1>2, <1>3, ReachLeast DEF Live, Below
<1> QED BY <1>4

\* And one path only.
LEMMA OnePath ==
  ASSUME Typed, ProperTree,
         NEW q \in NamePaths, NEW r \in NamePaths, Leads(q) = Leads(r), Leads(q) # Null
  PROVE  q = r
<1> DEFINE T == {s \in NamePaths : \A u \in NamePaths : Leads(s) = Leads(u) /\ Leads(s) # Null => s = u}
<1>1. ASSUME NEW s \in NamePaths, s # <<>>, Leads(s) # Null
      PROVE  /\ Front(s) \in NamePaths /\ Last(s) \in Names
             /\ Leads(Front(s)) \in Live \cap Dirs /\ Leads(Front(s)) # Null
             /\ Last(s) \in Entries(Leads(Front(s))) \ Dots
             /\ Leads(s) = dirents[Leads(Front(s))][Last(s)]
             /\ Leads(s) # Root
  <2>1. Front(s) \in NamePaths /\ Last(s) \in Names
    BY <1>1, FrontType DEF NamePaths
  <2>2. Leads(s) = Find(Leads(Front(s)), Last(s)) /\ Leads(Front(s)) \in Live \union {Null}
    BY <1>1, <2>1, LeadByParts, LeadsIntoTree DEF ByParts
  <2>3. /\ Leads(Front(s)) \in Live \cap Dirs /\ Leads(Front(s)) \in Inode
        /\ Last(s) \in Entries(Leads(Front(s))) \ Dots
        /\ Leads(s) = dirents[Leads(Front(s))][Last(s)] /\ Leads(s) \in Kids[Leads(Front(s))]
    BY <1>1, <2>1, <2>2, NameLeadsToKid
  <2>4. Null \notin Inode
    BY DEF Null, Inode
  <2> QED BY <2>1, <2>3, <2>4, TreeKids
<1>2. Leads(<<>>) = Root /\ <<>> \in NamePaths
  BY LeadByParts, EmptySeq DEF ByParts, NamePaths
<1>3. <<>> \in T
  BY <1>1, <1>2
<1>4. ASSUME NEW s \in NamePaths, s # <<>>, Front(s) \in T PROVE s \in T
  <2> SUFFICES ASSUME NEW u \in NamePaths, Leads(s) = Leads(u), Leads(s) # Null PROVE s = u
    BY <1>4
  <2>1. u # <<>>
    BY <1>1, <1>2, <1>4
  <2>2. Leads(Front(s)) = Leads(Front(u)) /\ Last(s) = Last(u)
    BY <1>1, <1>4, <2>1 DEF ProperTree, OneName
  <2>3. Front(s) = Front(u)
    BY <1>1, <1>4, <2>1, <2>2
  <2> QED BY <1>4, <2>1, <2>2, <2>3, FrontAndLast
<1>5. q \in T
  <2> HIDE DEF T
  <2> QED BY <1>3, <1>4, OnPaths
<1> QED BY <1>5

\* A path that leads somewhere is not too long: each part leaves less below.
LEMMA ShortPath ==
  ASSUME Typed, ProperTree, NEW q \in NamePaths, Leads(q) # Null
  PROVE  Len(q) <= MaxInode - 1
<1> DEFINE T == {s \in NamePaths : Leads(s) # Null => Len(s) + Cardinality(Below(Leads(s))) <= MaxInode}
<1>1. MaxInode \in Nat /\ \A s \in NamePaths : Len(s) \in Nat
  BY MaxInodeAssumption DEF NamePaths
<1>2. <<>> \in T
  <2>1. Leads(<<>>) = Root /\ <<>> \in NamePaths /\ Len(<<>>) = 0
    BY LeadByParts, EmptySeq DEF ByParts, NamePaths
  <2>2. Cardinality(Below(Root)) <= MaxInode /\ Cardinality(Below(Root)) \in Nat
    BY TreeKids, HowManyBelow
  <2> QED BY <1>1, <2>1, <2>2
<1>3. ASSUME NEW s \in NamePaths, s # <<>>, Front(s) \in T PROVE s \in T
  <2> SUFFICES ASSUME Leads(s) # Null PROVE Len(s) + Cardinality(Below(Leads(s))) <= MaxInode
    BY <1>3
  <2> DEFINE d == Leads(Front(s))
             e == Leads(s)
  <2>1. /\ Front(s) \in NamePaths /\ Last(s) \in Names /\ Len(Front(s)) = Len(s) - 1
        /\ d \in Live \union {Null} /\ e \in Live /\ e = Find(d, Last(s))
    BY <1>3, FrontType, LeadByParts, LeadsIntoTree DEF ByParts, NamePaths
  <2>2. d \in Live /\ d \in Inode /\ d # Null /\ e \in Kids[d]
    <3>1. Null \notin Inode
      BY DEF Null, Inode
    <3> QED BY <2>1, <3>1, NameLeadsToKid
  <2>3. Len(Front(s)) + Cardinality(Below(d)) <= MaxInode
    BY <1>3, <2>2
  <2> HIDE DEF d, e
  <2>4. Cardinality(Below(e)) + 1 <= Cardinality(Below(d))
    <3>1. Below(e) \union {d} \subseteq Below(d) /\ d \notin Below(e)
      BY <2>1, <2>2, KidHasLess
    <3> QED BY <2>1, <2>2, <3>1, HowManyBelow, CountBetween
  <2>5. Cardinality(Below(e)) \in Nat /\ Cardinality(Below(d)) \in Nat /\ Len(s) \in Nat
    BY <1>1, <1>3, <2>1, <2>2, HowManyBelow
  <2>6. Len(s) + Cardinality(Below(e)) <= MaxInode
    BY <1>1, <2>1, <2>3, <2>4, <2>5
  <2> QED BY <2>6 DEF e
<1>4. q \in T
  <2> HIDE DEF T
  <2> QED BY <1>2, <1>3, OnPaths
<1>5. Len(q) + Cardinality(Below(Leads(q))) <= MaxInode
  BY <1>4
<1>6. Leads(q) \in Live
  BY LeadsIntoTree
<1>7. Cardinality(Below(Leads(q))) \in Nat \ {0}
  BY <1>6, HowManyBelow
<1> QED BY <1>1, <1>5, <1>7

\* So the bound on paths leaves none out.
AllFiles ==
  FilesOf = [q \in {q \in NamePaths : Leads(q) # Null} |->
               IF Leads(q) \in Dirs THEN Folder ELSE data[Leads(q)]]

LEMMA FilesAreAll == Typed /\ ProperTree => AllFiles
<1> SUFFICES ASSUME Typed, ProperTree PROVE AllFiles
  OBVIOUS
<1> DEFINE U == UNION {[1 .. k -> Names] : k \in 0 .. MaxInode - 1}
           P == {q \in U : Leads(q) # Null}
           Q == {q \in NamePaths : Leads(q) # Null}
<1>1. U = {q \in NamePaths : 0 <= Len(q) /\ Len(q) <= MaxInode - 1}
  BY PathsUpTo
<1>2. FilesOf = [q \in P |-> IF Leads(q) \in Dirs THEN Folder ELSE data[Leads(q)]]
  BY DEF FilesOf, Leads
<1>3. \A q \in NamePaths : 0 <= Len(q)
  BY DEF NamePaths
<1> HIDE DEF U
<1>4. P = Q
  BY <1>1, <1>3, ShortPath
<1> QED BY <1>2, <1>4 DEF AllFiles
------------------------------------------------------------------------------
(* The steps of FileTree. *)

TreeOf(q) == IF Leads(q) \in Dirs THEN Folder ELSE data[Leads(q)]

Short == \A q \in NamePaths : Leads(q) # Null => Len(q) <= MaxInode - 1

LEMMA AllShort == Typed /\ ProperTree => Short
BY ShortPath DEF Short

\* The lemmas above after a step.
LEMMA AfterStep ==
  /\ ByParts'
  /\ (Typed /\ ProperTree)' => AllFiles' /\ Short'
BY LeadByParts, FilesAreAll, AllShort, PTL

\* Where names lead on as before in the tree, paths lead where they did.
LEMMA SamePaths ==
  ASSUME Typed, ProperTree, Null \notin Dirs',
         \A d \in Live, n \in Names : Find(d, n)' = Find(d, n)
  PROVE  \A q \in NamePaths : Leads(q)' = Leads(q)
<1> DEFINE T == {q \in NamePaths : Leads(q)' = Leads(q)}
<1>1. <<>> \in T
  BY LeadByParts, AfterStep, EmptySeq DEF ByParts, NamePaths
<1>2. ASSUME NEW q \in NamePaths, q # <<>>, Front(q) \in T PROVE q \in T
  <2>1. Front(q) \in NamePaths /\ Last(q) \in Names
    BY <1>2, FrontType DEF NamePaths
  <2>2. PICK d \in Live \union {Null} : d = Leads(Front(q)) /\ d = Leads(Front(q))'
    BY <1>2, <2>1, LeadsIntoTree
  <2>3. Leads(q) = Find(d, Last(q)) /\ Leads(q)' = Find(d, Last(q))'
    BY <1>2, <2>2, LeadByParts, AfterStep DEF ByParts
  <2>4. Find(Null, Last(q))' = Null /\ Find(Null, Last(q)) = Null
    BY DEF Find, Typed, TreeTypeOK, Null
  <2> QED BY <2>1, <2>2, <2>3, <2>4
<1> HIDE DEF T
<1>3. NamePaths \subseteq T
  BY <1>1, <1>2, OnPaths
<1> QED BY <1>3 DEF T

\* A path to what was and is in the tree.
LEMMA SameFiles ==
  ASSUME Typed, ProperTree, Null \notin Dirs',
         \A d \in Live, n \in Names : Find(d, n)' = Find(d, n),
         \A i \in Live : i \in Dirs' <=> i \in Dirs,
         \A i \in Live \cap Files : data'[i] = data[i]
  PROVE  FilesOf' = FilesOf
<1> DEFINE U == UNION {[1 .. k -> Names] : k \in 0 .. MaxInode - 1}
<1>1. FilesOf = [q \in {q \in U : Leads(q) # Null} |-> TreeOf(q)]
  BY DEF FilesOf, Leads, TreeOf
<1>2. FilesOf' = [q \in {q \in U : Leads(q)' # Null} |-> TreeOf(q)']
  BY DEF FilesOf, Leads, TreeOf
<1>3. U \subseteq NamePaths
  BY PathsUpTo
<1> HIDE DEF U
<1>4. \A q \in U : Leads(q)' = Leads(q)
  BY <1>3, SamePaths
<1>5. ASSUME NEW q \in U, Leads(q) # Null PROVE TreeOf(q)' = TreeOf(q)
  <2>1. Leads(q) \in Live /\ Leads(q)' = Leads(q)
    BY <1>3, <1>4, <1>5, LeadsIntoTree
  <2>2. Leads(q) \in Dirs \/ Leads(q) \in Files
    BY <2>1, TreeKids
  <2> QED BY <2>1, <2>2 DEF TreeOf
<1>6. {q \in U : Leads(q)' # Null} = {q \in U : Leads(q) # Null}
  BY <1>4
<1> QED BY <1>1, <1>2, <1>5, <1>6

\* A new entry in the tree: one path more.
LEMMA AddedPath ==
  ASSUME Typed, Typed', ProperTree,
         NEW d \in Live \cap Dirs, NEW n \in Names, n \notin Entries(d), Added(d, n),
         NEW t, t = next_inode_nr, t \notin Dirs \union Files, t # Null,
         \/ Dirs' = Dirs
         \/ Dirs' = Dirs \union {t} /\ Entries(t)' = Dots,
         NEW r \in NamePaths, Leads(r) = d, NEW p, p = Append(r, n)
  PROVE  \A q \in NamePaths : Leads(q)' = IF q = p THEN t ELSE Leads(q)
<1> DEFINE T == {q \in NamePaths : Leads(q)' = IF q = p THEN t ELSE Leads(q)}
<1>1. /\ p \in NamePaths /\ p # <<>> /\ Front(p) = r /\ Last(p) = n
  BY OneLonger
<1>2. Null \notin Dirs /\ Null \notin Dirs' /\ d # Null /\ Null \notin Live
  BY TreeKids DEF Typed, TreeTypeOK, Null
<1>3. <<>> \in T
  BY <1>1, LeadByParts, AfterStep, EmptySeq DEF ByParts, NamePaths
<1>4. ASSUME NEW e \in Live \union {Null}, NEW m \in Names, ~(e = d /\ m = n)
      PROVE  Find(e, m)' = Find(e, m)
  <2>1. CASE e \in Dirs
    <3>1. e \in Dirs' /\ (m \in Entries(e)' <=> m \in Entries(e))
          /\ (m \in Entries(e) => dirents'[e][m] = dirents[e][m])
      BY <1>4, <2>1 DEF Added, WithEntry, Entries
    <3> QED BY <2>1, <3>1 DEF Find
  <2>2. CASE e \notin Dirs
    <3>1. e \in Files \union {Null} /\ e # t
      BY <2>2, TreeKids
    <3>2. e \notin Dirs'
      BY <2>2, <3>1
    <3> QED BY <2>2, <3>2 DEF Find
  <2> QED BY <2>1, <2>2
<1>5. /\ Find(d, n) = Null /\ Find(d, n)' = t
      /\ \A m \in Names : Find(t, m)' = Null
      /\ \A m \in Names : Find(Null, m)' = Null
  <2>1. Find(d, n) = Null
    BY DEF Find
  <2>2. Find(d, n)' = t
    BY DEF Find, Added, WithEntry, Entries
  <2>3. \A m \in Names : Find(t, m)' = Null
    BY NamesAssumption DEF Find
  <2> QED BY <1>2, <2>1, <2>2, <2>3 DEF Find
<1>6. ASSUME NEW q \in NamePaths, q # <<>>, Front(q) \in T PROVE q \in T
  <2>1. Front(q) \in NamePaths /\ Last(q) \in Names
    BY <1>6, FrontType DEF NamePaths
  <2>2. PICK e \in Live \union {Null} : e = Leads(Front(q))
    BY <2>1, LeadsIntoTree
  <2>3. PICK f : f = Leads(Front(q))'
    OBVIOUS
  <2>4. f = IF Front(q) = p THEN t ELSE e
    BY <1>6, <2>2, <2>3
  <2>5. Leads(q) = Find(e, Last(q)) /\ Leads(q)' = Find(f, Last(q))'
    BY <1>6, <2>2, <2>3, LeadByParts, AfterStep DEF ByParts
  <2>6. CASE Front(q) = p
    <3>1. q # p
      <4>1. Len(Front(q)) = Len(q) - 1 /\ Len(q) \in Nat
        BY <1>6, FrontType DEF NamePaths
      <4> QED BY <2>6, <4>1
    <3>2. Leads(q)' = Null
      BY <1>5, <2>1, <2>4, <2>5, <2>6
    <3>3. e = Null
      <4>1. Leads(p) = Null
        BY <1>1, <1>5, LeadByParts DEF ByParts
      <4> QED BY <2>2, <2>6, <4>1
    <3>4. Leads(q) = Null
      BY <1>2, <2>5, <3>3 DEF Find
    <3> QED BY <3>1, <3>2, <3>4
  <2>7. CASE Front(q) # p /\ e = d /\ Last(q) = n
    <3>1. Front(q) = r
      BY <1>2, <2>1, <2>2, <2>7, OnePath
    <3>2. q = p
      BY <1>1, <1>6, <2>7, <3>1, FrontAndLast
    <3> QED BY <1>5, <2>4, <2>5, <2>7, <3>2
  <2>8. CASE Front(q) # p /\ ~(e = d /\ Last(q) = n)
    <3>1. q # p
      BY <1>1, <2>2, <2>8
    <3> QED BY <1>4, <2>1, <2>4, <2>5, <2>8, <3>1
  <2> QED BY <2>6, <2>7, <2>8
<1> HIDE DEF T
<1>7. NamePaths \subseteq T
  BY <1>3, <1>6, OnPaths
<1> QED BY <1>7 DEF T

\* What FileTree has at a path, and may put there.
LEMMA TreeHas ==
  ASSUME Typed, ProperTree
  PROVE  /\ \A q : Tree!Has(q) <=> q \in NamePaths /\ Leads(q) # Null
         /\ \A q \in NamePaths : Leads(q) # Null => FilesOf[q] = TreeOf(q)
         /\ \A q \in NamePaths : q # <<>> /\ Leads(q) # Null => q \in Tree!AllPaths
         /\ \A q \in NamePaths : q # <<>> /\ Leads(Front(q)) \in Dirs => Tree!Room(q)
<1>1. AllFiles
  BY FilesAreAll
<1>2. \A q : Tree!Has(q) <=> q \in NamePaths /\ Leads(q) # Null
  BY <1>1 DEF AllFiles, Tree!Has
<1>3. \A q \in NamePaths : Leads(q) # Null => FilesOf[q] = TreeOf(q)
  BY <1>1 DEF AllFiles, TreeOf
<1>4. ASSUME NEW q \in NamePaths, q # <<>>, Leads(q) # Null PROVE q \in Tree!AllPaths
  <2>1. Len(q) <= MaxInode - 1 /\ 1 <= Len(q)
    BY <1>4, ShortPath, FrontType DEF NamePaths
  <2> QED BY <2>1, PathsUpTo DEF Tree!AllPaths
<1>5. ASSUME NEW q \in NamePaths, q # <<>>, Leads(Front(q)) \in Dirs PROVE Tree!Room(q)
  <2>1. Front(q) \in NamePaths
    BY <1>5, FrontType DEF NamePaths
  <2>2. Leads(Front(q)) # Null
    BY <1>5 DEF Typed, TreeTypeOK, Null
  <2>3. FilesOf[Front(q)] = Folder
    BY <1>3, <1>5, <2>1, <2>2 DEF TreeOf
  <2> QED BY <1>2, <2>1, <2>2, <2>3 DEF Tree!Room, Tree!Front, Front
<1> QED BY <1>2, <1>3, <1>4, <1>5

LEMMA AddedFiles ==
  ASSUME Typed, Typed', ProperTree, ProperTree',
         NEW d \in Live \cap Dirs, NEW n \in Names, n \notin Entries(d), Added(d, n),
         NEW t, t = next_inode_nr, t \notin Dirs \union Files, t # Null,
         \/ Dirs' = Dirs /\ t \in Files'
         \/ Dirs' = Dirs \union {t} /\ Entries(t)' = Dots,
         \A i \in Files : data'[i] = data[i],
         NEW x, x = IF t \in Dirs' THEN Folder ELSE data'[t]
  PROVE  /\ FilesOf' # FilesOf
         /\ \E p \in Tree!AllPaths : ~Tree!Has(p) /\ Tree!Room(p) /\ Tree!Put(p, x)
<1>1. PICK r \in NamePaths : Leads(r) = d
  BY SomePath
<1>2. PICK p \in NamePaths : p = Append(r, n) /\ p # <<>> /\ Front(p) = r /\ Last(p) = n
  BY OneLonger
<1>3. \A q \in NamePaths : Leads(q)' = IF q = p THEN t ELSE Leads(q)
  BY <1>1, <1>2, AddedPath
<1>4. Leads(p) = Null
  <2>1. Leads(p) = Find(d, n)
    BY <1>1, <1>2, LeadByParts DEF ByParts
  <2> QED BY <2>1 DEF Find
<1>5. /\ AllFiles /\ AllFiles'
      /\ FilesOf = [q \in {q \in NamePaths : Leads(q) # Null} |-> TreeOf(q)]
      /\ FilesOf' = [q \in {q \in NamePaths : Leads(q)' # Null} |-> TreeOf(q)']
  BY FilesAreAll, AfterStep DEF AllFiles, TreeOf
<1>6. {q \in NamePaths : Leads(q)' # Null} = {q \in NamePaths : Leads(q) # Null} \union {p}
  BY <1>3, <1>4
<1>7. TreeOf(p)' = x
  BY <1>3 DEF TreeOf
<1>8. ASSUME NEW q \in NamePaths, Leads(q) # Null PROVE TreeOf(q)' = TreeOf(q)
  <2>1. Leads(q)' = Leads(q) /\ Leads(q) \in Dirs \union Files
    BY <1>3, <1>4, <1>8, LeadsIntoTree, TreeKids
  <2>2. Leads(q) \in Dirs' <=> Leads(q) \in Dirs
    BY <2>1
  <2> QED BY <2>1, <2>2 DEF TreeOf
<1>9. Tree!Put(p, x)
  <2>1. FilesOf' = [q \in DOMAIN FilesOf \union {p} |-> IF q = p THEN x ELSE FilesOf[q]]
    BY <1>4, <1>5, <1>6, <1>7, <1>8
  <2> QED BY <2>1 DEF Tree!Put
<1>10. FilesOf' # FilesOf
  BY <1>4, <1>5, <1>6
<1>11. p \in Tree!AllPaths
  <2>1. Short'
    BY AfterStep
  <2>2. Len(p) <= MaxInode - 1
    BY <1>3, <2>1 DEF Short
  <2>3. 1 <= Len(p)
    BY <1>2, FrontType DEF NamePaths
  <2> QED BY <2>2, <2>3, PathsUpTo DEF Tree!AllPaths
<1>12. ~Tree!Has(p) /\ Tree!Room(p)
  BY <1>1, <1>2, <1>4, TreeHas
<1> QED BY <1>9, <1>10, <1>11, <1>12

\* The entry of d alone leads nowhere any more.
Gone(d, n) ==
  /\ Find(d, n)' = Null
  /\ \A e \in Live, m \in Names : ~(e = d /\ m = n) => Find(e, m)' = Find(e, m)

\* An entry of the tree less: no path that begins by its path.
LEMMA RemovedPath ==
  ASSUME Typed, ProperTree, NEW d \in Live \cap Dirs, NEW n \in Names,
         Dirs' = Dirs, Gone(d, n),
         NEW r \in NamePaths, Leads(r) = d, NEW p, p = Append(r, n)
  PROVE  \A q \in NamePaths : Leads(q)' = IF IsPrefix(p, q) THEN Null ELSE Leads(q)
<1> DEFINE T == {q \in NamePaths : Leads(q)' = IF IsPrefix(p, q) THEN Null ELSE Leads(q)}
<1>1. /\ p \in NamePaths /\ p # <<>> /\ Front(p) = r /\ Last(p) = n
      /\ Len(p) = Len(r) + 1 /\ Len(r) \in Nat
  BY OneLonger
<1>2. Null \notin Dirs /\ d # Null
  BY DEF Typed, TreeTypeOK, Null
<1>3. <<>> \in T
  <2>1. <<>> \in NamePaths /\ Len(<<>>) = 0
    BY EmptySeq DEF NamePaths
  <2>2. \A q \in NamePaths : Len(q) = 0 => ~IsPrefix(p, q)
    <3>1. \A q \in NamePaths : IsPrefix(p, q) => Len(p) <= Len(q)
      BY <1>1, PrefixIs
    <3> QED BY <1>1, <3>1
  <2> QED BY <2>1, <2>2, LeadByParts, AfterStep DEF ByParts
<1>4. \A m \in Names : Find(Null, m)' = Null /\ Find(Null, m) = Null
  BY <1>2 DEF Find
<1>5. ASSUME NEW q \in NamePaths, q # <<>>, Front(q) \in T PROVE q \in T
  <2>1. Front(q) \in NamePaths /\ Last(q) \in Names
    BY <1>5, FrontType DEF NamePaths
  <2>2. PICK e \in Live \union {Null} : e = Leads(Front(q))
    BY <2>1, LeadsIntoTree
  <2>3. PICK f : f = Leads(Front(q))'
    OBVIOUS
  <2>4. f = IF IsPrefix(p, Front(q)) THEN Null ELSE e
    BY <1>5, <2>2, <2>3
  <2>5. Leads(q) = Find(e, Last(q)) /\ Leads(q)' = Find(f, Last(q))'
    BY <1>5, <2>2, <2>3, LeadByParts, AfterStep DEF ByParts
  <2>6. IsPrefix(p, q) <=> p = q \/ IsPrefix(p, Front(q))
    BY <1>1, <1>5, PrefixOfFront
  <2>7. CASE IsPrefix(p, Front(q))
    BY <1>4, <1>5, <2>1, <2>4, <2>5, <2>6, <2>7
  <2>8. CASE ~IsPrefix(p, Front(q)) /\ p = q
    <3>1. e = d /\ Last(q) = n
      BY <1>1, <2>2, <2>8
    <3>2. Leads(q)' = Null
      BY <2>4, <2>5, <2>8, <3>1 DEF Gone
    <3> QED BY <1>5, <2>6, <2>8, <3>2
  <2>9. CASE ~IsPrefix(p, Front(q)) /\ p # q
    <3>1. ~(e = d /\ Last(q) = n)
      <4> SUFFICES ASSUME e = d, Last(q) = n PROVE FALSE
        OBVIOUS
      <4>1. Front(q) = r
        BY <1>2, <2>1, <2>2, OnePath
      <4> QED BY <1>1, <1>5, <2>9, <4>1, FrontAndLast
    <3>2. Find(e, Last(q))' = Find(e, Last(q))
      BY <1>4, <2>1, <3>1 DEF Gone
    <3> QED BY <1>5, <2>4, <2>5, <2>6, <2>9, <3>2
  <2> QED BY <2>7, <2>8, <2>9
<1> HIDE DEF T
<1>6. NamePaths \subseteq T
  BY <1>3, <1>5, OnPaths
<1> QED BY <1>6 DEF T

\* A step of FileTree, or none.
TreeStep ==
  \/ FilesOf' = FilesOf
  \/ \E p \in Tree!AllPaths :
       Tree!MakeFolder(p) \/ Tree!Cut(p) \/ \E text \in Texts : Tree!Write(p, text)

LEMMA RemovedFiles ==
  ASSUME Typed, Typed', ProperTree, ProperTree',
         NEW d \in Dirs, NEW n \in Entries(d) \ Dots, RemoveEntry(d, n)
  PROVE  TreeStep
<1>1. /\ Dirs' = Dirs /\ data' = data /\ n \in Names
      /\ \A e \in Dirs : \A m \in Names :
           /\ m \in Entries(e)' <=> m \in Entries(e) /\ ~(e = d /\ m = n)
           /\ m \in Entries(e)' => dirents'[e][m] = dirents[e][m]
  BY NamesAssumption DEF RemoveEntry, Without, Restrict, Dirs, Entries, Typed, TreeTypeOK
<1>2. \A e \in Dirs, m \in Names : ~(e = d /\ m = n) => Find(e, m)' = Find(e, m)
  BY <1>1 DEF Find
<1>3. Null \notin Dirs /\ \A e : e \notin Dirs => \A m : Find(e, m)' = Null /\ Find(e, m) = Null
  BY <1>1 DEF Find, Typed, TreeTypeOK, Null
<1>4. \A e \in Live, m \in Names : ~(e = d /\ m = n) => Find(e, m)' = Find(e, m)
  BY <1>2, <1>3
<1>5. CASE d \notin Live
  <2>1. FilesOf' = FilesOf
    BY <1>1, <1>3, <1>4, <1>5, SameFiles
  <2> QED BY <2>1 DEF TreeStep
<1>6. CASE d \in Live
  <2>1. PICK r \in NamePaths : Leads(r) = d
    BY <1>6, SomePath
  <2>2. PICK p \in NamePaths : p = Append(r, n) /\ p # <<>> /\ Front(p) = r /\ Last(p) = n
    BY <1>1, OneLonger
  <2>3. Gone(d, n)
    BY <1>1, <1>4 DEF Find, Gone
  <2>4. \A q \in NamePaths : Leads(q)' = IF IsPrefix(p, q) THEN Null ELSE Leads(q)
    BY <1>1, <1>6, <2>1, <2>2, <2>3, RemovedPath
  <2>5. Leads(p) # Null
    <3>1. Leads(p) = dirents[d][n]
      BY <2>1, <2>2, LeadByParts DEF ByParts, Find
    <3>2. dirents[d][n] \in Inode
      BY TreeKids DEF Typed, TreeTypeOK
    <3> QED BY <3>1, <3>2 DEF Null, Inode
  <2>6. /\ FilesOf = [q \in {q \in NamePaths : Leads(q) # Null} |-> TreeOf(q)]
        /\ FilesOf' = [q \in {q \in NamePaths : Leads(q)' # Null} |-> TreeOf(q)']
    BY FilesAreAll, AfterStep DEF AllFiles, TreeOf
  <2>7. {q \in NamePaths : Leads(q)' # Null}
          = {q \in {q \in NamePaths : Leads(q) # Null} : ~IsPrefix(p, q)}
    BY <2>4
  <2>8. \A q \in NamePaths : Leads(q)' # Null => TreeOf(q)' = TreeOf(q)
    BY <1>1, <2>4 DEF TreeOf
  <2>9. FilesOf' = [q \in {q \in DOMAIN FilesOf : ~IsPrefix(p, q)} |-> FilesOf[q]]
    <3>1. DOMAIN FilesOf = {q \in NamePaths : Leads(q) # Null}
      BY <2>6
    <3>2. \A q \in DOMAIN FilesOf : FilesOf[q] = TreeOf(q)
      BY <2>6
    <3> QED BY <2>6, <2>7, <2>8, <3>1, <3>2
  <2>10. Tree!Cut(p)
    <3>1. Tree!Has(p)
      BY <2>5, TreeHas
    <3> QED BY <2>9, <3>1 DEF Tree!Cut, Tree!Restrict, Tree!IsPrefix, IsPrefix
  <2>11. p \in Tree!AllPaths
    BY <2>2, <2>5, TreeHas
  <2> QED BY <2>10, <2>11 DEF TreeStep
<1> QED BY <1>5, <1>6

\* What is written over is one file, by its one path.
LEMMA WrittenFiles ==
  ASSUME Typed, Typed', ProperTree, ProperTree',
         NEW i \in Files, NEW text \in Texts, WriteFile(i, text)
  PROVE  TreeStep
<1>1. /\ Dirs' = Dirs /\ Null \notin Dirs
      /\ data'[i] = text /\ \A j \in Files \ {i} : data'[j] = data[j]
      /\ \A e, m : Find(e, m)' = Find(e, m)
  <2>1. dirents' = dirents /\ data' = [data EXCEPT ![i] = text]
    BY DEF WriteFile
  <2> QED BY <2>1 DEF Dirs, Files, Entries, Find, Null, Typed, TreeTypeOK
<1>2. CASE i \notin Live
  <2>1. FilesOf' = FilesOf
    BY <1>1, <1>2, SameFiles
  <2> QED BY <2>1 DEF TreeStep
<1>3. CASE i \in Live
  <2>1. PICK p \in NamePaths : Leads(p) = i
    BY <1>3, SomePath
  <2>2. i \notin Dirs /\ i # Null
    BY DEF Typed, TreeTypeOK, Null
  <2>3. p # <<>>
    BY <2>1, <2>2, LeadByParts DEF ByParts, Typed
  <2>4. Leads(Front(p)) \in Dirs
    <3>1. Front(p) \in NamePaths /\ Last(p) \in Names
      BY <2>3, FrontType DEF NamePaths
    <3>2. Leads(Front(p)) \in Live \union {Null} /\ Find(Leads(Front(p)), Last(p)) # Null
      BY <2>1, <2>2, <2>3, <3>1, LeadsIntoTree, LeadByParts DEF ByParts
    <3> QED BY <3>1, <3>2, NameLeadsToKid
  <2>5. \A q \in NamePaths : Leads(q)' = Leads(q)
    BY <1>1, SamePaths
  <2>6. /\ FilesOf = [q \in {q \in NamePaths : Leads(q) # Null} |-> TreeOf(q)]
        /\ FilesOf' = [q \in {q \in NamePaths : Leads(q)' # Null} |-> TreeOf(q)']
    BY FilesAreAll, AfterStep DEF AllFiles, TreeOf
  <2>7. {q \in NamePaths : Leads(q)' # Null}
          = {q \in NamePaths : Leads(q) # Null} \union {p}
    BY <2>1, <2>2, <2>5
  <2>8. TreeOf(p)' = text
    BY <1>1, <2>1, <2>2, <2>5 DEF TreeOf
  <2>9. ASSUME NEW q \in NamePaths, Leads(q) # Null, q # p PROVE TreeOf(q)' = TreeOf(q)
    <3>1. Leads(q) # i
      BY <2>1, <2>2, <2>9, OnePath
    <3>2. Leads(q)' = Leads(q) /\ Leads(q) \in Dirs \union Files
      BY <2>5, <2>9, LeadsIntoTree, TreeKids
    <3> QED BY <1>1, <3>1, <3>2 DEF TreeOf
  <2>10. Tree!Put(p, text)
    <3>1. FilesOf' = [q \in DOMAIN FilesOf \union {p} |-> IF q = p THEN text ELSE FilesOf[q]]
      BY <2>6, <2>7, <2>8, <2>9
    <3> QED BY <3>1 DEF Tree!Put
  <2>11. FilesOf[p] # Folder
    <3>1. FilesOf[p] = data[i]
      BY <2>1, <2>2, TreeHas DEF TreeOf
    <3>2. data[i] \in Texts
      BY DEF Typed, TreeTypeOK
    <3> QED BY <3>1, <3>2, FolderAssumption
  <2>12. Tree!Room(p) /\ p \in Tree!AllPaths
    BY <2>1, <2>2, <2>3, <2>4, TreeHas
  <2>13. Tree!Write(p, text)
    BY <2>10, <2>11, <2>12 DEF Tree!Write
  <2> QED BY <2>12, <2>13 DEF TreeStep
<1> QED BY <1>2, <1>3

\* What has no directories of the tree, or changes none of their names, changes no path.
LEMMA SpentFiles ==
  ASSUME dirents' = dirents, data' = data
  PROVE  FilesOf' = FilesOf
<1>1. Dirs' = Dirs /\ \A i, n : Find(i, n)' = Find(i, n)
  BY DEF Dirs, Entries, Find, Null
<1> QED BY <1>1 DEF FilesOf, Walk, Find, Dirs, Entries, Null

\* A new entry, whoever makes it: in the tree it is one path, and else none.
LEMMA NewFiles ==
  ASSUME Typed, Typed', ProperTree, ProperTree',
         NEW d \in Dirs, NEW n \in Names \union Dots, n \notin Entries(d), Added(d, n),
         NEW t, t = next_inode_nr, t \notin Dirs \union Files, t # Null,
         \/ Dirs' = Dirs /\ t \in Files'
         \/ Dirs' = Dirs \union {t} /\ Entries(t)' = Dots,
         \A i \in Files : data'[i] = data[i],
         NEW x, x = IF t \in Dirs' THEN Folder ELSE data'[t]
  PROVE  \/ FilesOf' = FilesOf
         \/ \E p \in Tree!AllPaths : ~Tree!Has(p) /\ Tree!Room(p) /\ Tree!Put(p, x)
<1>1. CASE d \in Live
  <2>1. d \in Live \cap Dirs /\ n \in Names
    BY <1>1 DEF ProperTree, DotsLead
  <2> QED BY <2>1, AddedFiles
<1>2. CASE d \notin Live
  <2>1. Null \notin Dirs' /\ Live \subseteq Dirs \union Files
    BY TreeKids DEF Typed, TreeTypeOK, Null
  <2>2. \A e \in Live : e \in Dirs' <=> e \in Dirs
    BY <2>1
  <2>3. ASSUME NEW e \in Live, NEW m \in Names PROVE Find(e, m)' = Find(e, m)
    <3>1. e # d /\ (e \in Dirs' <=> e \in Dirs)
      BY <1>2, <2>2
    <3>2. e \in Dirs => dirents'[e] = dirents[e]
      BY <3>1 DEF Added
    <3> QED BY <3>1, <3>2 DEF Find, Entries
  <2> QED BY <2>1, <2>2, <2>3, SameFiles
<1> QED BY <1>1, <1>2

\* The last command takes . and .. away, and no name.
LEMMA ExitFiles ==
  ASSUME Typed, Typed', ProperTree, Disown(Root)
  PROVE  FilesOf' = FilesOf
<1>1. /\ Dirs' = Dirs /\ data' = data /\ Null \notin Dirs'
      /\ \A e \in Dirs : \A m \in Names :
           /\ m \in Entries(e)' <=> m \in Entries(e)
           /\ m \in Entries(e)' => dirents'[e][m] = dirents[e][m]
  BY NamesAssumption DEF Disown, Restrict, Dirs, Entries, Typed, TreeTypeOK, Null
<1>2. \A e, m : m \in Names => Find(e, m)' = Find(e, m)
  BY <1>1 DEF Find
<1> QED BY <1>1, <1>2, SameFiles

LEMMA MakeFiles ==
  ASSUME IInv, IInv', sh = "running", NEW p \in Operands, NEW text \in Texts, Make(p, text)
  PROVE  TreeStep
<1> DEFINE d == ParentOf(p)
           i == Find(d, Last(p.parts))
<1>1. Last(p.parts) \in Names \union Dots
  BY LastName DEF Make
<1>2. CASE dirents' = dirents /\ data' = data
  BY <1>2, SpentFiles DEF TreeStep
<1>3. CASE d \in Dirs /\ i = Null /\ ~(dirents' = dirents /\ data' = data)
  <2>1. Null \notin Files
    BY DEF IInv, Typed, TreeTypeOK, Null
  <2>2. NewFile(d, Last(p.parts), text) /\ sh' = sh
    BY <1>3, <2>1 DEF Make, Report, Ends
  <2>3. Last(p.parts) \notin Entries(d) /\ Typed /\ Typed' /\ ProperTree /\ ProperTree'
    BY <1>3, <2>2, NotFound DEF IInv, Sound
  <2>4. Typed' /\ Dirs' = Dirs /\ Added(d, Last(p.parts))
    BY <1>1, <1>3, <2>2, <2>3, NewFileTyped
  <2>5. PICK t \in Inode : t = next_inode_nr /\ t \notin Dirs \union Files /\ t # Null
    BY <2>2, <2>3, FreshInode DEF NewFile, Null, Inode
  <2>6. /\ t \in Files' /\ data'[t] = text /\ t \notin Dirs'
        /\ \A j \in Files : data'[j] = data[j]
    BY <2>2, <2>4, <2>5 DEF NewFile, WithEntry, Files
  <2> HIDE DEF d, i
  <2>7. \/ FilesOf' = FilesOf
        \/ \E q \in Tree!AllPaths : ~Tree!Has(q) /\ Tree!Room(q) /\ Tree!Put(q, text)
    BY <1>1, <1>3, <2>3, <2>4, <2>5, <2>6, NewFiles
  <2> QED BY <2>7 DEF TreeStep, Tree!Write
<1>4. CASE d \in Dirs /\ i \in Files /\ i # Null
  <2>1. WriteFile(i, text) /\ sh' = sh
    BY <1>4 DEF Make, Report, Ends
  <2>2. Typed /\ Typed' /\ ProperTree /\ ProperTree'
    BY <2>1 DEF IInv, Sound
  <2> HIDE DEF i
  <2> QED BY <1>4, <2>1, <2>2, WrittenFiles
<1>5. CASE d \notin Dirs \/ (i # Null /\ i \notin Files)
  <2>1. dirents' = dirents /\ data' = data
    BY <1>5 DEF Make, Fails, tree
  <2> QED BY <1>2, <2>1
<1> QED BY <1>2, <1>3, <1>4, <1>5

LEMMA MkdirFiles ==
  ASSUME IInv, IInv', sh = "running", NEW p \in Operands, Mkdir(p)
  PROVE  TreeStep
<1> DEFINE d == ParentOf(p)
           i == Find(d, Last(p.parts))
<1>1. Last(p.parts) \in Names \union Dots
  BY LastName DEF Mkdir
<1>2. CASE d \in Dirs /\ i = Null
  <2>1. NewDirectory(d, Last(p.parts)) /\ sh' = sh
    BY <1>2 DEF Mkdir, Report, Ends
  <2>2. Last(p.parts) \notin Entries(d) /\ Typed /\ Typed' /\ ProperTree /\ ProperTree'
    BY <1>2, <2>1, NotFound DEF IInv, Sound
  <2>3. /\ Dirs' = Dirs \union {next_inode_nr} /\ Added(d, Last(p.parts))
        /\ dirents'[next_inode_nr] = [m \in Dots |-> IF m = "." THEN next_inode_nr ELSE d]
    BY <1>1, <1>2, <2>1, <2>2, NewDirectoryTyped
  <2>4. PICK t \in Inode : t = next_inode_nr /\ t \notin Dirs \union Files /\ t # Null
    BY <2>1, <2>2, FreshInode DEF NewDirectory, Null, Inode
  <2>5. /\ Dirs' = Dirs \union {t} /\ Entries(t)' = Dots /\ t \in Dirs'
        /\ \A j \in Files : data'[j] = data[j]
    BY <2>1, <2>3, <2>4 DEF NewDirectory, Entries
  <2> HIDE DEF d, i
  <2>6. \/ FilesOf' = FilesOf
        \/ \E q \in Tree!AllPaths : ~Tree!Has(q) /\ Tree!Room(q) /\ Tree!Put(q, Folder)
    BY <1>1, <1>2, <2>2, <2>3, <2>4, <2>5, NewFiles
  <2> QED BY <2>6 DEF TreeStep, Tree!MakeFolder
<1>3. CASE d \notin Dirs \/ i # Null
  <2>1. dirents' = dirents /\ data' = data
    BY <1>3 DEF Mkdir, Fails, tree
  <2> QED BY <2>1, SpentFiles DEF TreeStep
<1> QED BY <1>2, <1>3

LEMMA RemovalFiles ==
  ASSUME IInv, IInv', sh = "running", NEW p \in Operands, Rm(p) \/ Rmr(p)
  PROVE  TreeStep
<1>1. CASE Fails
  <2>1. dirents' = dirents /\ data' = data
    BY <1>1 DEF Fails, tree
  <2> QED BY <2>1, SpentFiles DEF TreeStep
<1>2. CASE ~Fails
  <2> DEFINE d == ParentOf(p)
  <2>1. RemoveFrom(d, Target(p))
    BY <1>2 DEF Rm, Rmr
  <2>2. PICK n \in FindName(d, Target(p)) :
          d \in Dirs /\ n \in Entries(d) /\ RemoveEntry(d, n) /\ sh' = sh
    BY <1>2, <2>1 DEF RemoveFrom, Report, Ends
  <2>3. n \notin Dots /\ Typed /\ Typed' /\ ProperTree /\ ProperTree'
    BY <2>2 DEF FindName, IInv, Sound
  <2> HIDE DEF d
  <2> QED BY <2>2, <2>3, RemovedFiles
<1> QED BY <1>1, <1>2

LEMMA NextFiles ==
  ASSUME IInv, IInv', Next
  PROVE  TreeStep
<1>1. sh = "running" /\ (Command \/ Malformed)
  BY DEF Next
<1>2. CASE \E p \in Operands : Rm(p) \/ Rmr(p)
  BY <1>1, <1>2, RemovalFiles
<1>3. CASE \E p \in Operands : Mkdir(p)
  BY <1>1, <1>3, MkdirFiles
<1>4. CASE \E p \in Operands, text \in Texts : Make(p, text)
  BY <1>1, <1>4, MakeFiles
<1>5. CASE \E status \in ExitCodes \union {exit_status} : Exit(status)
  <2>1. Typed /\ Typed' /\ ProperTree /\ Disown(Root)
    BY <1>1, <1>5 DEF IInv, Sound, Exit
  <2> QED BY <2>1, ExitFiles DEF TreeStep
<1>6. CASE \/ CdRoot \/ \E p \in Operands \ {Slash} : Cd(p)
           \/ \E p \in Operands : Cat(p) \/ Ls(p) \/ Lsr(p)
           \/ Pwd \/ LsHere \/ LsRoot \/ LsrHere \/ LsrRoot
           \/ BadCommand \/ Malformed
  <2>1. dirents' = dirents /\ data' = data
    BY <1>6 DEF CdRoot, Cd, Enter, Cat, Ls, Lsr, Pwd, LsHere, LsRoot, LsrHere, LsrRoot,
                BadCommand, Malformed, Fails, Reads, tree
  <2> QED BY <2>1, SpentFiles DEF TreeStep
<1> QED BY <1>1, <1>2, <1>3, <1>4, <1>5, <1>6 DEF Command

\* At first there is the root alone.
LEMMA FirstFiles == Init => Tree!Init
<1> SUFFICES ASSUME Init PROVE Tree!Init
  OBVIOUS
<1>1. IInv /\ Typed /\ ProperTree
  BY InitIInv DEF IInv, Sound, Init
<1>2. Dirs = {Root} /\ Entries(Root) = Dots /\ Null \notin Dirs /\ Root # Null
  BY DEF Init, TreeInit, Dirs, Entries, Null, Root
<1>3. \A d, n : n \in Names => Find(d, n) = Null
  BY <1>2, NamesAssumption DEF Find
<1>4. ASSUME NEW q \in NamePaths PROVE Leads(q) # Null <=> q = <<>>
  <2>1. CASE q = <<>>
    BY <1>2, <2>1, LeadByParts DEF ByParts
  <2>2. CASE q # <<>>
    <3>1. Last(q) \in Names
      BY <2>2, FrontType DEF NamePaths
    <3> QED BY <1>3, <2>2, <3>1, LeadByParts DEF ByParts
  <2> QED BY <2>1, <2>2
<1>5. <<>> \in NamePaths /\ Leads(<<>>) = Root
  BY LeadByParts, EmptySeq DEF ByParts, NamePaths
<1>6. {q \in NamePaths : Leads(q) # Null} = {<<>>}
  BY <1>4, <1>5
<1>7. FilesOf = [q \in {q \in NamePaths : Leads(q) # Null} |-> TreeOf(q)]
  BY <1>1, FilesAreAll DEF AllFiles, TreeOf
<1>8. TreeOf(<<>>) = Folder
  BY <1>2, <1>5 DEF TreeOf
<1>9. FilesOf = [q \in {<<>>} |-> Folder]
  BY <1>6, <1>7, <1>8
<1> QED BY <1>9 DEF Tree!Init

\* Each command changes the tree of names at one path, as FileTree may, or not at all;
\* from a directory that was removed, not at all.
THEOREM Refinement == Spec => ImplementsFileTree
<1>1. Init => Tree!Init
  BY FirstFiles
<1>2. IInv /\ IInv' /\ [Next]_vars => [Tree!Next]_FilesOf
  <2> SUFFICES ASSUME IInv, IInv', [Next]_vars PROVE TreeStep
    BY DEF TreeStep, Tree!Next
  <2>1. CASE Next
    BY <2>1, NextFiles
  <2>2. CASE UNCHANGED vars
    <3>1. dirents' = dirents /\ data' = data
      BY <2>2 DEF vars, tree
    <3> QED BY <3>1, SpentFiles DEF TreeStep
  <2> QED BY <2>1, <2>2
<1> QED BY <1>1, <1>2, Invariance, PTL DEF Spec, ImplementsFileTree, Tree!Spec
==============================================================================
