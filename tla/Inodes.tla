------------------------------- MODULE Inodes -------------------------------
(***************************************************************************)
(* The file tree that yshell keeps in memory (asg2-shell-fnptrs-oop/code/   *)
(* file_sys.cpp): inodes with serial numbers, plain files, and directories   *)
(* whose entries include . and .. as long as they are not disowned.          *)
(*                                                                         *)
(* An inode that no shared_ptr refers to is freed; it stays here, where      *)
(* nothing leads to it any more.                                           *)
(***************************************************************************)
EXTENDS Integers, FiniteSets, SequencesExt

CONSTANTS
  Names,     \* of entries, but . and ..
  Texts,     \* what may be written to a file: the lengths of its words
  MaxInode   \* bound of the model: how many inodes may be created

Dots == {".", ".."}

ASSUME NamesAssumption == Names \cap Dots = {}
ASSUME TextsAssumption == Texts \subseteq Seq(Nat) /\ <<>> \in Texts
ASSUME MaxInodeAssumption == MaxInode \in Nat \ {0}

Inode == 1 .. MaxInode
Null  == 0          \* nullptr
Root  == 1

VARIABLES
  next_inode_nr,
  dirents,   \* the entries of each directory
  size_,     \* its size, as it is counted
  data       \* the words of each plain file

tree == <<next_inode_nr, dirents, size_, data>>

Dirs  == DOMAIN dirents
Files == DOMAIN data
Entries(d) == DOMAIN dirents[d]

TreeTypeOK ==
  /\ next_inode_nr \in 2 .. MaxInode + 1
  /\ Dirs \subseteq 1 .. next_inode_nr - 1 /\ Files \subseteq 1 .. next_inode_nr - 1
  /\ Dirs \cap Files = {}
  /\ \A d \in Dirs : /\ Entries(d) \subseteq Names \union Dots
                     /\ \A n \in Entries(d) : dirents[d][n] \in Dirs \union Files
  /\ size_ \in [Dirs -> Nat]
  /\ data \in [Files -> Texts]

\* inode_state::inode_state
TreeInit ==
  /\ next_inode_nr = Root + 1
  /\ dirents = [d \in {Root} |-> [n \in Dots |-> Root]]
  /\ size_ = [d \in {Root} |-> 2]
  /\ data = <<>>

------------------------------------------------------------------------------
(* What is read. *)

\* find of a directory or plain file: the entry, or nullptr.
Find(i, n) == IF i \in Dirs /\ n \in Entries(i) THEN dirents[i][n] ELSE Null

\* Where the parts of a path lead from i.
Walk(i, parts) ==
  LET at[k \in 0 .. Len(parts)] == IF k = 0 THEN i ELSE Find(at[k - 1], parts[k])
  IN at[Len(parts)]

\* What the entries of each inode, but . and .., lead to.
Kids == [i \in Inode |->
  IF i \in Dirs THEN {dirents[i][n] : n \in Entries(i) \ Dots} ELSE {}]

\* All that a recursion from i into kids comes to.
Closed(kids, S) == \A i \in S : kids[i] \subseteq S
Reach(kids, i)  ==
  {j \in Inode : \A S \in SUBSET Inode : i \in S /\ Closed(kids, S) => j \in S}

\* i and what is below it.
Below(i) == Reach(Kids, i)

\* The directories and files that paths from the root lead to.
Live == Below(Root)

\* The names that find_name of d may return for i: at most one, as long as no
\* inode has two names.
FindName(d, i) ==
  IF \E n \in Entries(d) \ Dots : dirents[d][n] = i
  THEN {n \in Entries(d) \ Dots : dirents[d][n] = i}
  ELSE UNION {{n \in Entries(e) \ Dots : dirents[e][n] = i} : e \in Below(d) \cap Dirs}

\* plain_file::size
FileSize(text) == FoldLeft(+, 0, text) + (IF text = <<>> THEN 0 ELSE Len(text) - 1)

\* The inodes that build_path comes to from i, one .. after the other.
Up(i) ==
  LET up[k \in 0 .. MaxInode] ==
        IF k = 0 THEN i
        ELSE IF Find(up[k - 1], "..") = Null THEN up[k - 1] ELSE Find(up[k - 1], "..")
  IN up[MaxInode]

\* build_path ends where a directory is its own parent; a plain file throws, and
\* without an entry .. the end of the map is dereferenced.
BuildPath(i) ==
  LET top == Up(i)
  IN IF top \in Files THEN "error"
     ELSE IF Find(top, "..") = Null THEN "undefined"
     ELSE IF Find(top, "..") = top THEN "ok" ELSE "loops"

\* Six or more digits of the number or the size make _spaces count up to 2^64.
TooWide(i) == i >= 100000 \/ (IF i \in Files THEN FileSize(data[i]) ELSE size_[i]) >= 100000

List(i) ==
  IF i \in Files THEN "error"
  ELSE IF \E n \in Entries(i) : TooWide(dirents[i][n]) THEN "loops" ELSE "ok"

\* What one directory may do to print_recursive.
ListSubdir(d) ==
  IF Find(d, ".") = Null THEN "undefined"
  ELSE IF BuildPath(Find(d, ".")) # "ok" THEN BuildPath(Find(d, "."))
  ELSE List(d)

\* The ways in which listing i and all below it may end.  The order of entries is
\* not kept: any of the failures may be the first.
ListAll(i) ==
  IF i \in Files THEN {"error"}
  ELSE LET ends == {List(i)} \union {ListSubdir(d) : d \in (Below(i) \cap Dirs) \ {i}}
       IN IF ends = {"ok"} THEN ends ELSE ends \ {"ok"}

------------------------------------------------------------------------------
(* What is changed. *)

\* The constructor of inode, also of one that is dropped right away.
NewInode == next_inode_nr <= MaxInode /\ next_inode_nr' = next_inode_nr + 1

WithEntry(f, n, i) == [m \in DOMAIN f \union {n} |-> IF m = n THEN i ELSE f[m]]

\* directory::mkfile of a name that is not there, and plain_file::writefile.
NewFile(d, n, text) ==
  /\ NewInode
  /\ dirents' = [dirents EXCEPT ![d] = WithEntry(@, n, next_inode_nr)]
  /\ size_' = [size_ EXCEPT ![d] = @ + 1]
  /\ data' = WithEntry(data, next_inode_nr, text)

\* plain_file::writefile; mkfile has made an inode for nothing.
WriteFile(i, text) ==
  /\ NewInode
  /\ data' = [data EXCEPT ![i] = text]
  /\ UNCHANGED <<dirents, size_>>

\* Mutant: the parent of every directory is the root.
NewDirectoryOfRoot(d, n) ==
  /\ NewInode
  /\ dirents' = WithEntry([dirents EXCEPT ![d] = WithEntry(@, n, next_inode_nr)],
                          next_inode_nr,
                          [m \in Dots |-> IF m = "." THEN next_inode_nr ELSE Root])
  /\ size_' = WithEntry([size_ EXCEPT ![d] = @ + 1], next_inode_nr, 2)
  /\ UNCHANGED data

\* directory::mkdir, set_parent and set_dot.
NewDirectory(d, n) ==
  /\ NewInode
  /\ dirents' = WithEntry([dirents EXCEPT ![d] = WithEntry(@, n, next_inode_nr)],
                          next_inode_nr,
                          [m \in Dots |-> IF m = "." THEN next_inode_nr ELSE d])
  /\ size_' = WithEntry([size_ EXCEPT ![d] = @ + 1], next_inode_nr, 2)
  /\ UNCHANGED data

\* The entries when all directories of S have lost . and .., and d the entry n.
Without(S, d, n) ==
  [e \in Dirs |-> Restrict(dirents[e],
     (Entries(e) \ (IF e \in S THEN Dots ELSE {})) \ (IF e = d THEN {n} ELSE {}))]

\* directory::disown
Disown(i) ==
  /\ dirents' = [e \in Dirs |->
       IF e \in Below(i) THEN Restrict(dirents[e], Entries(e) \ Dots) ELSE dirents[e]]
  /\ UNCHANGED <<next_inode_nr, size_, data>>

\* Mutant: the size is left as it was.
RemoveEntryUncounted(d, n) ==
  /\ dirents' = Without(Below(dirents[d][n]), d, n)
  /\ UNCHANGED <<next_inode_nr, size_, data>>

\* Mutant: the directory is disowned, and not what is removed from it.
RemoveEntryDisowns(d, n) ==
  /\ dirents' = Without(Below(d), d, n)
  /\ size_' = [size_ EXCEPT ![d] = @ - 1]
  /\ UNCHANGED <<next_inode_nr, data>>

\* directory::rm of an entry that is there.
RemoveEntry(d, n) ==
  /\ dirents' = Without(Below(dirents[d][n]), d, n)
  /\ size_' = [size_ EXCEPT ![d] = @ - 1]
  /\ UNCHANGED <<next_inode_nr, data>>

------------------------------------------------------------------------------
(* What makes the tree correct, until it is disowned as a whole. *)

\* No inode has two names, and the root has none.
OneName ==
  \A d, e \in Dirs : \A m \in Entries(d) \ Dots, n \in Entries(e) \ Dots :
    dirents[d][m] = dirents[e][n] => d = e /\ m = n

RootUnnamed == \A d \in Dirs : Root \notin Kids[d]

\* In the tree . leads to where it is and .. to where it is an entry.
DotsLead ==
  \A d \in Live \cap Dirs :
    /\ Dots \subseteq Entries(d)
    /\ dirents[d]["."] = d
    /\ IF d = Root THEN dirents[d][".."] = Root
       ELSE dirents[d][".."] \in Live /\ d \in Kids[dirents[d][".."]]

\* The tree is a tree, . and .. agree with it, and nothing in it was disowned.
ProperTree == OneName /\ RootUnnamed /\ DotsLead
==============================================================================
