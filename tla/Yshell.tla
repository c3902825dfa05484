------------------------------- MODULE Yshell -------------------------------
(***************************************************************************)
(* yshell (asg2-shell-fnptrs-oop/code/commands.cpp and main.cpp): one        *)
(* action per command line, on the tree of Inodes.  What is printed is left  *)
(* out; that a command reports an error is not.                             *)
(***************************************************************************)
EXTENDS Inodes

CONSTANTS
  Paths,      \* the parts that an operand may have: names, . and ..
  Folder,     \* what FilesOf has for a directory
  ExitCodes   \* operands of exit

ASSUME PathsAssumption == Paths \subseteq Seq(Names \union Dots) \ {<<>>}
ASSUME FolderAssumption == Folder \notin Texts
ASSUME ExitCodesAssumption == ExitCodes \subseteq Int

\* An operand is its parts, as split makes them, and the slashes before them; of
\* slashes only, one or several, it has no parts.
Operand(slashes, parts) == [slashes |-> slashes, parts |-> parts]
Slash    == Operand(1, <<>>)
Slashes  == Operand(2, <<>>)
Operands == [slashes : {0, 1}, parts : Paths] \union {Slash, Slashes}

VARIABLES
  cwd,
  exit_status,
  sh           \* whether the shell runs, or how it ended

vars == <<tree, cwd, exit_status, sh>>

Ends == {"exited", "malformed", "undefined", "loops"}

TypeOK ==
  /\ TreeTypeOK
  /\ cwd \in Dirs
  /\ exit_status \in ExitCodes \union {0, 1}
  /\ sh \in Ends \union {"running"}

Init ==
  /\ TreeInit
  /\ cwd = Root
  /\ exit_status = 0
  /\ sh = "running"

\* A command ends: an error is reported, and the shell goes on; anything but
\* command_error and file_error is not caught.
Report(outcome) ==
  /\ sh' = IF outcome \in Ends THEN outcome ELSE sh
  /\ exit_status' = IF outcome = "error" THEN 1 ELSE exit_status

Fails == Report("error") /\ UNCHANGED <<tree, cwd>>

\* deal_with_path_ls: from the working directory, whether or not the operand begins
\* with a slash.
Target(p) == IF p = Slash THEN cwd ELSE Walk(cwd, p.parts)

\* deal_with_path_mk: where the part before the last leads.
ParentOf(p) == IF p = Slash THEN cwd ELSE Walk(cwd, Front(p.parts))

------------------------------------------------------------------------------
(* Commands that read. *)

Reads(outcome) == Report(outcome) /\ UNCHANGED <<tree, cwd>>

Cat(p) == Reads(IF Target(p) \in Files THEN "ok" ELSE "error")

\* Without operands the path of cwd is printed before its entries.
Here == IF cwd = Root THEN "ok" ELSE BuildPath(cwd)

Pwd == Reads(Here)

LsHere == Reads(IF Here = "ok" THEN List(cwd) ELSE Here)
LsRoot == Reads(List(Root))
Ls(p)  == Reads(IF Target(p) = Null THEN "error" ELSE List(Target(p)))

LsrHere == \E o \in IF Here = "ok" THEN ListAll(cwd) ELSE {Here} : Reads(o)
LsrRoot == \E o \in ListAll(Root) : Reads(o)
Lsr(p)  == \E o \in IF Target(p) = Null THEN {"error"} ELSE ListAll(Target(p)) : Reads(o)

------------------------------------------------------------------------------
(* Commands that change something. *)

Enter(d) == cwd' = d /\ Report("ok") /\ UNCHANGED tree

CdRoot == Enter(Root)

\* Mutant: a plain file is entered like a directory.
CdAny(p) == IF Target(p) # Null THEN Enter(Target(p)) ELSE Fails

Cd(p) == IF Target(p) \in Dirs THEN Enter(Target(p)) ELSE Fails

\* make and mkdir of / look for a name before the first part of none; of several
\* slashes, and rm and rmr too, throw out_of_range.
NoName(p) == p \in {Slash, Slashes}

\* Mutant: a directory gives way to a file of its name.
MakeOver(p, text) ==
  /\ ~NoName(p)
  /\ LET d == ParentOf(p)
     IN IF d \notin Dirs THEN Fails
        ELSE NewFile(d, Last(p.parts), text) /\ Report("ok") /\ UNCHANGED cwd

Make(p, text) ==
  /\ ~NoName(p)
  /\ LET d == ParentOf(p)
         i == Find(d, Last(p.parts))
     IN IF d \notin Dirs THEN Fails
        ELSE /\ CASE i = Null    -> NewFile(d, Last(p.parts), text)
                  [] i \in Files -> WriteFile(i, text)
                  [] OTHER       -> NewInode /\ UNCHANGED <<dirents, size_, data>>
             /\ Report(IF i \in Dirs THEN "error" ELSE "ok")
             /\ UNCHANGED cwd

\* Mutant: a directory that exists is good enough.
MkdirQuietly(p) ==
  /\ ~NoName(p)
  /\ LET d == ParentOf(p)
         i == Find(d, Last(p.parts))
     IN IF d \notin Dirs THEN Fails
        ELSE /\ IF i = Null THEN NewDirectory(d, Last(p.parts))
                ELSE NewInode /\ UNCHANGED <<dirents, size_, data>>
             /\ Report("ok")
             /\ UNCHANGED cwd

Mkdir(p) ==
  /\ ~NoName(p)
  /\ LET d == ParentOf(p)
         i == Find(d, Last(p.parts))
     IN IF d \notin Dirs THEN Fails
        ELSE /\ IF i = Null THEN NewDirectory(d, Last(p.parts))
                ELSE NewInode /\ UNCHANGED <<dirents, size_, data>>
             /\ Report(IF i = Null THEN "ok" ELSE "error")
             /\ UNCHANGED cwd

\* Mutant: the entry is removed from the working directory.
RemoveFromHere(d, i) ==
  LET found == FindName(d, i)
  IN IF found = {} THEN Fails
     ELSE \E n \in found :
            IF n \notin Entries(cwd) THEN Fails
            ELSE RemoveEntry(cwd, n) /\ Report("ok") /\ UNCHANGED cwd

\* The parent removes the entry that find_name finds, if it is its own.
RemoveFrom(d, i) ==
  LET found == FindName(d, i)
  IN IF d \notin Dirs \/ found = {} THEN Fails
     ELSE \E n \in found :
            IF n \notin Entries(d) THEN Fails
            ELSE RemoveEntry(d, n) /\ Report("ok") /\ UNCHANGED cwd

\* Mutant: directories need not be empty.
RmFull(p) ==
  /\ p # Slashes
  /\ LET i == Target(p)
     IN IF i = Null THEN Fails ELSE RemoveFrom(ParentOf(p), i)

Rm(p) ==
  /\ p # Slashes
  /\ LET i == Target(p)
     IN IF i = Null \/ (i \in Dirs /\ size_[i] # 2) THEN Fails
        ELSE RemoveFrom(ParentOf(p), i)

Rmr(p) ==
  /\ p # Slashes
  /\ LET i == Target(p)
     IN IF i = Null THEN Fails ELSE RemoveFrom(ParentOf(p), i)

\* exit, or the end of the input: the tree is disowned from the root.
Exit(status) ==
  /\ exit_status' = status
  /\ sh' = "exited"
  /\ Disown(Root)
  /\ UNCHANGED cwd

------------------------------------------------------------------------------
(* Lines that are no proper commands. *)

\* A command that does not exist; cat, rm or rmr without operands; cd with several.
BadCommand == Fails

\* An empty line, make or mkdir without operands, or with one that has no name in
\* it: nothing catches out_of_range, or the last of no parts is read.
Malformed == Reads("malformed")

Command ==
  \/ \E p \in Operands : Cat(p) \/ Ls(p) \/ Lsr(p) \/ Rm(p) \/ Rmr(p) \/ Mkdir(p)
  \/ \E p \in Operands, text \in Texts : Make(p, text)
  \/ \E p \in Operands \ {Slash} : Cd(p)
  \/ Pwd \/ LsHere \/ LsRoot \/ LsrHere \/ LsrRoot \/ CdRoot
  \/ \E status \in ExitCodes \union {exit_status} : Exit(status)
  \/ BadCommand

Next == sh = "running" /\ (Command \/ Malformed)

Spec == Init /\ [][Next]_vars

------------------------------------------------------------------------------
(* What makes the shell correct. *)

\* Until the shell ends the tree is a tree, whatever was removed from it and from
\* wherever.
TreeStands == sh # "exited" => ProperTree

\* The size that is kept beside the entries of a directory is their number: rm
\* takes a directory of size 2 for empty.
SizesAgree == sh # "exited" => \A d \in Live \cap Dirs : size_[d] = Cardinality(Entries(d))

\* In a directory of the tree every command returns, and every error is caught: but
\* for what is malformed, and listings of what is too wide.  Out of a directory that
\* was removed only what asks for its path ends the shell.
CommandsReturn ==
  [][sh' \in {"undefined", "loops"} =>
       \/ cwd \notin Live /\ UNCHANGED <<tree, cwd>>
       \/ sh' = "loops" /\ \E i \in Live : TooWide(i)]_vars

\* "if the first character is a slash (/), decoding begins at the root, otherwise it
\* begins with the current directory": what an operand names in the assignment.
Named(p) == Walk(IF p.slashes = 0 THEN cwd ELSE Root, p.parts)

\* rm and rmr remove what their operand names, and what is below it, or nothing;
\* wherever find_name looks for it, and whatever . and .. the operand has.  Not
\* so an operand that begins with a slash, but at the root: the commands begin at the
\* working directory all the same (commands.cpp:48-66).
RemovesNamed ==
  [][dirents' # dirents =>
       \A p \in Operands :
         (Rm(p) \/ Rmr(p)) /\ (p.slashes = 0 \/ cwd = Root) =>
           Live' = Live \ Below(Named(p))]_vars

\* rm never takes more than one inode out of the tree: a directory that has
\* entries stays.
RmRemovesOne ==
  [][dirents' # dirents =>
       \A p \in Operands : Rm(p) => Cardinality(Live \ Live') <= 1]_vars

\* A command that does not do what it is for, says so by the exit status.
FailuresTell ==
  [][dirents' = dirents /\ exit_status' # 1 =>
       \A p \in Operands : ~(Mkdir(p) \/ Rm(p) \/ Rmr(p))]_vars

\* The paths that lead from the root to something, and to what.
FilesOf ==
  LET at(q) == Walk(Root, q)
      paths == {q \in UNION {[1 .. k -> Names] : k \in 0 .. MaxInode - 1} : at(q) # Null}
  IN [q \in paths |-> IF at(q) \in Dirs THEN Folder ELSE data[at(q)]]

Tree == INSTANCE FileTree WITH files <- FilesOf, Depth <- MaxInode - 1

\* A command changes the tree of names at one path, as FileTree does, or not at
\* all; in a directory that was removed, not at all.
ImplementsFileTree == Tree!Spec

\* "parent is equal to itself we are at the root of our tree" (file_sys.cpp:485):
\* the way up from the working directory ends at the root.
UpEndsAtRoot == sh = "running" => Up(cwd) = Root
==============================================================================
