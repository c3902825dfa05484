------------------------------ MODULE FileTree ------------------------------
(***************************************************************************)
(* A tree of named files, as its paths from the root: what the commands of   *)
(* yshell are meant to change, one path at a time.                          *)
(***************************************************************************)
EXTENDS Integers, SequencesExt

CONSTANTS
  Names, Texts,
  Folder,       \* what a path to a directory leads to
  Depth         \* bound of the model: the length of paths

VARIABLE files  \* from paths to texts or Folder

AllPaths == UNION {[1 .. k -> Names] : k \in 1 .. Depth}

Init == files = [p \in {<<>>} |-> Folder]

Has(p)    == p \in DOMAIN files
Room(p)   == Has(Front(p)) /\ files[Front(p)] = Folder
Put(p, x) == files' = [q \in DOMAIN files \union {p} |-> IF q = p THEN x ELSE files[q]]

Write(p, text) == Room(p) /\ (Has(p) => files[p] # Folder) /\ Put(p, text)
MakeFolder(p)  == Room(p) /\ ~Has(p) /\ Put(p, Folder)
Cut(p)         == Has(p) /\ files' = Restrict(files, {q \in DOMAIN files : ~IsPrefix(p, q)})

Next == files' # files /\ \E p \in AllPaths :
          MakeFolder(p) \/ Cut(p) \/ \E text \in Texts : Write(p, text)

Spec == Init /\ [][Next]_files
==============================================================================
