----------------------------- MODULE FileStore -----------------------------
(***************************************************************************)
(* What the server's directory looks like to clients who keep out of each   *)
(* other's way: a name has a whole file or none, put and rm act at once, and *)
(* only a child that is killed, or a disk that is full, leaves a part.       *)
(***************************************************************************)
CONSTANTS
  Names, Sources,
  NoFile,          \* a name that does not exist
  Whole(_),        \* the content of a source
  Parts(_)         \* what may be left of it

VARIABLE file      \* the content of each name

Init == file = [n \in Names |-> NoFile]

Put(n, s)    == file' = [file EXCEPT ![n] = Whole(s)]
Remove(n)    == file[n] # NoFile /\ file' = [file EXCEPT ![n] = NoFile]
Damage(n, s) == /\ file[n] = Whole(s)
                /\ \E p \in Parts(s) : file' = [file EXCEPT ![n] = p]

Next == \E n \in Names :
          Remove(n) \/ \E s \in Sources : Put(n, s) \/ Damage(n, s)

Spec == Init /\ [][Next]_file
==============================================================================
