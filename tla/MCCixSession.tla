----------------------------- MODULE MCCixSession -----------------------------
(* CixSession with small files and headers, for TLC. *)
EXTENDS CixSession

CONSTANT n1

OneName    == {n1}

\* Sizes are chosen around those of the kernel's buffer and of the header.
SmallSizes == {0, 1, 3}
LsOne      == {1}
LsLengths  == {0, 3}

Disks(names, tag, sizes) ==
  [names -> {Content(tag, k) : k \in sizes} \union {NoFile, Dir}]

SmallLocal  == Disks(Names, "local", SmallSizes)
SmallRemote == Disks(AllNames, "remote", SmallSizes)
BigLocal    == Disks(Names, "local", {1, 2})
BigRemote   == {[n \in AllNames |-> IF n = Stray THEN NoFile ELSE Content("remote", 2)]}

\* Sizes up to Wrap; the bytes may spell a command, or nothing.
FewCodes == {"PUT", "FILEOUT", "other"}
==============================================================================
