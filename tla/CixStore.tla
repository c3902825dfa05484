------------------------------ MODULE CixStore ------------------------------
(***************************************************************************)
(* The directory that all children of cixd share, system call by system     *)
(* call (reply_put, reply_get and reply_rm of asg4-client-server/code/      *)
(* cixd.cpp).  A name leads to an inode; fopen (name, "w") truncates it,     *)
(* fwrite and fclose write it in pieces, reply_get measures it and reads as  *)
(* much in pieces, and unlink takes the name away from those that still      *)
(* have it open.                                                           *)
(*                                                                         *)
(* The payload of a put has been received before its file is opened, and a   *)
(* get is sent after its file is closed, so that messages (CixSession) play  *)
(* no part here.  A request that is refused for a name it cannot open        *)
(* changes nothing here, nor does ls.                                       *)
(***************************************************************************)
EXTENDS Integers, Sequences

CONSTANTS
  Children,   \* server children, each serving one client after the other
  Names, Inodes,
  NoIno,      \* no inode
  Sources,    \* local files that clients put
  Size,       \* their lengths, in the pieces that one write may move
  Hole        \* what a write behind the end of a file leaves before it

ASSUME NamesAssumption == NoIno \notin Inodes /\ Hole \notin Sources
ASSUME SizeAssumption == Size \in [Sources -> Nat]

\* A content says of each piece whose it is; a piece has its place in its source.
Content  == Seq(Sources \union {Hole})
Part(s, k) == [i \in 1 .. k |-> s]
Whole(s) == Part(s, Size[s])
Parts(s) == {Part(s, k) : k \in 0 .. Size[s]}

ASSUME NoInoAssumption == NoIno \notin Content

VARIABLES
  dir,       \* the inode each name leads to
  bytes,     \* the content of each inode
  job,       \* what each child does
  disturbed  \* history: whose file was put by another since it opened it

vars == <<dir, bytes, job, disturbed>>

\* ino is the file that is open; src, pos are of a put, and seen (the content when
\* it was opened, for the properties), size and buf of a get.
Jobs ==
  [at   : {"idle", "write", "failed", "measure", "read"},
   ino  : Inodes \union {NoIno},
   src  : Sources \union {Hole},
   pos  : Nat,
   size : Nat,
   buf  : Content,
   seen : Content]

NoJob == [at |-> "idle", ino |-> NoIno, src |-> Hole, pos |-> 0, size |-> 0,
          buf |-> <<>>, seen |-> <<>>]

TypeOK ==
  /\ dir \in [Names -> Inodes \union {NoIno}]
  /\ bytes \in [Inodes -> Content]
  /\ job \in [Children -> Jobs]
  /\ disturbed \in SUBSET Children
  \* no inode has two names, and a name none that was freed
  /\ \A m, n \in Names : dir[m] = dir[n] /\ dir[m] # NoIno => m = n

Init ==
  /\ dir = [n \in Names |-> NoIno]
  /\ bytes = [i \in Inodes |-> <<>>]
  /\ job = [c \in Children |-> NoJob]
  /\ disturbed = {}

Users(i)   == {c \in Children : job[c].ino = i}
Writers(i) == {c \in Users(i) : job[c].at = "write"}
Free       == {i \in Inodes : Users(i) = {} /\ \A n \in Names : dir[n] # i}

\* The kernel drops the content of an inode that no name leads to and nobody has open.
FreeUnused == bytes' = [i \in Inodes |-> IF i \in Free' THEN <<>> ELSE bytes[i]]

\* Child c has replied, or is gone.
Release(c) ==
  /\ job' = [job EXCEPT ![c] = NoJob]
  /\ disturbed' = disturbed \ {c}
  /\ UNCHANGED dir
  /\ FreeUnused

------------------------------------------------------------------------------
(* reply_put *)

\* Mutant: the file is opened without being truncated.
PutOpensOver(c, n, s) ==
  /\ job[c].at = "idle"
  /\ \E i \in IF dir[n] = NoIno THEN Free ELSE {dir[n]} :
       /\ dir' = [dir EXCEPT ![n] = i]
       /\ bytes' = [bytes EXCEPT ![i] = IF dir[n] = NoIno THEN <<>> ELSE @]
       /\ job' = [job EXCEPT ![c] = [NoJob EXCEPT !.at = "write", !.ino = i, !.src = s]]
       /\ disturbed' = disturbed \union Users(i)
                         \union (IF Writers(i) = {} THEN {} ELSE {c})

\* fopen (header.filename, "w")
PutOpens(c, n, s) ==
  /\ job[c].at = "idle"
  /\ \E i \in IF dir[n] = NoIno THEN Free ELSE {dir[n]} :
       /\ dir' = [dir EXCEPT ![n] = i]
       /\ bytes' = [bytes EXCEPT ![i] = <<>>]
       /\ job' = [job EXCEPT ![c] = [NoJob EXCEPT !.at = "write", !.ino = i, !.src = s]]
       /\ disturbed' = disturbed \union Users(i)
                         \union (IF Writers(i) = {} THEN {} ELSE {c})

\* The content b when k pieces of s are written at pos.
Overwrite(b, pos, k, s) ==
  [i \in 1 .. (IF pos + k > Len(b) THEN pos + k ELSE Len(b)) |->
     IF i \in pos + 1 .. pos + k THEN s
     ELSE IF i <= Len(b) THEN b[i] ELSE Hole]

\* One write of fwrite or fclose.
PutWrites(c, k) ==
  LET j == job[c]
  IN /\ j.at = "write" /\ j.pos + k <= Size[j.src]
     /\ bytes' = [bytes EXCEPT ![j.ino] = Overwrite(@, j.pos, k, j.src)]
     /\ job' = [job EXCEPT ![c].pos = @ + k]
     /\ UNCHANGED <<dir, disturbed>>

\* A write fails, and stdio writes no more.
PutFails(c) ==
  /\ job[c].at = "write" /\ job[c].pos < Size[job[c].src]
  /\ job' = [job EXCEPT ![c].at = "failed"]
  /\ UNCHANGED <<dir, bytes, disturbed>>

\* fclose has written the last piece: ACK.  After a write that failed, ACK or NAK.
PutReplies(c) ==
  /\ \/ job[c].at = "write" /\ job[c].pos = Size[job[c].src]
     \/ job[c].at = "failed"
  /\ Release(c)

------------------------------------------------------------------------------
(* reply_get *)

\* fopen (header.filename, "r")
GetOpens(c, n) ==
  /\ job[c].at = "idle" /\ dir[n] # NoIno
  /\ job' = [job EXCEPT ![c] = [NoJob EXCEPT !.at = "measure", !.ino = dir[n],
                                            !.seen = bytes[dir[n]]]]
  /\ disturbed' = disturbed \union (IF Writers(dir[n]) = {} THEN {} ELSE {c})
  /\ UNCHANGED <<dir, bytes>>

\* Mutant: the size is asked of the name, as by stat, and not of the open file.
GetMeasuresName(c) ==
  /\ job[c].at = "measure"
  /\ \E n \in Names :
       /\ dir[n] # NoIno
       /\ job' = [job EXCEPT ![c].at = "read", ![c].size = Len(bytes[dir[n]])]
  /\ UNCHANGED <<dir, bytes, disturbed>>

\* Mutant: the size is the place of the last byte.
GetMeasuresLast(c) ==
  /\ job[c].at = "measure"
  /\ job' = [job EXCEPT ![c].at = "read", ![c].size = Len(bytes[job[c].ino]) - 1]
  /\ UNCHANGED <<dir, bytes, disturbed>>

\* fseek, ftell, rewind
GetMeasures(c) ==
  /\ job[c].at = "measure"
  /\ job' = [job EXCEPT ![c].at = "read", ![c].size = Len(bytes[job[c].ino])]
  /\ UNCHANGED <<dir, bytes, disturbed>>

\* One read of fread.
GetReads(c, k) ==
  LET j   == job[c]
      pos == Len(j.buf)
  IN /\ j.at = "read" /\ pos + k <= j.size /\ pos + k <= Len(bytes[j.ino])
     /\ job' = [job EXCEPT ![c].buf = @ \o SubSeq(bytes[j.ino], pos + 1, pos + k)]
     /\ UNCHANGED <<dir, bytes, disturbed>>

HasRead(c) == job[c].at = "read" /\ Len(job[c].buf) = job[c].size

\* fread has all that was measured: FILEOUT; or it has met the end: NAK, which
\* ends the client, and so the child.
GetReplies(c) ==
  /\ HasRead(c) \/ (job[c].at = "read" /\ Len(bytes[job[c].ino]) <= Len(job[c].buf))
  /\ Release(c)

------------------------------------------------------------------------------
\* reply_rm: unlink.
Rm(c, n) ==
  /\ job[c].at = "idle" /\ dir[n] # NoIno
  /\ dir' = [dir EXCEPT ![n] = NoIno]
  /\ UNCHANGED <<job, disturbed>>
  /\ FreeUnused

\* A child dies, and another will be forked.
ChildDies(c) == job[c].at # "idle" /\ Release(c)

Pieces == UNION {1 .. Size[s] : s \in Sources}

Next ==
  \E c \in Children :
    \/ \E n \in Names : Rm(c, n) \/ GetOpens(c, n) \/ \E s \in Sources : PutOpens(c, n, s)
    \/ \E k \in Pieces : PutWrites(c, k) \/ GetReads(c, k)
    \/ PutFails(c) \/ PutReplies(c) \/ GetMeasures(c) \/ GetReplies(c) \/ ChildDies(c)

Spec == Init /\ [][Next]_vars

\* Clients who do not put what another is putting or getting.  They may remove it.
PoliteNext == Next /\ disturbed' = {}
PoliteSpec == Init /\ [][PoliteNext]_vars

------------------------------------------------------------------------------
(* What makes the directory correct. *)

\* A get whose file is put by nobody from its fopen to its fread is never cut
\* short, and returns what the file had when it was opened: also if the name is
\* removed in the meantime, and put again.
UndisturbedGet ==
  \A c \in Children \ disturbed :
    LET j == job[c]
    IN j.at \in {"measure", "read"} =>
         /\ bytes[j.ino] = j.seen
         /\ j.at = "read" => /\ j.size = Len(j.seen)
                             /\ j.buf = SubSeq(j.seen, 1, Len(j.buf))

\* A put whose file is put by nobody else from its fopen to its fclose has
\* stored its source in full when it is acknowledged, whatever readers do, and
\* whoever died while writing that file before.
UndisturbedPut ==
  \A c \in Children \ disturbed :
    job[c].at = "write" => bytes[job[c].ino] = Part(job[c].src, job[c].pos)

\* "Copy remote file to local host" (cix.cpp:36): a get returns a file that was put.
GetsAreWhole ==
  \A c \in Children : HasRead(c) => \E s \in Sources : job[c].buf = Whole(s)

\* What the clients of FileStore see: a put is done when its file is opened, as
\* nobody looks at it before it is written.
FileOf(n) ==
  IF dir[n] = NoIno THEN NoIno
  ELSE IF Writers(dir[n]) = {} THEN bytes[dir[n]]
  ELSE Whole(job[CHOOSE c \in Writers(dir[n]) : TRUE].src)

Store == INSTANCE FileStore WITH
  NoFile <- NoIno, file <- [n \in Names |-> FileOf(n)]

\* Between clients who do not put what another uses, the directory is a
\* FileStore: whole files replace whole files.
ImplementsFileStore == Store!Spec
==============================================================================
