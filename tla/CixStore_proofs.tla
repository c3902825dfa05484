--------------------------- MODULE CixStore_proofs ---------------------------
(***************************************************************************)
(* Proofs about CixStore, for any children, names, inodes and files: the     *)
(* types, that who is not disturbed reads and stores whole files, and that   *)
(* polite clients see a FileStore.                                          *)
(***************************************************************************)
EXTENDS CixStore, TLAPS, SequenceTheorems

USE NamesAssumption, SizeAssumption, NoInoAssumption

------------------------------------------------------------------------------
(* Contents. *)

LEMMA SizeIsNat == \A s \in Sources : Size[s] \in Nat
  OBVIOUS

\* A part of a file is a content, of its length.
LEMMA PartIsContent ==
  ASSUME NEW s \in Sources \union {Hole}, NEW k \in Nat
  PROVE  /\ Part(s, k) \in Content /\ Len(Part(s, k)) = k
         /\ \A i \in 1 .. k : Part(s, k)[i] = s
  BY DEF Part, Content

LEMMA ContentLen ==
  ASSUME NEW b \in Content
  PROVE  /\ Len(b) \in Nat /\ DOMAIN b = 1 .. Len(b)
         /\ \A i \in 1 .. Len(b) : b[i] \in Sources \union {Hole}
  BY DEF Content

LEMMA NothingIsContent == <<>> \in Content /\ Len(<<>>) = 0
  BY DEF Content

LEMMA NothingIsPart == \A s : <<>> = Part(s, 0)
<1> TAKE s
<1>1. DOMAIN Part(s, 0) = {} /\ Part(s, 0) \in Seq({s})
  BY DEF Part
<1> QED BY <1>1, EmptySeq

\* What is written onto a content is one.
LEMMA OverwriteIsContent ==
  ASSUME NEW b \in Content, NEW s \in Sources, NEW p \in Nat, NEW k \in Nat
  PROVE  Overwrite(b, p, k, s) \in Content
<1> DEFINE n == IF p + k > Len(b) THEN p + k ELSE Len(b)
<1>1. n \in Nat
  BY ContentLen
<1>2. \A i \in 1 .. n :
        (IF i \in p + 1 .. p + k THEN s ELSE IF i <= Len(b) THEN b[i] ELSE Hole)
          \in Sources \union {Hole}
  BY ContentLen
<1> HIDE DEF n
<1>3. [i \in 1 .. n |->
        IF i \in p + 1 .. p + k THEN s ELSE IF i <= Len(b) THEN b[i] ELSE Hole] \in Content
  BY <1>1, <1>2 DEF Content
<1> QED BY <1>3 DEF Overwrite, n

\* The next pieces of a file, written behind a part of it, are a larger part.
LEMMA OverwritePart ==
  ASSUME NEW s \in Sources, NEW p \in Nat, NEW k \in Nat
  PROVE  Overwrite(Part(s, p), p, k, s) = Part(s, p + k)
<1>1. Len(Part(s, p)) = p /\ \A i \in 1 .. p : Part(s, p)[i] = s
  BY PartIsContent
<1>2. (IF p + k > p THEN p + k ELSE p) = p + k
  OBVIOUS
<1>3. \A i \in 1 .. p + k :
        (IF i \in p + 1 .. p + k THEN s ELSE IF i <= p THEN Part(s, p)[i] ELSE Hole) = s
  BY <1>1
<1> QED BY <1>1, <1>2, <1>3 DEF Overwrite, Part

\* Reading on from where one has come to.
LEMMA ReadOn ==
  ASSUME NEW b \in Content, NEW p \in Nat, NEW k \in Nat, p + k <= Len(b)
  PROVE  /\ SubSeq(b, p + 1, p + k) \in Content
         /\ SubSeq(b, 1, p) \o SubSeq(b, p + 1, p + k) = SubSeq(b, 1, p + k)
         /\ Len(SubSeq(b, 1, p + k)) = p + k
<1>1. Len(b) \in Nat
  BY ContentLen
<1>2. /\ Len(SubSeq(b, p + 1, p + k)) = k
      /\ Len(SubSeq(b, 1, p)) = p /\ Len(SubSeq(b, 1, p + k)) = p + k
  BY <1>1 DEF Content
<1>3. /\ SubSeq(b, p + 1, p + k) \in Content /\ SubSeq(b, 1, p) \in Content
      /\ SubSeq(b, 1, p + k) \in Content
  BY <1>1 DEF Content
<1>4. \A i \in 1 .. k : SubSeq(b, p + 1, p + k)[i] = b[p + i]
  BY <1>1 DEF Content
<1>5. /\ \A i \in 1 .. p : SubSeq(b, 1, p)[i] = b[i]
      /\ \A i \in 1 .. p + k : SubSeq(b, 1, p + k)[i] = b[i]
  BY <1>1 DEF Content
<1> DEFINE l == SubSeq(b, 1, p)
           r == SubSeq(b, p + 1, p + k)
           a == SubSeq(b, 1, p + k)
<1>6. l \o r \in Content /\ Len(l \o r) = p + k
  BY <1>2, <1>3 DEF Content
<1>7. ASSUME NEW i \in 1 .. p + k PROVE (l \o r)[i] = a[i]
  <2>1. CASE i <= p
    <3>1. i \in 1 .. p /\ i \in 1 .. Len(l)
      BY <2>1, <1>2
    <3>2. (l \o r)[i] = l[i]
      BY <3>1, <1>2, <1>3 DEF Content
    <3> QED BY <3>1, <3>2, <1>5
  <2>2. CASE i > p
    <3>1. i - p \in 1 .. k /\ p + (i - p) = i
      BY <2>2
    <3>2. (l \o r)[i] = r[i - p]
      BY <2>2, <1>2, <1>3 DEF Content
    <3> QED BY <3>1, <3>2, <1>4, <1>5
  <2> QED BY <2>1, <2>2
<1> HIDE DEF l, r, a
<1>8. a \in Content /\ Len(a) = p + k
  BY <1>2, <1>3 DEF a
<1>9. l \o r = a
  BY <1>6, <1>7, <1>8, SeqEqual DEF Content
<1> QED BY <1>2, <1>3, <1>9 DEF l, r, a

LEMMA JoinIsContent ==
  ASSUME NEW a \in Content, NEW b \in Content
  PROVE  a \o b \in Content /\ Len(a \o b) = Len(a) + Len(b)
  BY DEF Content

LEMMA ReadNothing == \A b \in Content : SubSeq(b, 1, Len(<<>>)) = <<>>
<1> TAKE b \in Content
<1>1. SubSeq(b, 1, 0) \in Content /\ Len(SubSeq(b, 1, 0)) = 0
  BY DEF Content
<1> QED BY <1>1, NothingIsContent, EmptySeq DEF Content

------------------------------------------------------------------------------
(* The inductive invariant. *)

\* What a job's fields are worth where it stands.
Sane(c) ==
  LET j == job[c]
  IN /\ IF j.at = "idle" THEN j.ino = NoIno ELSE j.ino \in Inodes
     /\ j.at \in {"write", "failed"} => j.src \in Sources /\ j.pos \in 0 .. Size[j.src]
     /\ j.at = "measure" => j.buf = <<>>
     /\ j.at = "read" => Len(j.buf) <= j.size

\* Who shares a file with a writer has been disturbed, or will never look at it again.
Shared ==
  \A c, d \in Children :
    /\ c # d /\ job[c].ino = job[d].ino
    /\ job[d].at = "write" /\ job[c].at \in {"write", "measure", "read"}
    => c \in disturbed

IInv ==
  TypeOK /\ (\A c \in Children : Sane(c)) /\ Shared /\ UndisturbedPut /\ UndisturbedGet

LEMMA NoJobType == NoJob \in Jobs
  BY NothingIsContent DEF NoJob, Jobs

LEMMA InitIInv == Init => IInv
<1> SUFFICES ASSUME Init PROVE IInv
  OBVIOUS
<1>1. TypeOK
  BY NothingIsContent, NoJobType DEF Init, TypeOK
<1>2. \A c \in Children : job[c].at = "idle" /\ job[c].ino = NoIno
  BY DEF Init, NoJob
<1> QED BY <1>1, <1>2 DEF IInv, Sane, Shared, UndisturbedPut, UndisturbedGet

------------------------------------------------------------------------------
(* Types. *)

LEMMA JobType ==
  ASSUME TypeOK, NEW c \in Children
  PROVE  /\ job[c] \in Jobs /\ job[c].pos \in Nat /\ job[c].size \in Nat
         /\ job[c].buf \in Content /\ job[c].seen \in Content
         /\ job[c].ino \in Inodes \union {NoIno}
         /\ \A i \in Inodes : bytes[i] \in Content /\ Len(bytes[i]) \in Nat
  BY ContentLen DEF TypeOK, Jobs

LEMMA FreeUnusedType ==
  ASSUME TypeOK, FreeUnused
  PROVE  bytes' \in [Inodes -> Content]
  BY NothingIsContent DEF TypeOK, FreeUnused

LEMMA ReleaseType ==
  ASSUME TypeOK, NEW c \in Children, Release(c)
  PROVE  TypeOK'
  BY FreeUnusedType, NoJobType DEF Release, TypeOK

LEMMA PutOpensType ==
  ASSUME TypeOK, NEW c \in Children, NEW n \in Names, NEW s \in Sources, PutOpens(c, n, s)
  PROVE  TypeOK'
<1>1. PICK i \in IF dir[n] = NoIno THEN Free ELSE {dir[n]} :
        /\ dir' = [dir EXCEPT ![n] = i]
        /\ bytes' = [bytes EXCEPT ![i] = <<>>]
        /\ job' = [job EXCEPT ![c] = [NoJob EXCEPT !.at = "write", !.ino = i, !.src = s]]
        /\ disturbed' = disturbed \union Users(i)
                          \union (IF Writers(i) = {} THEN {} ELSE {c})
  BY DEF PutOpens
<1>2. i \in Inodes /\ \A m \in Names : m # n => dir[m] # i
  BY <1>1 DEF Free, TypeOK
<1>3. [NoJob EXCEPT !.at = "write", !.ino = i, !.src = s] \in Jobs
  BY <1>2, NoJobType DEF Jobs
<1>4. job' \in [Children -> Jobs]
  BY <1>1, <1>3 DEF TypeOK
<1>5. bytes' \in [Inodes -> Content]
  BY <1>1, <1>2, NothingIsContent DEF TypeOK
<1>6. disturbed' \in SUBSET Children
  BY <1>1 DEF TypeOK, Users
<1>7. dir' \in [Names -> Inodes \union {NoIno}]
  BY <1>1, <1>2 DEF TypeOK
<1>8. \A l, m \in Names : dir'[l] = dir'[m] /\ dir'[l] # NoIno => l = m
  BY <1>1, <1>2 DEF TypeOK
<1> QED BY <1>4, <1>5, <1>6, <1>7, <1>8 DEF TypeOK

LEMMA TypeOKStep == IInv /\ [Next]_vars => TypeOK'
<1> SUFFICES ASSUME IInv, [Next]_vars PROVE TypeOK'
  OBVIOUS
<1>0. TypeOK /\ \A c \in Children : Sane(c)
  BY DEF IInv
<1>1. ASSUME NEW c \in Children, NEW k \in Pieces, PutWrites(c, k) PROVE TypeOK'
  <2>1. k \in Nat
    BY DEF Pieces
  <2>2. job[c].ino \in Inodes /\ job[c].src \in Sources /\ job[c].pos + k \in Nat
    BY <1>0, <1>1, <2>1, JobType DEF PutWrites, Sane
  <2>3. Overwrite(bytes[job[c].ino], job[c].pos, k, job[c].src) \in Content
    BY <1>0, <2>1, <2>2, JobType, OverwriteIsContent
  <2>4. bytes' \in [Inodes -> Content]
    BY <1>0, <1>1, <2>3 DEF PutWrites, TypeOK
  <2>5. job' \in [Children -> Jobs]
    BY <1>0, <1>1, <2>2 DEF PutWrites, TypeOK, Jobs
  <2> QED BY <1>0, <1>1, <2>4, <2>5 DEF PutWrites, TypeOK
<1>2. ASSUME NEW c \in Children, NEW k \in Pieces, GetReads(c, k) PROVE TypeOK'
  <2>1. k \in Nat
    BY DEF Pieces
  <2>2. job[c].ino \in Inodes /\ Len(job[c].buf) \in Nat
    BY <1>0, <1>2, JobType, ContentLen DEF GetReads, Sane
  <2>3. SubSeq(bytes[job[c].ino], Len(job[c].buf) + 1, Len(job[c].buf) + k) \in Content
    BY <1>0, <1>2, <2>1, <2>2, JobType, ReadOn DEF GetReads
  <2>4. job[c].buf \o SubSeq(bytes[job[c].ino], Len(job[c].buf) + 1, Len(job[c].buf) + k)
          \in Content
    BY <1>0, <2>3, JobType, ConcatProperties DEF Content
  <2> DEFINE b == job[c].buf \o SubSeq(bytes[job[c].ino], Len(job[c].buf) + 1,
                                           Len(job[c].buf) + k)
  <2>5. job' = [job EXCEPT ![c] = [@ EXCEPT !.buf = b]]
    BY <1>2 DEF GetReads
  <2>6. b \in Content
    BY <2>4
  <2> HIDE DEF b
  <2>7. [job[c] EXCEPT !.buf = b] \in Jobs
    BY <1>0, <2>6, JobType DEF Jobs
  <2>8. job' \in [Children -> Jobs]
    BY <1>0, <2>5, <2>7 DEF TypeOK
  <2> QED BY <1>0, <1>2, <2>8 DEF GetReads, TypeOK
<1>3. ASSUME NEW c \in Children, PutFails(c) PROVE TypeOK'
  BY <1>0, <1>3 DEF PutFails, TypeOK, Jobs
<1>4. ASSUME NEW c \in Children, PutReplies(c) \/ GetReplies(c) \/ ChildDies(c) PROVE TypeOK'
  BY <1>0, <1>4, ReleaseType DEF PutReplies, GetReplies, ChildDies
<1>5. ASSUME NEW c \in Children, NEW n \in Names, GetOpens(c, n) PROVE TypeOK'
  <2>1. dir[n] \in Inodes
    BY <1>0, <1>5 DEF GetOpens, TypeOK
  <2>2. [NoJob EXCEPT !.at = "measure", !.ino = dir[n], !.seen = bytes[dir[n]]] \in Jobs
    BY <1>0, <2>1, JobType, NoJobType DEF Jobs
  <2> QED BY <1>0, <1>5, <2>2 DEF GetOpens, TypeOK
<1>6. ASSUME NEW c \in Children, GetMeasures(c) PROVE TypeOK'
  <2>1. job[c].ino \in Inodes
    BY <1>0, <1>6 DEF GetMeasures, Sane
  <2>2. [job[c] EXCEPT !.at = "read", !.size = Len(bytes[job[c].ino])] \in Jobs
    BY <1>0, <2>1, JobType DEF Jobs
  <2>3. job' = [job EXCEPT ![c] = [@ EXCEPT !.at = "read", !.size = Len(bytes[job[c].ino])]]
    BY <1>6 DEF GetMeasures
  <2>4. job' \in [Children -> Jobs]
    BY <1>0, <2>2, <2>3 DEF TypeOK
  <2> QED BY <1>0, <1>6, <2>4 DEF GetMeasures, TypeOK
<1>7. ASSUME NEW c \in Children, NEW n \in Names, Rm(c, n) PROVE TypeOK'
  <2>1. bytes' \in [Inodes -> Content]
    BY <1>0, <1>7, FreeUnusedType DEF Rm
  <2>2. /\ dir' \in [Names -> Inodes \union {NoIno}]
        /\ \A l, m \in Names : dir'[l] = dir'[m] /\ dir'[l] # NoIno => l = m
    BY <1>0, <1>7 DEF Rm, TypeOK
  <2> QED BY <1>0, <1>7, <2>1, <2>2 DEF Rm, TypeOK
<1>8. CASE UNCHANGED vars
  BY <1>0, <1>8 DEF TypeOK, vars
<1> QED
  BY <1>0, <1>1, <1>2, <1>3, <1>4, <1>5, <1>6, <1>7, <1>8, PutOpensType DEF Next

------------------------------------------------------------------------------
(* What the steps do to the rest of the invariant. *)

Rest == (\A c \in Children : Sane(c)) /\ Shared /\ UndisturbedPut /\ UndisturbedGet

\* A job that ends, and one that dies, leaves the others as they are.
LEMMA ReleaseRest ==
  ASSUME IInv, TypeOK', NEW c \in Children, Release(c)
  PROVE  Rest'
<1>1. /\ job'[c] = NoJob /\ \A d \in Children \ {c} : job'[d] = job[d]
      /\ disturbed' = disturbed \ {c}
  BY DEF Release, IInv, TypeOK
<1>2. ASSUME NEW d \in Children \ {c}, job[d].at # "idle"
      PROVE bytes'[job[d].ino] = bytes[job[d].ino]
  <2>1. job[d].ino \in Inodes /\ job'[d].ino = job[d].ino
    BY <1>1, <1>2 DEF IInv, Sane
  <2>2. job[d].ino \notin Free'
    BY <2>1 DEF Free, Users
  <2> QED BY <2>1, <2>2 DEF Release, FreeUnused
<1>3. job'[c].at = "idle" /\ job'[c].ino = NoIno
  BY <1>1 DEF NoJob
<1>4. (\A d \in Children : Sane(d))'
  BY <1>1, <1>3 DEF IInv, Sane
<1>5. Shared'
  BY <1>1, <1>3 DEF IInv, Shared
<1>6. UndisturbedPut' /\ UndisturbedGet'
  BY <1>1, <1>2, <1>3 DEF IInv, UndisturbedPut, UndisturbedGet
<1> QED BY <1>4, <1>5, <1>6 DEF Rest

LEMMA PutOpensRest ==
  ASSUME IInv, TypeOK', NEW c \in Children, NEW n \in Names, NEW s \in Sources,
         PutOpens(c, n, s)
  PROVE  Rest'
<1>1. PICK i \in IF dir[n] = NoIno THEN Free ELSE {dir[n]} :
        /\ bytes' = [bytes EXCEPT ![i] = <<>>]
        /\ job' = [job EXCEPT ![c] = [NoJob EXCEPT !.at = "write", !.ino = i, !.src = s]]
        /\ disturbed' = disturbed \union Users(i)
                          \union (IF Writers(i) = {} THEN {} ELSE {c})
  BY DEF PutOpens
<1>2. i \in Inodes
  BY <1>1 DEF Free, TypeOK, IInv
<1>3. /\ job'[c].at = "write" /\ job'[c].ino = i /\ job'[c].src = s /\ job'[c].pos = 0
      /\ \A d \in Children \ {c} : job'[d] = job[d]
      /\ bytes'[i] = <<>> /\ \A j \in Inodes \ {i} : bytes'[j] = bytes[j]
  BY <1>1, <1>2 DEF IInv, TypeOK, NoJob
<1>4. \A d \in Children \ {c} : job[d].ino = i => d \in disturbed'
  BY <1>1 DEF Users
<1>5. \A d \in Children \ {c} : job[d].ino = i /\ job[d].at = "write" => c \in disturbed'
  BY <1>1 DEF Users, Writers
<1>6. disturbed \subseteq disturbed'
  BY <1>1
<1>7. (\A d \in Children : Sane(d))'
  BY <1>2, <1>3, SizeIsNat DEF IInv, Sane
<1>8. Shared'
  BY <1>3, <1>4, <1>5, <1>6 DEF IInv, Shared
<1>9. UndisturbedPut'
  <2> SUFFICES ASSUME NEW d \in Children \ disturbed', job'[d].at = "write"
               PROVE bytes'[job'[d].ino] = Part(job'[d].src, job'[d].pos)
    BY DEF UndisturbedPut
  <2>1. CASE d = c
    BY <1>3, <2>1, NothingIsPart
  <2>2. CASE d # c
    <3>1. job'[d] = job[d] /\ job[d].ino # i /\ d \notin disturbed /\ job[d].ino \in Inodes
      BY <1>3, <1>4, <1>6, <2>2 DEF IInv, Sane
    <3> QED BY <1>3, <3>1 DEF IInv, UndisturbedPut
  <2> QED BY <2>1, <2>2
<1>10. UndisturbedGet'
  <2> SUFFICES ASSUME NEW d \in Children \ disturbed', job'[d].at \in {"measure", "read"}
               PROVE /\ bytes'[job'[d].ino] = job'[d].seen
                     /\ job'[d].at = "read" =>
                          /\ job'[d].size = Len(job'[d].seen)
                          /\ job'[d].buf = SubSeq(job'[d].seen, 1, Len(job'[d].buf))
    BY DEF UndisturbedGet
  <2>1. d # c
    BY <1>3
  <2>2. job'[d] = job[d] /\ job[d].ino # i /\ d \notin disturbed /\ job[d].ino \in Inodes
    BY <1>3, <1>4, <1>6, <2>1 DEF IInv, Sane
  <2> QED BY <1>3, <2>2 DEF IInv, UndisturbedGet
<1> QED BY <1>7, <1>8, <1>9, <1>10 DEF Rest

LEMMA PutWritesRest ==
  ASSUME IInv, TypeOK', NEW c \in Children, NEW k \in Nat, PutWrites(c, k)
  PROVE  Rest'
<1> DEFINE j == job[c]
<1>1. /\ j.at = "write" /\ j.ino \in Inodes /\ j.src \in Sources
      /\ j.pos \in Nat /\ j.pos + k \in 0 .. Size[j.src]
  BY SizeIsNat DEF PutWrites, IInv, Sane
<1>2. /\ job'[c].at = "write" /\ job'[c].ino = j.ino /\ job'[c].src = j.src
      /\ job'[c].pos = j.pos + k
      /\ \A d \in Children \ {c} : job'[d] = job[d]
      /\ bytes'[j.ino] = Overwrite(bytes[j.ino], j.pos, k, j.src)
      /\ \A i \in Inodes \ {j.ino} : bytes'[i] = bytes[i]
      /\ disturbed' = disturbed
  BY <1>1 DEF PutWrites, IInv, TypeOK, Jobs
<1> HIDE DEF j
<1>3. (\A d \in Children : Sane(d))'
  BY <1>1, <1>2 DEF IInv, Sane
<1>4. Shared'
  BY <1>1, <1>2 DEF IInv, Shared, j
<1>5. UndisturbedPut'
  <2> SUFFICES ASSUME NEW d \in Children \ disturbed, job'[d].at = "write"
               PROVE bytes'[job'[d].ino] = Part(job'[d].src, job'[d].pos)
    BY <1>2 DEF UndisturbedPut
  <2>1. CASE d = c
    <3>1. bytes[j.ino] = Part(j.src, j.pos)
      BY <1>1, <2>1 DEF IInv, UndisturbedPut, j
    <3> QED BY <1>1, <1>2, <2>1, <3>1, OverwritePart
  <2>2. CASE d # c
    <3>1. job'[d] = job[d] /\ job[d].ino # j.ino /\ job[d].ino \in Inodes
      BY <1>1, <1>2, <2>2 DEF IInv, Sane, Shared, j
    <3> QED BY <1>2, <3>1 DEF IInv, UndisturbedPut
  <2> QED BY <2>1, <2>2
<1>6. UndisturbedGet'
  <2> SUFFICES ASSUME NEW d \in Children \ disturbed, job'[d].at \in {"measure", "read"}
               PROVE /\ bytes'[job'[d].ino] = job'[d].seen
                     /\ job'[d].at = "read" =>
                          /\ job'[d].size = Len(job'[d].seen)
                          /\ job'[d].buf = SubSeq(job'[d].seen, 1, Len(job'[d].buf))
    BY <1>2 DEF UndisturbedGet
  <2>1. d # c
    BY <1>2
  <2>2. job'[d] = job[d] /\ job[d].ino # j.ino /\ job[d].ino \in Inodes
    BY <1>1, <1>2, <2>1 DEF IInv, Sane, Shared, j
  <2> QED BY <1>2, <2>2 DEF IInv, UndisturbedGet
<1> QED BY <1>3, <1>4, <1>5, <1>6 DEF Rest

LEMMA GetOpensRest ==
  ASSUME IInv, TypeOK', NEW c \in Children, NEW n \in Names, GetOpens(c, n)
  PROVE  Rest'
<1>1. dir[n] \in Inodes
  BY DEF GetOpens, IInv, TypeOK
<1>2. /\ job'[c].at = "measure" /\ job'[c].ino = dir[n] /\ job'[c].buf = <<>>
      /\ job'[c].seen = bytes[dir[n]]
      /\ \A d \in Children \ {c} : job'[d] = job[d]
      /\ bytes' = bytes /\ disturbed \subseteq disturbed'
      /\ \A d \in Children : job[d].ino = dir[n] /\ job[d].at = "write" => c \in disturbed'
  BY DEF GetOpens, IInv, TypeOK, NoJob, Writers, Users
<1>3. (\A d \in Children : Sane(d))'
  BY <1>1, <1>2 DEF IInv, Sane
<1>4. Shared'
  BY <1>2 DEF IInv, Shared
<1>5. UndisturbedPut' /\ UndisturbedGet'
  BY <1>2 DEF IInv, UndisturbedPut, UndisturbedGet
<1> QED BY <1>3, <1>4, <1>5 DEF Rest

LEMMA GetMeasuresRest ==
  ASSUME IInv, TypeOK', NEW c \in Children, GetMeasures(c)
  PROVE  Rest'
<1>1. /\ job[c].at = "measure" /\ job[c].buf = <<>> /\ job[c].ino \in Inodes
      /\ Len(bytes[job[c].ino]) \in Nat
  BY JobType DEF GetMeasures, IInv, Sane
<1>2. /\ job'[c].at = "read" /\ job'[c].ino = job[c].ino
      /\ job'[c].buf = <<>> /\ job'[c].seen = job[c].seen
      /\ job'[c].size = Len(bytes[job[c].ino])
      /\ \A d \in Children \ {c} : job'[d] = job[d]
      /\ bytes' = bytes /\ disturbed' = disturbed
  BY <1>1 DEF GetMeasures, IInv, TypeOK, Jobs
<1>3. (\A d \in Children : Sane(d))'
  BY <1>1, <1>2, NothingIsContent DEF IInv, Sane
<1>4. Shared'
  BY <1>1, <1>2 DEF IInv, Shared
<1>5. UndisturbedPut'
  BY <1>2 DEF IInv, UndisturbedPut
<1>6. UndisturbedGet'
  <2> SUFFICES ASSUME NEW d \in Children \ disturbed, job'[d].at \in {"measure", "read"}
               PROVE /\ bytes'[job'[d].ino] = job'[d].seen
                     /\ job'[d].at = "read" =>
                          /\ job'[d].size = Len(job'[d].seen)
                          /\ job'[d].buf = SubSeq(job'[d].seen, 1, Len(job'[d].buf))
    BY <1>2 DEF UndisturbedGet
  <2>1. CASE d = c
    <3>1. bytes[job[c].ino] = job[c].seen /\ job[c].seen \in Content
      BY <1>1, <2>1, JobType DEF IInv, UndisturbedGet
    <3> QED BY <1>2, <2>1, <3>1, ReadNothing
  <2>2. CASE d # c
    BY <1>2, <2>2 DEF IInv, UndisturbedGet
  <2> QED BY <2>1, <2>2
<1> QED BY <1>3, <1>4, <1>5, <1>6 DEF Rest

LEMMA GetReadsRest ==
  ASSUME IInv, TypeOK', NEW c \in Children, NEW k \in Nat, GetReads(c, k)
  PROVE  Rest'
<1> DEFINE j == job[c]
           p == Len(j.buf)
           more == SubSeq(bytes[j.ino], p + 1, p + k)
<1>1. /\ j.at = "read" /\ j.ino \in Inodes /\ p \in Nat /\ j.buf \in Content
      /\ p + k <= j.size /\ p + k <= Len(bytes[j.ino]) /\ bytes[j.ino] \in Content
  BY JobType, ContentLen DEF GetReads, IInv, Sane
<1>2. /\ job'[c].at = "read" /\ job'[c].ino = j.ino /\ job'[c].seen = j.seen
      /\ job'[c].size = j.size /\ job'[c].buf = j.buf \o more
      /\ \A d \in Children \ {c} : job'[d] = job[d]
      /\ bytes' = bytes /\ disturbed' = disturbed
  <2>1. job' = [job EXCEPT ![c] = [@ EXCEPT !.buf = j.buf \o more]]
        /\ bytes' = bytes /\ disturbed' = disturbed
    BY DEF GetReads
  <2>2. job[c] \in Jobs /\ job \in [Children -> Jobs]
    BY DEF IInv, TypeOK
  <2> HIDE DEF more
  <2> QED BY <1>1, <2>1, <2>2 DEF Jobs
<1>3. more \in Content /\ Len(j.buf \o more) = p + k
  <2>1. more \in Content /\ Len(more) = k
    BY <1>1, ReadOn DEF Content
  <2>2. Len(j.buf \o more) = Len(j.buf) + Len(more)
    BY <1>1, <2>1, JoinIsContent
  <2> QED BY <2>1, <2>2
<1> HIDE DEF j, p, more
<1>4. (\A d \in Children : Sane(d))'
  BY <1>1, <1>2, <1>3 DEF IInv, Sane
<1>5. Shared'
  BY <1>1, <1>2 DEF IInv, Shared, j
<1>6. UndisturbedPut'
  BY <1>2 DEF IInv, UndisturbedPut
<1>7. UndisturbedGet'
  <2> SUFFICES ASSUME NEW d \in Children \ disturbed, job'[d].at \in {"measure", "read"}
               PROVE /\ bytes'[job'[d].ino] = job'[d].seen
                     /\ job'[d].at = "read" =>
                          /\ job'[d].size = Len(job'[d].seen)
                          /\ job'[d].buf = SubSeq(job'[d].seen, 1, Len(job'[d].buf))
    BY <1>2 DEF UndisturbedGet
  <2>1. CASE d = c
    <3>1. /\ bytes[j.ino] = j.seen /\ j.size = Len(j.seen)
          /\ j.buf = SubSeq(j.seen, 1, p)
      BY <1>1, <2>1 DEF IInv, UndisturbedGet, j, p
    <3>2. j.buf \o more = SubSeq(j.seen, 1, p + k)
      BY <1>1, <3>1, ReadOn DEF more
    <3> QED BY <1>2, <1>3, <2>1, <3>1, <3>2
  <2>2. CASE d # c
    BY <1>2, <2>2 DEF IInv, UndisturbedGet
  <2> QED BY <2>1, <2>2
<1> QED BY <1>4, <1>5, <1>6, <1>7 DEF Rest

\* A write that fails is the last of its put.
LEMMA PutFailsRest ==
  ASSUME IInv, TypeOK', NEW c \in Children, PutFails(c)
  PROVE  Rest'
<1>1. /\ job[c].at = "write"
      /\ job'[c].at = "failed" /\ job'[c].ino = job[c].ino /\ job'[c].src = job[c].src
      /\ job'[c].pos = job[c].pos
      /\ \A d \in Children \ {c} : job'[d] = job[d]
      /\ bytes' = bytes /\ disturbed' = disturbed
  BY DEF PutFails, IInv, TypeOK, Jobs
<1>2. (\A d \in Children : Sane(d))'
  BY <1>1 DEF IInv, Sane
<1>3. Shared'
  BY <1>1 DEF IInv, Shared
<1> QED BY <1>1, <1>2, <1>3 DEF IInv, Rest, UndisturbedPut, UndisturbedGet

\* What is unlinked remains to those who have it open.
LEMMA RmRest ==
  ASSUME IInv, TypeOK', NEW c \in Children, NEW n \in Names, Rm(c, n)
  PROVE  Rest'
<1>1. job' = job /\ disturbed' = disturbed
  BY DEF Rm
<1>2. ASSUME NEW d \in Children, job[d].at # "idle"
      PROVE bytes'[job[d].ino] = bytes[job[d].ino]
  <2>1. job[d].ino \in Inodes /\ job'[d].ino = job[d].ino
    BY <1>1, <1>2 DEF IInv, Sane
  <2>2. job[d].ino \notin Free'
    BY <2>1 DEF Free, Users
  <2> QED BY <2>1, <2>2 DEF Rm, FreeUnused
<1> QED BY <1>1, <1>2 DEF IInv, Rest, Sane, Shared, UndisturbedPut, UndisturbedGet

LEMMA StepIInv == IInv /\ [Next]_vars => IInv'
<1> SUFFICES ASSUME IInv, [Next]_vars PROVE IInv'
  OBVIOUS
<1>1. TypeOK'
  BY TypeOKStep
<1>2. \A k \in Pieces : k \in Nat
  BY DEF Pieces
<1>3. CASE UNCHANGED vars
  <2>1. UNCHANGED <<dir, bytes, job, disturbed>>
    BY <1>3 DEF vars
  <2>2. (\A c \in Children : Sane(c))'
    BY <2>1 DEF IInv, Sane
  <2> QED BY <1>1, <2>1, <2>2 DEF IInv, Shared, UndisturbedPut, UndisturbedGet
<1>4. ASSUME NEW c \in Children, PutReplies(c) \/ GetReplies(c) \/ ChildDies(c) PROVE Rest'
  BY <1>1, <1>4, ReleaseRest DEF PutReplies, GetReplies, ChildDies
<1>5. CASE Next
  <2>1. Rest'
    BY <1>1, <1>2, <1>4, <1>5, PutOpensRest, PutWritesRest, PutFailsRest, GetOpensRest,
       GetMeasuresRest, GetReadsRest, RmRest DEF Next
  <2> QED BY <1>1, <2>1 DEF Rest, IInv
<1> QED BY <1>3, <1>5

LEMMA Invariance == Spec => []IInv
  BY InitIInv, StepIInv, PTL DEF Spec

------------------------------------------------------------------------------

\* TypeOK: whatever the children do to the directory, and whoever dies, the types hold,
\* and no inode ever has two names.
THEOREM TypeCorrect == Spec => []TypeOK
  BY Invariance, PTL DEF IInv

\* UndisturbedGet: a get whose file nobody opens for writing reads what it was when it
\* was opened, also when its name is removed and put again.
THEOREM GetsAreSafe == Spec => []UndisturbedGet
  BY Invariance, PTL DEF IInv

\* UndisturbedPut: a put whose file nobody else opens for writing stores it whole.
THEOREM PutsAreSafe == Spec => []UndisturbedPut
  BY Invariance, PTL DEF IInv

------------------------------------------------------------------------------
(* Polite clients. *)

\* The files that FileStore sees, all of them.
FileBar == [n \in Names |-> FileOf(n)]

\* Nobody is disturbed, and so a file has at most one who writes it.
Polite == IInv /\ disturbed = {}

LEMMA InitPolite == Init => Polite
  BY InitIInv DEF Init, Polite

LEMMA StepPolite == Polite /\ [PoliteNext]_vars => Polite'
<1> SUFFICES ASSUME Polite, [PoliteNext]_vars PROVE Polite'
  OBVIOUS
<1>1. [Next]_vars /\ disturbed' = {}
  BY DEF PoliteNext, Polite, vars
<1> QED BY <1>1, StepIInv DEF Polite

LEMMA PoliteAlways == PoliteSpec => []Polite
  BY InitPolite, StepPolite, PTL DEF PoliteSpec

LEMMA OneWriter ==
  ASSUME Polite, NEW i \in Inodes, NEW c \in Writers(i)
  PROVE  Writers(i) = {c} /\ c \in Children /\ job[c].at = "write" /\ job[c].ino = i
<1>1. c \in Children /\ job[c].at = "write" /\ job[c].ino = i
  BY DEF Writers, Users
<1>2. ASSUME NEW d \in Writers(i), d # c PROVE FALSE
  BY <1>1, <1>2 DEF Polite, IInv, Shared, Writers, Users
<1> QED BY <1>1, <1>2

\* What FileOf is, without its choice.
LEMMA FileOfWritten ==
  ASSUME Polite, NEW n \in Names, NEW c \in Children,
         dir[n] # NoIno, job[c].at = "write", job[c].ino = dir[n]
  PROVE  FileOf(n) = Whole(job[c].src)
<1>1. dir[n] \in Inodes /\ c \in Writers(dir[n])
  BY DEF Polite, IInv, TypeOK, Writers, Users
<1>2. Writers(dir[n]) = {c}
  BY <1>1, OneWriter
<1>3. (CHOOSE d \in Writers(dir[n]) : TRUE) = c
  BY <1>2
<1> QED BY <1>2, <1>3 DEF FileOf

LEMMA FileOfQuiet ==
  ASSUME NEW n \in Names, dir[n] # NoIno,
         \A c \in Children : ~(job[c].at = "write" /\ job[c].ino = dir[n])
  PROVE  FileOf(n) = bytes[dir[n]]
<1>1. Writers(dir[n]) = {}
  BY DEF Writers, Users
<1> QED BY <1>1 DEF FileOf

\* The same of the next state.
LEMMA NextFileOfWritten ==
  ASSUME Polite', NEW n \in Names, NEW c \in Children,
         dir'[n] # NoIno, job'[c].at = "write", job'[c].ino = dir'[n]
  PROVE  FileOf(n)' = Whole(job'[c].src)
<1>1. dir'[n] \in Inodes
  BY DEF Polite, IInv, TypeOK
<1>2. \A d \in Children : job'[d].at = "write" /\ job'[d].ino = dir'[n] => d = c
  BY DEF Polite, IInv, Shared
<1>3. (Writers(dir[n]))' = {c}
  BY <1>2 DEF Writers, Users
<1>4. (CHOOSE d \in (Writers(dir[n]))' : TRUE) = c
  BY <1>3
<1> QED BY <1>3, <1>4 DEF FileOf, Whole, Part

LEMMA NextFileOfQuiet ==
  ASSUME NEW n \in Names, dir'[n] # NoIno,
         \A c \in Children : ~(job'[c].at = "write" /\ job'[c].ino = dir'[n])
  PROVE  FileOf(n)' = bytes'[dir'[n]]
<1>1. (Writers(dir[n]))' = {}
  BY DEF Writers, Users
<1> QED BY <1>1 DEF FileOf

LEMMA FileOfNone == \A n \in Names : dir[n] = NoIno => FileOf(n) = NoIno
  BY DEF FileOf

\* A name whose inode, its content and who writes it are as before, is as before.
LEMMA FileOfSame ==
  ASSUME Polite, Polite', NEW n \in Names, dir'[n] = dir[n],
         dir[n] # NoIno => bytes'[dir[n]] = bytes[dir[n]],
         \A c \in Children :
           dir[n] # NoIno =>
             /\ (job'[c].at = "write" /\ job'[c].ino = dir[n])
                  <=> (job[c].at = "write" /\ job[c].ino = dir[n])
             /\ job'[c].at = "write" /\ job'[c].ino = dir[n] => job'[c].src = job[c].src
  PROVE  FileOf(n)' = FileOf(n)
<1>1. CASE dir[n] = NoIno
  BY <1>1, FileOfNone DEF FileOf
<1>2. CASE dir[n] # NoIno /\ \E c \in Children : job[c].at = "write" /\ job[c].ino = dir[n]
  <2>1. PICK c \in Children : job[c].at = "write" /\ job[c].ino = dir[n]
    BY <1>2
  <2>2. dir[n] \in Inodes
    BY <1>2 DEF Polite, IInv, TypeOK
  <2>3. FileOf(n) = Whole(job[c].src)
    BY <1>2, <2>1, FileOfWritten
  <2>4. /\ dir'[n] # NoIno /\ job'[c].at = "write" /\ job'[c].ino = dir'[n]
        /\ job'[c].src = job[c].src
    BY <1>2, <2>1
  <2>5. FileOf(n)' = Whole(job'[c].src)
    BY <2>4, NextFileOfWritten
  <2> QED BY <2>3, <2>4, <2>5
<1>3. CASE dir[n] # NoIno /\ \A c \in Children : ~(job[c].at = "write" /\ job[c].ino = dir[n])
  <2>1. Writers(dir[n]) = {} /\ (Writers(dir[n]))' = {}
    BY <1>3 DEF Writers, Users
  <2> QED BY <1>3, <2>1 DEF FileOf
<1> QED BY <1>1, <1>2, <1>3

\* If every name, or every other one, is as before, FileStore sees nothing, or one change.
LEMMA NothingSeen ==
  ASSUME \A n \in Names : FileOf(n)' = FileOf(n)
  PROVE  FileBar' = FileBar
  BY DEF FileBar

LEMMA OneSeen ==
  ASSUME NEW n \in Names, \A m \in Names \ {n} : FileOf(m)' = FileOf(m)
  PROVE  FileBar' = [FileBar EXCEPT ![n] = FileOf(n)']
  BY DEF FileBar

\* The inode of a name is not freed.
LEMMA NamedRemains ==
  ASSUME IInv, FreeUnused, NEW n \in Names, dir'[n] \in Inodes
  PROVE  bytes'[dir'[n]] = bytes[dir'[n]]
<1>1. dir'[n] \notin Free'
  BY DEF Free
<1> QED BY <1>1 DEF FreeUnused

\* Child c does something that is no writing: FileStore sees nothing.
LEMMA ReaderStep ==
  ASSUME Polite, Polite', NEW c \in Children, dir' = dir,
         job[c].at # "write", job'[c].at # "write",
         \A d \in Children \ {c} : job'[d] = job[d],
         \A n \in Names : dir[n] # NoIno => bytes'[dir[n]] = bytes[dir[n]]
  PROVE  FileBar' = FileBar
<1>1. ASSUME NEW n \in Names PROVE FileOf(n)' = FileOf(n)
  <2>1. \A d \in Children : dir[n] # NoIno =>
          /\ (job'[d].at = "write" /\ job'[d].ino = dir[n])
               <=> (job[d].at = "write" /\ job[d].ino = dir[n])
          /\ job'[d].at = "write" /\ job'[d].ino = dir[n] => job'[d].src = job[d].src
    OBVIOUS
  <2> QED BY <2>1, FileOfSame
<1> QED BY <1>1, NothingSeen

\* A put ends, as it should or not: its file is what it has written of it.
LEMMA WriterEnds ==
  ASSUME Polite, Polite', NEW c \in Children, dir' = dir,
         job[c].at = "write", job'[c].at # "write",
         \A d \in Children \ {c} : job'[d] = job[d],
         \A n \in Names : dir[n] # NoIno => bytes'[dir[n]] = bytes[dir[n]]
  PROVE  Store!Next \/ FileBar' = FileBar
<1> DEFINE i == job[c].ino
           s == job[c].src
<1>1. /\ i \in Inodes /\ s \in Sources /\ job[c].pos \in 0 .. Size[s]
      /\ bytes[i] = Part(s, job[c].pos)
  BY DEF Polite, IInv, Sane, UndisturbedPut
<1>2. ASSUME NEW n \in Names, dir[n] # i PROVE FileOf(n)' = FileOf(n)
  <2>1. \A d \in Children : dir[n] # NoIno =>
          /\ (job'[d].at = "write" /\ job'[d].ino = dir[n])
               <=> (job[d].at = "write" /\ job[d].ino = dir[n])
          /\ job'[d].at = "write" /\ job'[d].ino = dir[n] => job'[d].src = job[d].src
    BY <1>2
  <2> QED BY <2>1, FileOfSame
<1>3. CASE \A n \in Names : dir[n] # i
  BY <1>2, <1>3, NothingSeen
<1>4. ASSUME NEW n \in Names, dir[n] = i PROVE Store!Next
  <2>1. dir[n] # NoIno
    BY <1>1, <1>4
  <2>2. FileOf(n) = Whole(s)
    BY <1>4, <2>1, FileOfWritten
  <2>3. \A d \in Children : ~(job'[d].at = "write" /\ job'[d].ino = dir'[n])
    <3> SUFFICES ASSUME NEW d \in Children, job'[d].at = "write", job'[d].ino = dir'[n]
                 PROVE FALSE
      OBVIOUS
    <3>1. d # c /\ job[d].at = "write" /\ job[d].ino = i
      BY <1>4
    <3>2. c \in Writers(i) /\ d \in Writers(i)
      BY <3>1 DEF Writers, Users
    <3> QED BY <1>1, <3>1, <3>2, OneWriter
  <2>4. FileOf(n)' = bytes'[dir'[n]]
    BY <2>1, <2>3, NextFileOfQuiet
  <2>5. FileOf(n)' = Part(s, job[c].pos)
    BY <1>1, <1>4, <2>1, <2>3, <2>4
  <2>6. FileOf(n)' \in Parts(s)
    BY <1>1, <2>5 DEF Parts
  <2>7. \A m \in Names \ {n} : FileOf(m)' = FileOf(m)
    BY <1>1, <1>2, <1>4 DEF Polite, IInv, TypeOK
  <2>8. FileBar' = [FileBar EXCEPT ![n] = FileOf(n)'] /\ FileBar[n] = Whole(s)
    BY <2>2, <2>7, OneSeen DEF FileBar
  <2>9. Store!Damage(n, s)
    BY <2>6, <2>8 DEF Store!Damage, FileBar
  <2> QED BY <1>1, <2>9 DEF Store!Next
<1> QED BY <1>3, <1>4

LEMMA ReleaseSeen ==
  ASSUME Polite, Polite', NEW c \in Children, Release(c)
  PROVE  Store!Next \/ FileBar' = FileBar
<1>1. /\ job'[c] = NoJob /\ NoJob.at = "idle"
      /\ \A d \in Children \ {c} : job'[d] = job[d]
      /\ dir' = dir
  BY DEF Release, Polite, IInv, TypeOK, NoJob
<1>2. ASSUME NEW n \in Names, dir[n] # NoIno PROVE bytes'[dir[n]] = bytes[dir[n]]
  BY <1>1, <1>2, NamedRemains DEF Release, Polite, IInv, TypeOK
<1> QED BY <1>1, <1>2, ReaderStep, WriterEnds

LEMMA PutWritesSeen ==
  ASSUME Polite, Polite', NEW c \in Children, NEW k \in Pieces, PutWrites(c, k)
  PROVE  FileBar' = FileBar
<1> DEFINE j == job[c]
<1>1. /\ j.at = "write" /\ j.ino \in Inodes
      /\ job'[c].at = "write" /\ job'[c].ino = j.ino /\ job'[c].src = j.src
      /\ \A d \in Children \ {c} : job'[d] = job[d]
      /\ \A i \in Inodes \ {j.ino} : bytes'[i] = bytes[i]
      /\ dir' = dir
  BY DEF PutWrites, Polite, IInv, TypeOK, Sane, Jobs
<1>2. ASSUME NEW n \in Names PROVE FileOf(n)' = FileOf(n)
  <2>1. CASE dir[n] = j.ino
    <3>1. dir[n] # NoIno /\ FileOf(n) = Whole(j.src)
      BY <1>1, <2>1, FileOfWritten
    <3>2. FileOf(n)' = Whole(job'[c].src)
      BY <1>1, <2>1, <3>1, NextFileOfWritten
    <3> QED BY <1>1, <3>1, <3>2
  <2>2. CASE dir[n] # j.ino
    <3>1. \A d \in Children : dir[n] # NoIno =>
            /\ (job'[d].at = "write" /\ job'[d].ino = dir[n])
                 <=> (job[d].at = "write" /\ job[d].ino = dir[n])
            /\ job'[d].at = "write" /\ job'[d].ino = dir[n] => job'[d].src = job[d].src
      BY <1>1
    <3>2. dir[n] # NoIno => bytes'[dir[n]] = bytes[dir[n]]
      BY <1>1, <2>2 DEF Polite, IInv, TypeOK
    <3> HIDE DEF j
    <3> QED BY <1>1, <3>1, <3>2, FileOfSame
  <2> QED BY <2>1, <2>2
<1> QED BY <1>2, NothingSeen

LEMMA PutOpensSeen ==
  ASSUME Polite, Polite', NEW c \in Children, NEW n \in Names, NEW s \in Sources,
         PutOpens(c, n, s)
  PROVE  Store!Next
<1>1. PICK i \in IF dir[n] = NoIno THEN Free ELSE {dir[n]} :
        /\ dir' = [dir EXCEPT ![n] = i]
        /\ bytes' = [bytes EXCEPT ![i] = <<>>]
        /\ job' = [job EXCEPT ![c] = [NoJob EXCEPT !.at = "write", !.ino = i, !.src = s]]
        /\ disturbed' = disturbed \union Users(i)
                          \union (IF Writers(i) = {} THEN {} ELSE {c})
  BY DEF PutOpens
<1>2. i \in Inodes /\ \A m \in Names \ {n} : dir[m] # i
  BY <1>1 DEF Free, TypeOK, IInv, Polite
<1>3. /\ job'[c].at = "write" /\ job'[c].ino = i /\ job'[c].src = s
      /\ job[c].at = "idle" /\ job[c].ino = NoIno
      /\ \A d \in Children \ {c} : job'[d] = job[d]
      /\ \A j \in Inodes \ {i} : bytes'[j] = bytes[j]
      /\ dir'[n] = i /\ \A m \in Names \ {n} : dir'[m] = dir[m]
  BY <1>1, <1>2 DEF PutOpens, Polite, IInv, TypeOK, Sane, NoJob
<1>4. FileOf(n)' = Whole(s)
  <2>1. FileOf(n)' = Whole(job'[c].src)
    BY <1>2, <1>3, NextFileOfWritten
  <2> QED BY <1>3, <2>1
<1>5. ASSUME NEW m \in Names \ {n} PROVE FileOf(m)' = FileOf(m)
  <2>1. dir'[m] = dir[m] /\ dir[m] # i /\ (dir[m] # NoIno => dir[m] \in Inodes \ {i})
    BY <1>2, <1>3 DEF Polite, IInv, TypeOK
  <2>2. \A d \in Children : dir[m] # NoIno =>
          /\ (job'[d].at = "write" /\ job'[d].ino = dir[m])
               <=> (job[d].at = "write" /\ job[d].ino = dir[m])
          /\ job'[d].at = "write" /\ job'[d].ino = dir[m] => job'[d].src = job[d].src
    BY <1>3, <2>1
  <2> QED BY <1>3, <2>1, <2>2, FileOfSame
<1>6. FileBar' = [FileBar EXCEPT ![n] = Whole(s)]
  BY <1>4, <1>5, OneSeen
<1>7. Store!Put(n, s)
  BY <1>6 DEF Store!Put, FileBar
<1> QED BY <1>7 DEF Store!Next

LEMMA RmSeen ==
  ASSUME Polite, Polite', NEW c \in Children, NEW n \in Names, Rm(c, n)
  PROVE  Store!Next
<1>1. /\ dir[n] \in Inodes /\ dir'[n] = NoIno /\ job' = job
      /\ \A m \in Names \ {n} : dir'[m] = dir[m]
  BY DEF Rm, Polite, IInv, TypeOK
<1>2. FileOf(n) # NoIno
  <2>1. CASE \E d \in Children : job[d].at = "write" /\ job[d].ino = dir[n]
    <3>1. PICK d \in Children : job[d].at = "write" /\ job[d].ino = dir[n]
      BY <2>1
    <3>2. job[d].src \in Sources /\ FileOf(n) = Whole(job[d].src)
      BY <1>1, <3>1, FileOfWritten DEF Polite, IInv, Sane
    <3> QED BY <3>2, PartIsContent, SizeIsNat DEF Whole
  <2>2. CASE \A d \in Children : ~(job[d].at = "write" /\ job[d].ino = dir[n])
    BY <1>1, <2>2, FileOfQuiet DEF Polite, IInv, TypeOK
  <2> QED BY <2>1, <2>2
<1>3. FileOf(n)' = NoIno
  BY <1>1 DEF FileOf
<1>4. ASSUME NEW m \in Names \ {n} PROVE FileOf(m)' = FileOf(m)
  <2>1. dir[m] # NoIno => bytes'[dir[m]] = bytes[dir[m]]
    BY <1>1, NamedRemains DEF Rm, Polite, IInv, TypeOK
  <2> QED BY <1>1, <2>1, FileOfSame
<1>5. FileBar' = [FileBar EXCEPT ![n] = NoIno]
  BY <1>3, <1>4, OneSeen
<1>6. Store!Remove(n)
  BY <1>2, <1>5 DEF Store!Remove, FileBar
<1> QED BY <1>6 DEF Store!Next

LEMMA StepSeen == Polite /\ Polite' /\ [PoliteNext]_vars => [Store!Next]_FileBar
<1> SUFFICES ASSUME Polite, Polite', [PoliteNext]_vars PROVE Store!Next \/ FileBar' = FileBar
  OBVIOUS
<1>1. CASE UNCHANGED vars
  BY <1>1 DEF vars, FileBar, FileOf, Writers, Users
<1>2. ASSUME NEW c \in Children, PutFails(c) PROVE Store!Next \/ FileBar' = FileBar
  BY <1>2, WriterEnds DEF PutFails, Polite, IInv, TypeOK, Jobs
<1>3. ASSUME NEW c \in Children, NEW n \in Names, GetOpens(c, n) PROVE FileBar' = FileBar
  BY <1>3, ReaderStep DEF GetOpens, Polite, IInv, TypeOK, Jobs, NoJob
<1>4. ASSUME NEW c \in Children, NEW k \in Pieces, GetReads(c, k) PROVE FileBar' = FileBar
  BY <1>4, ReaderStep DEF GetReads, Polite, IInv, TypeOK, Jobs
<1>5. ASSUME NEW c \in Children, GetMeasures(c) PROVE FileBar' = FileBar
  BY <1>5, ReaderStep DEF GetMeasures, Polite, IInv, TypeOK, Jobs
<1>6. ASSUME NEW c \in Children, PutReplies(c) \/ GetReplies(c) \/ ChildDies(c)
      PROVE Store!Next \/ FileBar' = FileBar
  BY <1>6, ReleaseSeen DEF PutReplies, GetReplies, ChildDies
<1> QED
  BY <1>1, <1>2, <1>3, <1>4, <1>5, <1>6, PutOpensSeen, PutWritesSeen, RmSeen
  DEF PoliteNext, Next

LEMMA InitSeen == Init => Store!Init
  BY DEF Init, Store!Init, FileOf

\* ImplementsFileStore: clients who put nothing that another puts or gets see whole files
\* replace whole files, though every put and get is many system calls.
THEOREM Refinement == PoliteSpec => ImplementsFileStore
<1>1. Init => Store!Init
  BY InitSeen
<1>2. Polite /\ Polite' /\ [PoliteNext]_vars => [Store!Next]_FileBar
  BY StepSeen
<1> QED
  BY PoliteAlways, <1>1, <1>2, PTL DEF PoliteSpec, ImplementsFileStore, Store!Spec, FileBar
==============================================================================
