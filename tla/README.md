# A verification of cix, yshell, listmap and ydc

The repository holds four programs. This directory specifies them in TLA+,
model-checks the specifications with TLC, and proves theorems about them with
TLAPS. This document says what the parts are, which module models which, what
each check shows, and what is left out.

## 1. The system

| program | what it is | where |
|---|---|---|
| `cix`, `cixd` | a file client and a forking server over TCP | `src/asg4-client-server/code` |
| `yshell` | a shell on a file tree in memory | `src/asg2-shell-fnptrs-oop/code` |
| `keyvalue` | a key/value store on a doubly linked list | `src/asg3-listmap-templates/code` |
| `ydc` | a desk calculator on digit vectors | `src/asg1-dc-bigint/code` |

They share no code at run time. Only the first has several processes, files that
outlive them, a network and signals, so it is modelled first and in most detail.

### 1.1 cixd, the daemon (`cixd.cpp`: `main`, `fork_cixserver`, `reap_zombies`, `signal_handler`)

*State.* Where the daemon is in its accept loop; `errno`; the descriptors of
the listening socket and of each connection, which are inherited by `fork`; the
child processes and whether they are zombies; whether SIGCHLD is pending.

*Operations.* Print the banner (a name lookup, which may throw); accept, and
accept again after EINTR; log the peer (another lookup, outside the inner
`try`); fork; close the connection in the daemon, the listening socket in the
child; reap zombies; the same from the signal handler, at any point of the loop.

*Interactions.* With clients through the backlog and through end-of-file; with
children through `fork`, descriptors and SIGCHLD.

*Hard.* SIGCHLD is a flag, not a queue; the handler runs between any two steps
and changes `errno`; exceptions leave the loop at different depths, in a child
the same handlers are on the stack as in the daemon.

*Correct when* every connection is held by whom it should be held and by nobody
else, all are closed in the end, no child remains a zombie, no child accepts
connections, and the exit of a child does not stop the daemon.

### 1.2 cix and run_server, a session (`cix.cpp`, `protocol.cpp`, and the reply functions of `cixd.cpp`)

*State.* For each side: where it is in its command or reply, how much its packet
loop still has to move, the header it has composed or received; the bytes in
flight in each direction; the files on both sides.

*Operations.* `ls`, `put`, `get`, `rm`; send and receive a header or a payload
in pieces; the replies LSOUT, FILEOUT, ACK and NAK; leaving, at any byte.

*Hard.* Nothing but the counts in the headers says where a message ends; the
connection may break within a message; refusals skip payloads; the client's get
empties the local file before it has the new content.

*Correct when* both sides stand at the same place of both streams, an
acknowledged command did what it says, a command that was cut short did nothing
or all of it, and every command and every child ends.

### 1.3 The server's directory

All children work in one directory. *State.* Which inode a name leads to, the
content of each inode, and what each child has open. *Operations.* Each reply is
a series of system calls: `fopen "w"`, writes and `fclose`; `fopen "r"`,
`fseek`/`ftell`, reads and `fclose`; `unlink`. *Hard.* The calls of different
children interleave, a child may die between two, and nothing locks anything.
*Correct when* readers see whole files and acknowledged puts are stored.

### 1.4 yshell (asg2)

*State.* A tree of inodes: numbered plain files and directories, whose entries
include `.` and `..`; the root, the working directory, the prompt, and the exit
status. *Operations.* `cat cd echo exit ls lsr make mkdir prompt pwd rm rmr`.
*Hard.* Directories are removed while the working directory is inside them;
removal takes `.` and `..` out of whole subtrees; errors are reported at three
levels; inode numbers are taken before errors are noticed. *Correct when* the
tree stays a tree whose `..` are the parents, `size_` is the number of entries,
and every command either does what it says or reports an error.

### 1.5 keyvalue (asg3)

*State.* A circular list of nodes around an anchor, sorted by key. *Operations.*
`insert`, `find`, `find_value`, `erase`, and the lines that call them. *Hard.*
The links of both directions are changed one at a time, in four places.
*Correct when* it is a sorted map, the same forwards and backwards.

### 1.6 ydc (asg1)

*State.* The operand stack; a number is a sign and a vector of digits, the lowest
first. *Operations.* `+ - * / % ^ c d f p q` and numbers; below them the sum,
difference, product, doubling, halving and comparison of digit vectors, and `pow`.
*Hard.* Carries and borrows over operands of different lengths; leading zeros,
which are kept, while comparison goes by length; a number of no digits (`_`, or
what is left of a difference of equal numbers); doubling and halving that must stop
at the same power; signs; errors that nobody catches, with operands already popped.
*Correct when* results are those of arithmetic, and every loop ends.

## 2. Modules

| module | models | role |
|---|---|---|
| `Cixd` | 1.1 | the daemon, its children as processes, signals, descriptors |
| `ConnService` | | what a connection may go through: abstract specification of `Cixd` |
| `Cixd_proofs` | | its theorems |
| `CixSession` | 1.2 | one client, its child, and the connection between them |
| `CixRpc` | | one request at a time, served wholly or not at all: abstract specification of `CixSession` |
| `CixSession_proofs` | | its theorems |
| `CixStore` | 1.3 | all children on the server's directory, system call by system call |
| `FileStore` | | names with whole files: abstract specification of `CixStore` |
| `CixStore_proofs` | | its theorems |
| `Inodes` | 1.4 | the inodes of yshell: entries, sizes, texts; what finds, makes and removes them |
| `Yshell` | 1.4 | the commands on them, the working directory, the exit status, how the shell ends |
| `FileTree` | | files by path: abstract specification of `Yshell` |
| `Yshell_proofs` | | its theorems |
| `Listmap` | 1.5 | the nodes and links of the list, `insert` and `erase` |
| `KeyValue` | 1.5 | the files and lines of keyvalue, and how each walks the list |
| `SortedMap` | | lines answered from a map in the order of its keys: abstract specification of `KeyValue` |
| `KeyValue_proofs` | | its theorems |
| `Ubigint` | 1.6 | the digit vectors: comparison, halving, and one step of each digit loop |
| `Ydc` | 1.6 | the calculator: tokens, the stack, the operators, and the loops that they run |
| `Ubigint_proofs` | | lemmas on vectors of any length |
| `Ydc_proofs` | | theorems of `Ydc`: types, digits, comparisons |
| `Ydc_arithmetic_proofs` | | theorems of `Ydc`: what its results are worth |
| `MCCixd`, `MCCixSession`, `MCCixStore`, `MCYshell`, `MCKeyValue`, `MCYdc` | | values of the constants for TLC |

Definitions named "Mutant" in a module are not part of the specification: each
is a plausible mistake in the definition that follows it, kept to show that the
properties notice it.

### Cixd

`pc` follows `main`: *banner* (line 262), *accept* (267), *interrupted* and
*failed* (between the -1 of `accept` and the `errno` that `socket_sys_error`
reads, `sockets.h:112-114`), *accepted* (280), *fork* (209), *close* (215),
*reap* (283). SIGCHLD moves `pc` to *handler* and keeps the place in `resume`;
every signal is blocked there (`sigfillset`), so handlers do not nest. A handler
that interrupts a blocked `accept` resumes at *interrupted* with EINTR; one that
comes just after `accept` failed leaves the `errno` of its own last `waitpid`.
`open` and `listen` are the sets of processes with a descriptor, so that
end-of-file and "connection refused" follow from them. A child is *forked*,
*lookup* (175), *serving*, and a *zombie* until it is *reaped*; one whose lookup
fails is *looping*, as the exception is caught by the accept loop on the stack it
inherited (284). Every child can also be killed.

### CixSession

`send_packet` and `recv_packet` are one action per call of `send` and `recv`,
which move 1 to `BufCap` bytes. Bytes themselves are not kept: `up` and `down`
count those in flight, and where a receiver stands follows from them, from what
the sender has still to send, and from the header it counts by. A receiver that
completes a header exactly where the sender's header ended has read that header;
anywhere else it has read arbitrary bytes (`Garbage`). Contents are a tag (whose
file it is, or *junk*, or a *part*) and a length. The lengths on disk are
unbounded; `nbytes` is taken modulo `Wrap`. `answered` and `oversize` are
history variables for the properties.

`AskPut` reads the whole file in one step: other local programs are not
modelled. Replies act on the child's files in one step: other children are in
`CixStore`. Of a directory `reply_get` can take either way out: what `ftell` says of it
decides whether `make_unique` throws, which ends the child (`ServerKilled`), or `fread`
fails and a NAK leaves the `FILE` open (`ReplyGet`, `cixd.cpp:118-129`).

### CixStore

A job is what a child does between `fopen` and its reply; messages play no part,
because a put's payload has been received before (`cixd.cpp:60`) and a get is
sent after its file is closed. A content is a sequence of pieces, each with the
name of the source that it comes from; a piece has its place in the source, so
that a file with the right names and the right length is the right file.
`fwrite`, `fclose` and `fread` move any number of pieces at a time, as they do
when a file is larger than stdio's buffer. `disturbed` is a history variable: the
children whose file another child has opened for writing since they opened it.
`PoliteSpec` is `Spec` without the steps that disturb anybody.

What a put leaves appears in `FileStore` when the file is truncated, since nobody
else looks at it before it is written; a child that dies, or a disk that is full,
may then take pieces away (`Damage`).

### Inodes and Yshell

A command line is one action. `Inodes` has the functions of `file_sys.cpp` on the
variables of the inodes, `Yshell` the functions of `commands.cpp` on top of them.
Directories are functions from entries to inode numbers, `.` and `..` included,
so that a path is walked as the code walks it. `disown` takes `.` and `..` from a
whole subtree and nothing else: an inode that no entry leads to stays in the
model, since the working directory may be in it, and commands go on there, which
make entries `.` and `..` of their own if they are asked to.
`sh` says how the shell ended: by exit, by an exception that nothing catches, by
undefined behaviour (`end()` of a map, or of a vector of no parts, dereferenced), or by
a loop that does not come to an end; the latter are outcomes of `BuildPath` and
`List`, which say what the output functions do and not what they print.

An operand is the sequence of its parts, which is what `split` makes of it, and the
number of slashes before them, of which the code forgets all but the operand `/`
(`Slash`); operands of more slashes have no parts at all (`Slashes`). `Target` and
`ParentOf` follow the code and walk from the working directory, whether or not a slash comes
first. The assignment does not: `Named` is what it says an operand names, and begins
at the root after a slash. The two agree for operands without a slash before them, and at
the root (section 6).

A path in `FileTree` leads to a text or to a folder; `FilesOf` follows all paths
from the root through the inodes. What was removed is not seen any more, whatever
is done in it.

### Listmap and KeyValue

Nodes are addresses: `DOMAIN pair` are those in use, `next` and `prev` lead from
each of them, and from the anchor, to another. `InsertBefore` is what all three
branches of `insert` do to the links, and `Erase` forgets the address, so that a link
or an iterator that still leads to it is one that `TypeOK` does not allow.

`pc` says which loop runs: *print* (over the map, or from one `find_value` to the
next), *find* and *insert*, one action per node that the loop looks at; then
*clear*, the end of `main`. A line is a record of what the regular expressions made of it;
which line comes, and whether a file opens, is anybody's choice. Setting a key is a
find, an erase if it was found, and an insert, as in the code; `MapOf` has the pair
that is about to be inserted already, so that for `SortedMap` the value changes once.

### Ubigint and Ydc

A digit is its byte less the character 0, so that 0 to 9 are the decimal digits and
the byte that `bigint (long)` stores for 0, 1 or 2 (`Raw`) is none: `pow` compares with
-48, -47 and -46. Bytes wrap at 256, as `unsigned char` does.

A token that computes nothing is one action. An operator pops its operands, and then
`pc` says which loop runs: *digits* (a sum or a difference, one digit a step), *up* and
*down* (a product: powers of two doubled up to the larger operand and taken out of it
again) and *pow*. The sums inside a product are digit loops of their own, and `sum.to` says
who takes their result. The program reads the next token when all have returned.
`Plus` and `Minus` choose between sum and difference and give the sign, as `bigint` does.

`outcome` is how the program ended: `q` or the end of the input; `domain_error` from
`ubigint::operator-`; `out_of_range` from halving no digits; *undefined* for `d` on
an empty stack. `tally` is a history variable: what the digits read and made so
far are worth. `pow`'s odd branch is left out, as `exponent % TWO` is `TWO` and never
`ONE`; `/` and `%` of `bigint` return their right operand, which is what `DoDivide` does.

## 3. Runs

Deadlock is not checked: the programs stop. What must not stop is stated as
liveness.

| run | shows | bounds |
|---|---|---|
| `cixd` | types, who holds which descriptor, no child listens, no forgotten zombie, the daemon stops for a child's exit in one case only; zombies are reaped, the backlog drains, connections are closed; `ConnService` is implemented | 3 connections: one per phase that a connection may be in while two others make signals |
| `session` | types, no lost stream, `put` and `get` copy, one lost `FILE` at most; commands end but the wait for an empty listing, children end; `CixRpc` is implemented | files of 0, 1 and 3 bytes, listings of 0 and 3, headers of 2, a buffer of 2: messages empty, within and beyond the buffer, pieces that end inside header and payload; every pair of initial files, a directory or none |
| `session_big_files` | the stream is lost by nothing but a payload that `nbytes` cannot measure, also where names have no NUL and the disk fills up | `Wrap` = 2 and files of 1 and 2 bytes |
| `store_safety` | types; who is not disturbed reads all of a file and stores all of it, also while its name is removed and put again, and after a writer died | 2 children, 1 name, files of 2, 1 and 0 pieces, 3 inodes: one per child and one for the name |
| `store_polite` | clients who do not put what another uses see whole files replace whole files (`FileStore`) | 2 children, 2 names, 4 inodes, files of 2 and 1 pieces |
| `store_torn_get` | what a child does to another without that (violation, section 6) | 2 children, 1 name |
| `yshell` | types; the tree is a tree and agrees with `.`, `..` and the sizes, whatever is done in removed directories; each command returns; `rm` and `rmr` remove what the operand names, if it begins with no slash or the shell is at the root; `rm` removes one inode; failures are reported; the commands implement `FileTree` | 4 inodes, 2 names, paths of 1 and 2 parts including `.` and `..`, with and without a slash before them, 2 texts, one of them of 100000 characters |
| `yshell_lost_cwd` | a removal under the working directory (violation, section 6) | the same |
| `keyvalue` | types; the list is one sorted ring both ways; no loop passes what it looks for; `SortedMap` is implemented, every line is answered and in the end nothing is kept | 3 keys, 2 values, 3 nodes |
| `session_big_put` | an acknowledged put that is not a copy (violation, section 6) | files of 1 and 2 bytes where `Wrap` is 2 |
| `ydc` | types; digits add up; products are kept by both loops; no subtraction is refused; results are those of arithmetic but for the cases that `Arithmetic` names; sums and products end | 7 numbers: 0, 3, 8, 96, 008, -13 and a sign without digits; 5 tokens; operands of products of 3 digits at most |
| `ydc_as_dc` | a difference that is not what dc makes it (violation, section 6) | 3 numbers, 3 tokens |

Why these bounds are enough. In `Cixd` a property speaks of at most two children
at a time, the one that exits and one whose signal is still pending, and the
daemon holds one connection. In `CixStore` a second child is all that a child can
tell from any number of them, as each property speaks of one child or of two, and
two pieces are the least that can be torn or mixed. In `CixSession` what matters of a length is
whether it is zero, whether it fits the buffer, and whether it wraps; the
theorems of section 5 cover all other lengths. In `Yshell` four inodes make a root,
a directory in it, one in that, and one more that is made after a removal.
`MaxInode` stops commands that make inodes, never those that
remove; the theorems need no such bound to be small. In `KeyValue` three nodes are
one before, one at and one behind any place of the list, and a key has
one node at most, so that nodes do not run out.
In `Ydc` five tokens are two operations, of which the second takes what the
first made; the seven numbers differ in length, in sign, in leading zeros, in whether they carry
into a new digit, and in being a power of two. `MaxDigits` stops nothing but products of
products, and so the endless squaring of `pow`.

## 4. Fairness

`Cixd`: weak fairness of the daemon's steps, of signal delivery, and of each
child's steps: the scheduler runs what can run. `AcceptFails`, kills and clients'
actions have none. A child's step is only fair when its client has left; nobody
needs to leave.

`CixStore` and `Yshell` have no fairness: they make no promise that anything ends.

`CixSession`: weak fairness of the two processes' steps as wholes, where the
network delivers what was sent. Nothing makes a client ask, quit or be killed.
`CommandEnds` leaves out the wait for the payload of an empty listing: `recv` for 0
bytes on Linux waits for a byte that never comes, so the claim would be false. `ls -l`
prints a line even for an empty directory.

`KeyValue`: weak fairness of the loops over the list, which run by themselves.
Nobody needs to write a line or end a file.

`Ydc`: weak fairness of the loops of the arithmetic, for the same reason.
`LoopsEnd` says that sums and products end. It cannot say so of `pow`, whose loop
does not (section 6).

## 5. Proofs

`Cixd_proofs`, for any set of connections:

- `Invariance`: `IInv` is inductive. It adds to the types and the three
  properties: `resume` is set exactly while the handler runs, and nothing is
  pending for a stopped daemon (`HandlerState`); `client_sock` holds a connection
  that is the daemon's alone until the fork (`CurState`); connections that were
  not accepted have neither descriptors nor children (`AcceptedFirst`). Without
  the second a fork could give a child to a connection that has one.
- `TypeCorrect`, `Ownership`, `ChildrenDoNotListen`, `ZombiesAreNotForgotten`
  follow.
- `ExitsAreSurvived`: `DaemonSurvives`. `SignalsCount` counts the children that have
  exited against the signals: a pending one, or an `accept` that was interrupted, takes
  one exit, both together two, and only a handler that ran after the interruption can have
  replaced EINTR, when no child was left.
- `Refinement`: the daemon implements `ConnService`. Each step moves at most one
  connection on by one stage, under the mapping `SvcOf`.

`CixSession_proofs`, for all names, file and header lengths, buffers and `Wrap`:

- `TypeCorrect`.
- `StreamsStayInSync`: `InSync`. The inductive invariant `SInv` adds what the
  fields of the headers are worth while no payload was too long: `nbytes` of a
  request or reply is the length of its payload, the header a receiver acts on is
  the one that was sent, and a reply is composed exactly when the request has
  been read to its end.
- `PutsCopy`, `GetsCopy` and `Refinement`: `PutCopies`, `GetCopies` and that a session
  implements `CixRpc`, where no disk fills up, no name fills its field (`Faithful`) and no
  payload is too long (`~oversize`); section 6 says what happens otherwise. `Carried` adds
  to `SInv` what the messages hold: the child acts on the request's name and
  data, and a reply answers the request it follows, with the remote file as it says.
  `GetsCopy` is read off the refinement: only `Learn` ends a command.
- `LeaksStop`: `OneLeak`. A get that has lost a file was refused (`Leaks`), and the client
  ends when it learns of that.

`CixStore_proofs`, for any children, names, inodes and files of any number of pieces:

- `TypeCorrect`, `GetsAreSafe` and `PutsAreSafe`. The inductive invariant `IInv` adds to
  the types and the two properties what the fields of a job are worth where it
  stands (`Sane`), and that whoever shares an inode with a writer is in `disturbed` or
  will not look at it again (`Shared`). Without the second, a writer could change
  a file under somebody who still counts as undisturbed.
- `Refinement`: under `PoliteSpec`, where `disturbed` stays empty, each step is a `Put`,
  a `Remove`, a `Damage` or nothing to `FileStore`. The lemmas before it say what
  writing behind a part of a file and reading on from one make (`OverwritePart`, `ReadOn`).

`Yshell_proofs`, for any names, texts, operands and number of inodes:

- `TypeCorrect`, `TreeRemains` and `SizesRemain`. The inductive invariant `IInv`
  has four parts. `Typed` holds also in directories that were removed: their
  sizes, which `disown` does not change, never fall below the number of their
  entries, so that `--size_` does not wrap. `ProperTree` says that no inode has two
  names, wherever they are, and only so can a removal in a removed directory not
  touch the tree. `Sized` is the property itself. `Severed` says that what was removed
  does not lead back into the tree, by `.` and `..` either: so a command below a removed
  working directory changes nothing that a path from the root leads to.
- They rest on lemmas on reachability: what can be reached is the least closed set
  (`ReachClosed`, `ReachLeast`), everything in it has a parent in it (`ReachFrom`),
  a new leaf adds itself at most (`ReachAdd`), and where every inode has one parent, taking
  one away takes exactly what is below it (`ReachCut`).
- `FailuresAreTold`: `FailuresTell`, one case for each way in which `mkdir`, `rm` and
  `rmr` can end (`SilenceIsSuccess`).
- `RemovalsAreNamed` and `RmTakesOne`: `RemovesNamed` and `RmRemovesOne`. Where an operand
  is decoded is where the assignment says, but for the slash before it (`TargetIsNamed`); the
  entry that `find_name` finds leads to what was decoded (`FoundIsNamed`); what leaves the tree with an entry is
  below that entry (`LooseBelow`); a directory whose size is 2 has nothing below
  it (`Childless`), where `Sized` and the entries `.` and `..` of `ProperTree` are needed.
- `CommandsDoReturn`: `CommandsReturn`. From a directory of the tree each step up has
  one more inode below it than the step before, so that `build_path` is at the root after
  `MaxInode` steps at most (`UpEnds`).
- `Refinement`: `ImplementsFileTree`. No two paths lead to one inode (`OnePath`), which is
  an induction along paths in the form of a least element (`OnPaths`); every live inode
  has a path (`SomePath`) of no more names than there are inodes (`ShortPath`), so
  that the bound in `FilesOf` leaves none out (`FilesAreAll`). The rest says what one
  new, written or removed entry does to `FilesOf` (`AddedFiles`, `WrittenFiles`,
  `RemovedFiles`), and that a command which fails on the way does nothing to it (`SameFiles`).

`KeyValue_proofs`, for any integers as keys, and any values and nodes:

- `TypeCorrect`, `RingRemains` and `NothingIsPassed`. The inductive invariant `IInv`
  adds that insert's key is not in the list (`Absent`), which is what the find before
  it has shown and why keys remain different, and that no iterator is kept between
  lines (`AtRest`).
- They rest on `InsertKeepsRing` and `EraseKeepsRing`, what the two do to any ring.
  `SortedRing` says that every link leads to the least key beyond its own, which is a
  statement on each link alone: so neither lemma needs an induction along the list.
- `MapChanges`: the map that the list stands for (`MapOf`) changes only as `SortedMap`'s
  `After` says of the line, it has done so when the line is done, and at the end one key
  goes at a time. Each list operation has its lemma (`SetKey`, `InsertKey`, `ErasedPair`,
  `EraseNothing`).
- `Refinement`: `keyvalue` implements `SortedMap`'s `Safety`. To the invariant comes `Told`:
  a printing loop has printed the pairs behind its iterator, in ascending order, and
  a line that looks for a key has printed nothing yet. When the iterator is at the anchor,
  everything is behind it (`PrintedReplies`); that an ascending sequence of the right pairs
  is among those that `Pairs` allows is `PairsAre`. Of `ImplementsSortedMap` the fairness
  remains, which is model-checked.

`Ydc_proofs`, for any numbers, however long, with leading zeros or of no digits:

- `TypeCorrect`, `LoopsAddUp` and `NothingIsRefused`. The inductive invariant `IInv`
  adds to the types and the two properties how large a carry can be while all digits are
  decimal (`Carries`), and that whoever is about to subtract has compared before
  (`Compared`): `Minus` and `Plus` by the order that `operator-` checks, and `operator*`
  between *result* and *big*, where nothing touches the two operands.
- They rest on lemmas about a digit step (`PlusDigitFine`, `MinusDigitFine`), and on
  `LessOneWay`: of two different vectors one is less. That the highest digit in which
  two vectors differ exists is an instance of the least element of a well-founded
  order, as is what `Trim` leaves (`TrimExists`).

`Ubigint_proofs` says what vectors of any length are worth. `Value` is a recursive function;
each of its laws is the claim that the set of places where the law fails is empty, as
the first of them would have a place before it or behind it (`Upwards`, `Downwards`). So a digit
added on top weighs ten times the one before (`WeighsMore`), the order of
`operator<` is that of the values where there are no leading zeros (`LessIsLess`,
`NotLess`), `Halve` halves (`HalveHalves`), and of two powers of two the larger
is twice the smaller at least (`PowersApart`).

`Ydc_arithmetic_proofs`, for any numbers, however long:

- `ProductIsKept` and `ArithmeticIsRight`: `ProductKept` and `Arithmetic`. The invariant
  adds three parts to `IInv`. `SumWorks`: the digits that a sum has read and those
  ahead of it are worth its operands, and those it has made are worth `tally`; decimal digits make
  decimal digits, which the code does not check anywhere. `ProductWorks`: at each
  place of the loops of `operator*`, also while a sum computes for them, the power of two,
  its multiple of the smaller operand, and the result are at one level; without it the
  sum that returns could be worth anything. `CallWorks`: the sums and loops that run
  are those of the operands that were popped, and the sign is theirs.
- The operands for which `operator*` halves a vector of no digits are found on the way
  (`Hopeless`): a product that returns had others (`ProductRight`), and one that ends
  the program had these (`HalvingWorks`, `EndRight`).
- `LoopsRunOut`: whatever bytes the operands hold, each step of the loops of `+`, `-` and `*`
  makes `Remaining` less: which loop of a product runs, how far the power of two is
  from its end, which step of the body, and how many digits of a sum are left. That order is
  well-founded. In the first loop the power stays below twice the nines of as
  many digits as the larger operand (`NinesAreMost`), in the second it is halved (`Steady`
  is what this needs to know of it). So no behaviour stays in the loops and steps
  forever, which is why `LoopsEnd` holds for all numbers; `LoopsEnd` itself, that the steps are
  taken, needs the fairness of `FairSpec` and is model-checked.

The assumptions are those named in the modules: names are distinct from the
special values, what stands for a directory (`Folder`) is no text, sizes are
positive, the disks hold files, keys are integers.

Only model-checked: liveness, as TLAPS proves nothing about ENABLED (`ZombiesReaped`,
`BacklogDrains`, `ConnReleased`, `CommandEnds`, `ChildFollows`, `LoopsEnd`, and the fairness in
`ImplementsSortedMap`); and the four properties of the runs that expect a violation, which the
code breaks (section 6).

## 6. Findings

- `session_big_put`: `cix_put` sends `file_size` bytes and announces
  `file_size` mod 2^32 (`cix.cpp:91`, `protocol.h:23`). The child stores and
  acknowledges the first, and reads the rest as headers.
  This contradicts the client's help text, "put filename - Copy local file to
  remote host." (`cix.cpp:39`).

- `store_torn_get`: `reply_get` measures and reads a file that another child has
  truncated and is writing (`cixd.cpp:97-123`), and answers with an empty or torn
  file; the help says "get filename - Copy remote file to local host."
  (`cix.cpp:36`).

- `yshell_lost_cwd`: `rmr` of the working directory, or of one above it
  (`commands.cpp:478`), leaves the shell in a directory without `..`; `pwd`, `ls` and
  `lsr` without operands then dereference the end of a map. `build_path` takes it
  that every way up ends at the root (`file_sys.cpp:485`).

- `ydc_as_dc`: `_13 96 -` leaves 109, and dc -109: of operands of different signs,
  `bigint::operator-` calls the result positive when the right one is longer or greater
  (`bigint.cpp:109-111`). The assignment takes dc for its reference implementation
  (`asg1-dc-bigint.pdf:349`).

- A pathname that begins with a slash (without a run of its own): the assignment says "if the first
  character is a slash (/), decoding begins at the root, otherwise it begins with the current
  directory" (`asg2-shell-fnptrs-oop.pdf:493-505`, as text operators).
  `deal_with_path_ls` and `deal_with_path_mk` begin at the working directory for every
  operand (`commands.cpp:54` and `76`); only `cd`, `ls` and `lsr` treat an operand that is
  exactly `/` as the root. So in the directory `d`, which has an entry `a`, `rmr /a`
  removes `/d/a` and not `/a`; `cat`, `cd`, `ls`, `lsr`, `make`, `mkdir` and `rm` go astray
  in the same way. `RemovesNamed` speaks of no such operand but at the root, where both readings
  are one; without that restriction TLC finds it violated by two
  `mkdir`, a `cd` and an `rmr`.

Also seen, and part of the models: `reply_put` ignores the result of `fwrite`
(`cixd.cpp:77`) and acknowledges a partial file when a disk fills up (`PutCopies`
fails where `DiskMayFill` is true); two children that put one name write the same inode
(`cixd.cpp:67-78`), and both acknowledge a file that is a mixture (`UndisturbedPut` says who
is safe from it); a product ends the program with `out_of_range` when either
operand is zero or the larger one is a power of two (`ubigint.cpp:239-263`:
`Arithmetic` states exactly when); `/` and `%` return their right operand
(`bigint.cpp:135-143`); `pow` returns for no exponent that has digits
(`libfns.cpp:26-34`); leading zeros are kept, and 007 is greater than 8
(`ubigint.cpp:351-353`); a difference of equal negative numbers is a negative zero; a name of 59 characters is allowed (`cix.cpp:69`) and
fills the field, so that the child's `fopen` reads on behind it (`Unterminated` has
such names; where it has any, `PutCopies` fails); `make` of a file that exists
writes over it, where `file_sys.h` (177-178) says it is an error; a column of six
digits makes `_spaces` count up to 2^64 (`file_sys.cpp:139`, one of the two
exceptions of `CommandsReturn`); a child's exit can stop the daemon when a
second one exits before `errno` is read (`DaemonSurvives` states exactly when);
the daemon stops when a peer's name does not resolve; `get` of a directory ends
the child, or loses a `FILE` and is refused.

## 7. Not modelled

- `split`, the printing of headers, and the choice of host and port in `protocol.cpp`;
  address formatting in `sockets.cpp`: pure conversions, of which only the failing lookup
  matters and is there. `set_non_blocking` and `set_socket_fd` are never called.
- `echo`, the prompt and comment lines of yshell, which touch neither tree nor status;
  the order of entries, which only decides which of several failures is met first.
- `udivide` and the `/` and `%` of `ubigint`, which nothing calls; how long numbers are
  folded into lines; the copying of a listmap, declared and never defined.
- Logging, help texts, debug flags, `exec::execname`: output that no program reads back.
- Memory that is never freed (cycles of `shared_ptr` in yshell): the model says what can be
  reached, not when a count comes to zero.
- What undefined behaviour does after it has happened: a stream used by a signal handler
  while the main line writes to it, `back()` of an empty vector. The models stop there.
