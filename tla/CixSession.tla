----------------------------- MODULE CixSession -----------------------------
(***************************************************************************)
(* One cix client and the cixd child that serves it, over one TCP           *)
(* connection (asg4-client-server/code/cix.cpp, protocol.cpp, and run_server *)
(* and the reply functions of cixd.cpp).                                    *)
(*                                                                         *)
(* A request or a reply is a header and a payload.  send_packet and         *)
(* recv_packet move their bytes in as many pieces as the kernel likes; the  *)
(* receiver finds the end of a message only by counting the bytes that the  *)
(* header announces.  up and down count the bytes in flight in each         *)
(* direction, so that where a receiver stands in the stream follows from    *)
(* them and from what the sender has still to send.                        *)
(*                                                                         *)
(* Another child that uses the same files is left to CixStore.             *)
(***************************************************************************)
EXTENDS Integers

CONSTANTS
  Names,         \* file names the client may give that pass its length check
  Unterminated,  \* those of exactly FILENAME_SIZE characters
  Stray,         \* the name the child reads when it runs over such a name's end
  NoName,        \* the name in a header that needs none
  NoFile, Dir,   \* a name that does not exist, a name of a directory
  HeaderSize,    \* sizeof (cix_header)
  Wrap,          \* 2^32, what header.nbytes counts modulo
  BufCap,        \* bytes the kernel holds in one direction
  LsSizes,       \* lengths ls -l may print
  Spelled,       \* command codes that bytes of a payload may spell
  Errnos,        \* errno values, which a NAK carries in nbytes
  DiskMayFill,   \* whether a disk may run out of space
  LocalDisks, RemoteDisks   \* the files there may be at the start

ASSUME NamesAssumption ==
  /\ Unterminated \subseteq Names /\ Stray \notin Names
  /\ NoName \notin Names \union {Stray}
  /\ NoFile # Dir

ASSUME SizesAssumption ==
  /\ HeaderSize \in Nat \ {0} /\ Wrap \in Nat \ {0} /\ BufCap \in Nat \ {0}
  /\ LsSizes \subseteq Nat /\ Errnos \subseteq 0 .. Wrap - 1
  /\ DiskMayFill \in BOOLEAN

\* A file's content, or a payload: all that matters is whose it is, and how long.
Tags == {"empty", "local", "remote", "listing", "junk", "part"}
Content(tag, k) == [tag |-> IF k = 0 THEN "empty" ELSE tag, size |-> k]
File  == {f \in [tag : Tags, size : Nat] : f.size = 0 => f.tag = "empty"}
Empty == Content("empty", 0)

IsFile(f) == f # NoFile /\ f # Dir
AllNames  == Names \union {Stray}

ASSUME DisksAssumption ==
  /\ LocalDisks  \subseteq [Names -> File \union {NoFile, Dir}]
  /\ RemoteDisks \subseteq [AllNames -> File \union {NoFile, Dir}]
  /\ NoFile \notin File /\ Dir \notin File

Commands == {"LS", "PUT", "GET", "RM"}
Replies  == {"LSOUT", "FILEOUT", "ACK", "NAK"}

\* A message: its header's fields, and the payload sent after the header.
Codes   == Commands \union Replies \union {"other"}
Message ==
  {m \in [cmd : Codes, name : AllNames \union {NoName},
          nbytes : 0 .. Wrap - 1, data : File] :
     m.cmd \in {"PUT", "GET", "RM"} => m.name \in AllNames}
Msg(cmd, name, nbytes, data) ==
  [cmd |-> cmd, name |-> name, nbytes |-> nbytes, data |-> data]

Blank == Msg("other", NoName, 0, Empty)

ASSUME SpelledAssumption == Spelled \subseteq Codes

\* What a receiver may find in a header's place when it has lost the stream.
Garbage ==
  {Msg(c, n, k, Empty) : c \in Spelled, n \in AllNames, k \in 0 .. Wrap - 1}

MaxLeaks == 2   \* leaked stops counting here

VARIABLES
  calive, salive,  \* whether the client and the child run
  cpc,     \* where the client is
  cleft,   \* ntosend or ntorecv of the client's packet loop
  req,     \* the client's last request
  chdr,    \* the header of the reply, as the client received it
  spc,     \* where the child is
  sleft,   \* ntosend or ntorecv of the child's packet loop
  shdr,    \* the request as the child received it
  rep,     \* the child's last reply
  up, down,        \* bytes in flight to the child, to the client
  local, remote,   \* the files at the client's, and at the child's
  leaked,  \* FILEs the child has lost
  answered,\* history: the child has answered the client's request
  oversize \* history: a payload was too long for header.nbytes

clientVars == <<calive, cpc, cleft, req, chdr, local>>
serverVars == <<salive, spc, sleft, shdr, rep, remote, leaked>>
history == <<answered, oversize>>
vars == <<clientVars, serverVars, up, down, history>>

Sending   == {"sendhdr", "sendpay"}
Receiving == {"recvhdr", "recvpay"}
Busy == cpc \in Sending \union Receiving

\* What is still to be sent of the request and of the reply.
ReqRest == CASE cpc = "sendhdr" -> cleft + req.data.size
             [] cpc = "sendpay" -> cleft
             [] OTHER -> 0
RepRest == CASE spc = "sendhdr" -> sleft + rep.data.size
             [] spc = "sendpay" -> sleft
             [] OTHER -> 0

TypeOK ==
  /\ calive \in BOOLEAN /\ salive \in BOOLEAN
  /\ cpc \in {"idle"} \union Sending \union Receiving
  /\ spc \in {"serve"} \union Sending \union Receiving
  /\ cleft \in Nat /\ sleft \in Nat
  /\ req \in Message /\ rep \in Message /\ chdr \in Message /\ shdr \in Message
  /\ up \in 0 .. BufCap /\ down \in 0 .. BufCap
  /\ local \in [Names -> File \union {NoFile, Dir}]
  /\ remote \in [AllNames -> File \union {NoFile, Dir}]
  /\ leaked \in 0 .. MaxLeaks /\ answered \in BOOLEAN /\ oversize \in BOOLEAN

Init ==
  /\ calive = TRUE /\ salive = TRUE
  /\ cpc = "idle" /\ cleft = 0 /\ req = Blank /\ chdr = Blank
  /\ spc = "recvhdr" /\ sleft = HeaderSize /\ shdr = Blank /\ rep = Blank
  /\ up = 0 /\ down = 0
  /\ local \in LocalDisks /\ remote \in RemoteDisks
  /\ leaked = 0 /\ answered = FALSE /\ oversize = FALSE

------------------------------------------------------------------------------
(* The client's commands. *)

\* The request is composed; nothing is sent yet.
Request(m) ==
  /\ calive /\ cpc = "idle"
  /\ cpc' = "sendhdr" /\ cleft' = HeaderSize
  /\ req' = m
  /\ answered' = FALSE /\ oversize' = (oversize \/ m.data.size >= Wrap)
  /\ UNCHANGED <<calive, chdr, local, serverVars, up, down>>

AskLs == Request(Msg("LS", NoName, 0, Empty))
AskGet(n) == Request(Msg("GET", n, 0, Empty))
AskRm(n)  == Request(Msg("RM",  n, 0, Empty))

\* The whole file is read before anything is sent.
AskPut(n) ==
  /\ IsFile(local[n])
  /\ Request(Msg("PUT", n, local[n].size % Wrap, local[n]))

ClientExits ==
  /\ calive /\ calive' = FALSE
  /\ UNCHANGED <<cpc, cleft, req, chdr, local, serverVars, up, down, history>>

\* exit, end of input, an empty line (wordvec.at (0) throws), a wrong number of
\* arguments, a name too long, a local file that put cannot read: the client
\* ends with nothing sent.
Quit == cpc = "idle" /\ ClientExits

\* A signal, or memory that make_unique cannot have.
ClientKilled == ClientExits

------------------------------------------------------------------------------
(* The client's side of the connection. *)

\* One call of send in send_packet.
ClientSend(n) ==
  /\ calive /\ cpc \in Sending /\ n <= cleft /\ up + n <= BufCap
  /\ up' = up + n
  /\ \/ n < cleft /\ cleft' = cleft - n /\ cpc' = cpc
     \/ n = cleft /\ cpc = "sendhdr" /\ req.data.size > 0
        /\ cpc' = "sendpay" /\ cleft' = req.data.size
     \/ n = cleft /\ (cpc = "sendhdr" => req.data.size = 0)
        /\ cpc' = "recvhdr" /\ cleft' = HeaderSize
  /\ UNCHANGED <<calive, req, chdr, local, serverVars, down, history>>

\* The header the client has just completed, with k bytes left in flight: the
\* child's if the client stands at the end of the child's header, any otherwise.
RepliesRead(k) == IF k + RepRest = rep.data.size THEN {rep} ELSE Garbage

\* The payload it has just completed.
RepData(k) == IF k + RepRest = 0 /\ chdr.nbytes = rep.data.size THEN rep.data
              ELSE Content("junk", chdr.nbytes)

\* What becomes of a file that is written with data: all of it, or less when
\* the disk is full; the results of fwrite are not looked at.
Written(data) ==
  {data} \union IF DiskMayFill THEN {Content("part", k) : k \in 0 .. data.size - 1} ELSE {}

\* The answer to the command is complete.
Done == cpc' = "idle" /\ cleft' = 0 /\ chdr' = Blank /\ UNCHANGED calive

\* Mutant: the reply's payload is taken to end with a NUL.
AwaitLess(h) ==
  /\ cpc' = "recvpay" /\ cleft' = h.nbytes - 1
  /\ chdr' = [h EXCEPT !.data = Empty]
  /\ UNCHANGED calive

\* The client waits for the payload that header h announces.
Await(h) ==
  /\ cpc' = "recvpay" /\ cleft' = h.nbytes
  /\ chdr' = [h EXCEPT !.data = Empty]
  /\ UNCHANGED calive

\* The command cannot go on, and ends the client: cix_exit.
CannotGoOn(h) ==
  \/ req.cmd = "LS"  /\ h.cmd # "LSOUT"
  \/ req.cmd = "PUT" /\ h.cmd \notin {"ACK", "NAK"}
  \/ req.cmd = "GET"   \* a refusal, or fopen of the local file fails

\* Mutant: a refused get is reported and the client goes on, as after put and rm.
GivesUpLess(h) ==
  \/ req.cmd = "GET" /\ h.cmd = "NAK" /\ Done /\ UNCHANGED local
  \/ /\ CannotGoOn(h) /\ ~(req.cmd = "GET" /\ h.cmd = "NAK")
     /\ calive' = FALSE /\ cleft' = 0 /\ UNCHANGED <<cpc, chdr, local>>

GivesUp(h) ==
  CannotGoOn(h) /\ calive' = FALSE /\ cleft' = 0 /\ UNCHANGED <<cpc, chdr, local>>

\* What the command does with the header of the reply.
Handle(h) ==
  \/ req.cmd = "LS" /\ h.cmd = "LSOUT" /\ Await(h) /\ UNCHANGED local
  \/ req.cmd = "PUT" /\ h.cmd \in {"ACK", "NAK"} /\ Done /\ UNCHANGED local
  \/ req.cmd = "RM" /\ Done /\ UNCHANGED local
  \/ /\ req.cmd = "GET" /\ h.cmd = "FILEOUT" /\ local[req.name] # Dir
     /\ local' = [local EXCEPT ![req.name] = Empty]
     /\ IF h.nbytes = 0 THEN Done ELSE Await(h)
  \/ GivesUp(h)

\* One call of recv in recv_packet for the header.
ClientRecvHeader(n) ==
  /\ calive /\ cpc = "recvhdr" /\ n <= cleft /\ n <= down
  /\ down' = down - n
  /\ \/ n < cleft /\ cleft' = cleft - n /\ UNCHANGED <<calive, cpc, chdr, local>>
     \/ n = cleft /\ \E h \in RepliesRead(down - n) : Handle(h)
  /\ UNCHANGED <<req, serverVars, up, history>>

\* One call of recv for the payload.
ClientRecvPayload(n) ==
  /\ calive /\ cpc = "recvpay" /\ n <= cleft /\ n <= down
  /\ down' = down - n
  /\ \/ n < cleft /\ cleft' = cleft - n /\ UNCHANGED <<calive, cpc, chdr, local>>
     \/ n = cleft /\ req.cmd = "LS" /\ Done /\ UNCHANGED local
     \/ /\ n = cleft /\ req.cmd = "GET" /\ Done
        /\ \E f \in Written(RepData(down - n)) :
             local' = [local EXCEPT ![req.name] = f]
  /\ UNCHANGED <<req, serverVars, up, history>>

\* recv of the payload of an empty listing asks for no bytes.  It returns 0,
\* which recv_packet takes for a closed connection; or it waits, as Linux does.
ClientRecvNothing == cpc = "recvpay" /\ cleft = 0 /\ ClientExits

\* recv returns 0 or fails, send fails: the child is gone.  Bytes on their way
\* can be lost only when the child left some unread.
ClientBroken ==
  /\ ~salive
  /\ cpc \in Sending \/ (cpc \in Receiving /\ (down = 0 \/ up > 0))
  /\ ClientExits

------------------------------------------------------------------------------
(* The child's side of the connection. *)

RequestsRead(k) == IF k + ReqRest = req.data.size THEN {req} ELSE Garbage

ReqData(k) == IF k + ReqRest = 0 /\ shdr.nbytes = req.data.size THEN req.data
              ELSE Content("junk", shdr.nbytes)

\* The child goes back for the next header.
NextRequest == spc' = "recvhdr" /\ sleft' = HeaderSize /\ shdr' = Blank

\* Mutant: a put whose file cannot be opened is refused before its payload is read.
DispatchEarly(h) ==
  \/ h.cmd \in Commands
     /\ spc' = "serve" /\ sleft' = 0 /\ shdr' = [h EXCEPT !.data = Empty]
  \/ h.cmd \notin Commands /\ NextRequest

\* Mutant: reply_put receives its payload without looking at nbytes first.
DispatchEmptyPut(h) ==
  LET header == [h EXCEPT !.data = Empty]
  IN \/ h.cmd = "PUT" /\ spc' = "recvpay" /\ sleft' = h.nbytes /\ shdr' = header
     \/ /\ h.cmd \in Commands \ {"PUT"}
        /\ spc' = "serve" /\ sleft' = 0 /\ shdr' = header
     \/ h.cmd \notin Commands /\ NextRequest

\* The switch in run_server; a PUT with no bytes has no payload to receive, and
\* what is no command is not answered.
Dispatch(h) ==
  LET payload == h.cmd = "PUT" /\ h.nbytes > 0
      header  == [h EXCEPT !.data = Empty]
  IN \/ payload /\ spc' = "recvpay" /\ sleft' = h.nbytes /\ shdr' = header
     \/ /\ ~payload /\ h.cmd \in Commands
        /\ spc' = "serve" /\ sleft' = 0 /\ shdr' = header
     \/ h.cmd \notin Commands /\ NextRequest

ServerRecvHeader(n) ==
  /\ salive /\ spc = "recvhdr" /\ n <= sleft /\ n <= up
  /\ up' = up - n
  /\ \/ n < sleft /\ sleft' = sleft - n /\ UNCHANGED <<spc, shdr>>
     \/ n = sleft /\ \E h \in RequestsRead(up - n) : Dispatch(h)
  /\ UNCHANGED <<clientVars, salive, rep, remote, leaked, down, history>>

ServerRecvPayload(n) ==
  /\ salive /\ spc = "recvpay" /\ n <= sleft /\ n <= up
  /\ up' = up - n
  /\ \/ n < sleft /\ sleft' = sleft - n /\ UNCHANGED <<spc, shdr>>
     \/ /\ n = sleft /\ spc' = "serve" /\ sleft' = 0
        /\ shdr' = [shdr EXCEPT !.data = ReqData(up - n)]
  /\ UNCHANGED <<clientVars, salive, rep, remote, leaked, down, history>>

\* The reply is composed.
Reply(m) ==
  /\ salive /\ spc = "serve"
  /\ spc' = "sendhdr" /\ sleft' = HeaderSize
  /\ rep' = m
  /\ answered' = TRUE /\ oversize' = (oversize \/ m.data.size >= Wrap)
  /\ UNCHANGED <<clientVars, salive, shdr, up, down>>

\* A NAK has the request's name and errno.
Nak == \E e \in Errnos : Reply(Msg("NAK", shdr.name, e, Empty))

\* The name the child's C library sees: a name that fills header.filename has
\* no NUL at its end.
Opened == IF shdr.name \in Unterminated THEN {shdr.name, Stray} ELSE {shdr.name}

ReplyLs ==
  /\ shdr.cmd = "LS"
  /\ \/ \E k \in LsSizes :
          Reply(Msg("LSOUT", NoName, k % Wrap, Content("listing", k)))
     \/ Nak
  /\ UNCHANGED <<remote, leaked>>

\* Mutant: a file that cannot be opened is acknowledged too.
ReplyPutAcks ==
  /\ shdr.cmd = "PUT"
  /\ \/ \E n \in Opened, f \in Written(shdr.data) :
          remote[n] # Dir /\ remote' = [remote EXCEPT ![n] = f]
     \/ UNCHANGED remote
  /\ Reply(Msg("ACK", NoName, 0, Empty))
  /\ UNCHANGED leaked

\* fopen "w", fwrite, fclose.  Only fclose is asked whether the data was written.
ReplyPut ==
  /\ shdr.cmd = "PUT"
  /\ \/ /\ \E n \in Opened, f \in Written(shdr.data) :
             remote[n] # Dir /\ remote' = [remote EXCEPT ![n] = f]
        /\ \/ Reply(Msg("ACK", NoName, 0, Empty))
           \/ DiskMayFill /\ Nak
     \/ Nak /\ UNCHANGED remote
  /\ UNCHANGED leaked

\* A file that cannot be read to its end is not closed.  A directory can be opened
\* and not read, where its length leaves make_unique any memory.
ReplyGet ==
  /\ shdr.cmd = "GET"
  /\ \/ /\ \E n \in Opened :
             /\ IsFile(remote[n])
             /\ Reply(Msg("FILEOUT", shdr.name, remote[n].size % Wrap, remote[n]))
        /\ UNCHANGED leaked
     \/ Nak /\ UNCHANGED leaked
     \/ /\ \E n \in Opened : remote[n] \notin {NoFile, Empty}
        /\ Nak /\ leaked' = IF leaked < MaxLeaks THEN leaked + 1 ELSE leaked
  /\ UNCHANGED remote

ReplyRm ==
  /\ shdr.cmd = "RM"
  /\ \/ /\ \E n \in Opened :
             IsFile(remote[n]) /\ remote' = [remote EXCEPT ![n] = NoFile]
        /\ Reply(Msg("ACK", NoName, 0, Empty))
     \/ Nak /\ UNCHANGED remote
  /\ UNCHANGED leaked

ServerSend(n) ==
  /\ salive /\ spc \in Sending /\ n <= sleft /\ down + n <= BufCap
  /\ down' = down + n
  /\ \/ n < sleft /\ sleft' = sleft - n /\ UNCHANGED <<spc, shdr>>
     \/ /\ n = sleft /\ spc = "sendhdr" /\ rep.data.size > 0
        /\ spc' = "sendpay" /\ sleft' = rep.data.size /\ UNCHANGED shdr
     \/ n = sleft /\ (spc = "sendhdr" => rep.data.size = 0) /\ NextRequest
  /\ UNCHANGED <<clientVars, salive, rep, remote, leaked, up, history>>

ServerExits ==
  /\ salive /\ salive' = FALSE
  /\ UNCHANGED <<clientVars, spc, sleft, shdr, rep, remote, leaked, up, down, history>>

\* Mutant: recv_packet takes end-of-file for the end of the payload.
ServerBrokenServes ==
  /\ ~calive
  /\ IF spc = "recvpay" /\ up = 0
     THEN /\ spc' = "serve" /\ sleft' = 0
          /\ shdr' = [shdr EXCEPT !.data = Content("part", shdr.nbytes - sleft)]
          /\ UNCHANGED <<clientVars, salive, rep, remote, leaked, up, down, history>>
     ELSE spc # "serve" /\ ServerExits

\* Mutant: recv_packet takes end-of-file for a short read.
ServerBrokenSpins == ~calive /\ spc \in Sending /\ ServerExits

\* recv returns 0 or fails, send fails: socket_error ends run_server.
ServerBroken ==
  /\ ~calive
  /\ spc \in Sending \/ (spc \in Receiving /\ (up = 0 \/ down > 0))
  /\ ServerExits

\* A signal, or an exception nobody catches: get of a directory asks make_unique
\* for as many bytes as ftell says a directory has.
ServerKilled == ServerExits

------------------------------------------------------------------------------
Pieces == 1 .. BufCap

ClientStep ==
  \/ \E n \in Pieces : ClientSend(n) \/ ClientRecvHeader(n) \/ ClientRecvPayload(n)
  \/ ClientBroken

ServerStep ==
  \/ \E n \in Pieces : ServerSend(n) \/ ServerRecvHeader(n) \/ ServerRecvPayload(n)
  \/ ReplyLs \/ ReplyPut \/ ReplyGet \/ ReplyRm
  \/ ServerBroken

Next ==
  \/ AskLs \/ \E n \in Names : AskPut(n) \/ AskGet(n) \/ AskRm(n)
  \/ Quit \/ ClientKilled \/ ClientRecvNothing \/ ServerKilled
  \/ ClientStep \/ ServerStep

Spec == Init /\ [][Next]_vars

\* Both processes run, and the network delivers.
FairSpec == Spec /\ WF_vars(ClientStep) /\ WF_vars(ServerStep)

------------------------------------------------------------------------------
(* What makes a session correct. *)

\* The child never takes a byte for what it is not: reading a header it stands
\* within the header of the client's request, reading a payload within that
\* payload with exactly its bytes still to come, and otherwise all of the
\* request has been read.  The header's count is all it has to go by.
UpInSync ==
  CASE spc = "recvhdr" ->
         \/ cpc # "sendhdr" /\ up + ReqRest = 0 /\ sleft = HeaderSize
         \/ up + ReqRest = sleft + req.data.size /\ ~answered /\ cpc # "idle"
    [] spc = "recvpay" -> up + ReqRest = sleft
    [] OTHER -> up + ReqRest = 0

DownInSync ==
  CASE cpc = "recvhdr" ->
         \/ down + RepRest = 0 /\ cleft = HeaderSize /\ ~answered
         \/ down + RepRest = cleft + rep.data.size /\ answered
    [] cpc = "recvpay" -> down + RepRest = cleft
    [] OTHER -> down + RepRest = 0

\* The stream is lost by nothing but a payload so long that header.nbytes cannot
\* say it: not by how the bytes arrive, a refusal, or the end of either side.
InSync == oversize \/ (UpInSync /\ DownInSync)

\* An acknowledged put has left the whole local file under its name, and nothing
\* but that, when the client learns of it.
PutCopies ==
  cpc = "recvhdr" /\ answered /\ req.cmd = "PUT" /\ rep.cmd = "ACK" =>
    remote[req.name] = req.data

\* When a get ends well the local file is the remote file.
GetCopies ==
  [][cpc # "idle" /\ cpc' = "idle" /\ req.cmd = "GET" =>
       local'[req.name] = remote[req.name]]_vars

\* A file lost by a get that cannot be read to its end is the only one: the
\* client ends upon the refusal, and the child with it.
OneLeak == leaked <= 1

\* A command ends: its answer is complete or the client is; unless it waits for the
\* no bytes of an empty listing.
CommandEnds == (cpc # "idle") ~> (cpc = "idle" \/ ~calive \/ (cpc = "recvpay" /\ cleft = 0))

\* The child ends when its client has.
ChildFollows == ~calive ~> ~salive

\* A session implements CixRpc.
Rpc == INSTANCE CixRpc WITH
  phase  <- IF cpc = "idle" THEN "idle" ELSE IF answered THEN "answered" ELSE "asked",
  alive  <- calive,
  call   <- [cmd |-> req.cmd, name |-> req.name, data |-> req.data],
  answer <- [ok |-> rep.cmd # "NAK", data |-> rep.data]

\* A put or rm changes the remote file once, wholly, and only as it was asked,
\* also when its client has gone; one cut short changes nothing.  The local file
\* changes only by a get that was answered, to the remote file at that time, or
\* to nothing if the connection breaks before its last byte.
ImplementsRpc == Rpc!Spec
==============================================================================
