-------------------------- MODULE CixSession_proofs --------------------------
(***************************************************************************)
(* Proofs about CixSession, for files, headers and kernel buffers of any     *)
(* size and any number of names: the types, that the two sides never lose    *)
(* the stream but by a payload of 2^32 bytes or more, that a get loses one   *)
(* FILE at most, and that a session implements CixRpc.                       *)
(***************************************************************************)
EXTENDS CixSession, TLAPS

USE NamesAssumption, SizesAssumption, SpelledAssumption, DisksAssumption

------------------------------------------------------------------------------
(* The operators the actions are built from. *)

\* A payload has the length it is made with.
LEMMA ContentIsFile ==
  ASSUME NEW t \in Tags, NEW k \in Nat
  PROVE  Content(t, k) \in File /\ Content(t, k).size = k
BY DEF Content, File, Tags

LEMMA EmptyIsFile == Empty \in File /\ Empty.size = 0
BY ContentIsFile DEF Empty, Tags

LEMMA FileSize == \A f \in File : f.size \in Nat
BY DEF File

\* What goes to or comes from a file on disk is a file's content.
LEMMA WrittenIsFile == ASSUME NEW f \in File PROVE Written(f) \subseteq File
<1>1. \A k \in 0 .. f.size - 1 : Content("part", k) \in File
  BY ContentIsFile, FileSize DEF Tags
<1> QED BY <1>1 DEF Written

\* header.nbytes holds the length of a payload shorter than Wrap as it is, and
\* of any other payload something that fits it.
LEMMA NbytesFits ==
  ASSUME NEW k \in Nat
  PROVE  k % Wrap \in 0 .. Wrap - 1 /\ (k < Wrap => k % Wrap = k)
OBVIOUS

LEMMA MsgIsMessage ==
  ASSUME NEW c \in Codes, NEW n \in AllNames \union {NoName},
         NEW k \in 0 .. Wrap - 1, NEW d \in File,
         c \in {"PUT", "GET", "RM"} => n \in AllNames
  PROVE  Msg(c, n, k, d) \in Message
BY DEF Msg, Message

LEMMA BlankIsMessage == Blank \in Message
BY MsgIsMessage, EmptyIsFile DEF Blank, Codes

LEMMA GarbageIsMessage == Garbage \subseteq Message
BY MsgIsMessage, EmptyIsFile DEF Garbage

\* A header without its payload is a message too.
LEMMA HeaderIsMessage ==
  ASSUME NEW h \in Message, NEW d \in File
  PROVE  /\ [h EXCEPT !.data = d] \in Message
         /\ [h EXCEPT !.data = d].cmd = h.cmd
         /\ [h EXCEPT !.data = d].nbytes = h.nbytes
         /\ [h EXCEPT !.data = d].name = h.name
         /\ [h EXCEPT !.data = d].data = d
BY DEF Message

LEMMA MessageFields ==
  ASSUME NEW m \in Message
  PROVE  /\ m.cmd \in Codes /\ m.name \in AllNames \union {NoName}
         /\ m.nbytes \in 0 .. Wrap - 1 /\ m.nbytes \in Nat
         /\ m.data \in File /\ m.data.size \in Nat
BY FileSize DEF Message

LEMMA RestsAreNat == TypeOK => ReqRest \in Nat /\ RepRest \in Nat
BY MessageFields DEF TypeOK, ReqRest, RepRest

------------------------------------------------------------------------------
(* Type correctness. *)

LEMMA InitTypeOK == Init => TypeOK
<1> SUFFICES ASSUME Init PROVE TypeOK
  OBVIOUS
<1>1. /\ local \in [Names -> File \union {NoFile, Dir}]
      /\ remote \in [AllNames -> File \union {NoFile, Dir}]
  BY DEF Init
<1>2. req \in Message /\ rep \in Message /\ chdr \in Message /\ shdr \in Message
  BY BlankIsMessage DEF Init
<1>3. cleft \in Nat /\ sleft \in Nat /\ up \in 0 .. BufCap /\ down \in 0 .. BufCap
  BY DEF Init
<1>4. /\ cpc \in {"idle"} \union Sending \union Receiving
      /\ spc \in {"serve"} \union Sending \union Receiving
  BY DEF Init, Sending, Receiving
<1>5. leaked \in 0 .. MaxLeaks
  BY DEF Init, MaxLeaks
<1>6. /\ calive \in BOOLEAN /\ salive \in BOOLEAN
      /\ answered \in BOOLEAN /\ oversize \in BOOLEAN
  BY Zenon DEF Init
<1> QED
  BY <1>1, <1>2, <1>3, <1>4, <1>5, <1>6 DEF TypeOK

\* What Handle and Dispatch leave behind is well typed.
LEMMA HandleTypes ==
  ASSUME TypeOK, NEW h \in Message, Handle(h)
  PROVE  /\ calive' \in BOOLEAN
         /\ cpc' \in {"idle"} \union Sending \union Receiving
         /\ cleft' \in Nat /\ chdr' \in Message
         /\ local' \in [Names -> File \union {NoFile, Dir}]
<1> USE BlankIsMessage, EmptyIsFile, HeaderIsMessage, MessageFields
    DEF TypeOK, Sending, Receiving
<1>1. CASE Done
  BY <1>1 DEF Done, Handle, GivesUp
<1>2. CASE Await(h)
  BY <1>2 DEF Await, Handle, GivesUp
<1>3. CASE GivesUp(h)
  BY <1>3 DEF GivesUp
<1> QED BY <1>1, <1>2, <1>3 DEF Handle

LEMMA DispatchTypes ==
  ASSUME TypeOK, NEW h \in Message, Dispatch(h)
  PROVE  /\ spc' \in {"serve"} \union Sending \union Receiving
         /\ sleft' \in Nat /\ shdr' \in Message
BY BlankIsMessage, EmptyIsFile, HeaderIsMessage, MessageFields
DEF TypeOK, Sending, Receiving, Dispatch, NextRequest

LEMMA TypeOKStep == TypeOK /\ [Next]_vars => TypeOK'
<1> SUFFICES ASSUME TypeOK, [Next]_vars PROVE TypeOK'
  OBVIOUS
<1> USE MessageFields
<1>1. ASSUME NEW m \in Message, Request(m) PROVE TypeOK'
  BY <1>1 DEF Request, TypeOK, serverVars, Sending
<1>2. CASE AskLs
  <2>1. "LS" \in Codes /\ "LS" \notin {"PUT", "GET", "RM"} /\ 0 \in 0 .. Wrap - 1
    BY DEF Codes, Commands
  <2>2. Msg("LS", NoName, 0, Empty) \in Message
    BY <2>1, MsgIsMessage, EmptyIsFile
  <2> QED BY <1>1, <1>2, <2>2 DEF AskLs
<1>3. ASSUME NEW n \in Names, AskGet(n) \/ AskRm(n) PROVE TypeOK'
  <2>1. \A c \in {"GET", "RM"} : Msg(c, n, 0, Empty) \in Message
    BY MsgIsMessage, EmptyIsFile DEF Codes, Commands, AllNames
  <2> QED BY <1>1, <1>3, <2>1 DEF AskGet, AskRm
<1>4. ASSUME NEW n \in Names, AskPut(n) PROVE TypeOK'
  <2>1. local[n] \in File
    BY <1>4 DEF AskPut, TypeOK, IsFile
  <2>2. Msg("PUT", n, local[n].size % Wrap, local[n]) \in Message
    BY <2>1, MsgIsMessage, NbytesFits, FileSize DEF Codes, Commands, AllNames
  <2> QED BY <1>1, <1>4, <2>2 DEF AskPut
<1>5. CASE ClientExits
  BY <1>5 DEF ClientExits, TypeOK, serverVars, history
<1>6. CASE Quit \/ ClientKilled \/ ClientRecvNothing \/ ClientBroken
  BY <1>5, <1>6 DEF Quit, ClientKilled, ClientRecvNothing, ClientBroken
<1>7. ASSUME NEW n \in Pieces, ClientSend(n) PROVE TypeOK'
  BY <1>7 DEF ClientSend, TypeOK, serverVars, history, Pieces, Sending, Receiving
<1>8. ASSUME NEW n \in Pieces, ClientRecvHeader(n) PROVE TypeOK'
  <2>1. RepliesRead(down - n) \subseteq Message
    BY GarbageIsMessage DEF RepliesRead, TypeOK
  <2>2. ASSUME NEW h \in Message, Handle(h) PROVE TypeOK'
    BY <1>8, <2>2, HandleTypes DEF ClientRecvHeader, TypeOK, serverVars, history, Pieces
  <2>3. CASE n < cleft /\ cleft' = cleft - n /\ UNCHANGED <<calive, cpc, chdr, local>>
    BY <1>8, <2>3 DEF ClientRecvHeader, TypeOK, serverVars, history, Pieces
  <2> QED BY <1>8, <2>1, <2>2, <2>3 DEF ClientRecvHeader
<1>9. ASSUME NEW n \in Pieces, ClientRecvPayload(n) PROVE TypeOK'
  <2>1. Written(RepData(down - n)) \subseteq File
    BY WrittenIsFile, ContentIsFile DEF RepData, TypeOK, Tags
  <2>2. local' \in [Names -> File \union {NoFile, Dir}]
    BY <1>9, <2>1 DEF ClientRecvPayload, TypeOK
  <2>3. cpc' \in {"idle", "recvpay"} /\ cleft' \in Nat /\ chdr' \in Message
        /\ calive' = calive
    <3>1. CASE n < cleft /\ cleft' = cleft - n /\ UNCHANGED <<calive, cpc, chdr, local>>
      BY <1>9, <3>1 DEF ClientRecvPayload, TypeOK, Pieces
    <3>2. CASE Done
      BY <3>2, BlankIsMessage DEF Done, TypeOK
    <3> QED BY <1>9, <3>1, <3>2 DEF ClientRecvPayload
  <2>4. down' \in 0 .. BufCap
    BY <1>9 DEF ClientRecvPayload, TypeOK, Pieces
  <2> QED
    BY <1>9, <2>2, <2>3, <2>4
    DEF ClientRecvPayload, TypeOK, serverVars, history, Receiving
<1>10. ASSUME NEW n \in Pieces, ServerRecvHeader(n) PROVE TypeOK'
  <2>1. RequestsRead(up - n) \subseteq Message
    BY GarbageIsMessage DEF RequestsRead, TypeOK
  <2>2. ASSUME NEW h \in Message, Dispatch(h) PROVE TypeOK'
    BY <1>10, <2>2, DispatchTypes DEF ServerRecvHeader, TypeOK, clientVars, history, Pieces
  <2>3. CASE n < sleft /\ sleft' = sleft - n /\ UNCHANGED <<spc, shdr>>
    BY <1>10, <2>3 DEF ServerRecvHeader, TypeOK, clientVars, history, Pieces
  <2> QED BY <1>10, <2>1, <2>2, <2>3 DEF ServerRecvHeader
<1>11. ASSUME NEW n \in Pieces, ServerRecvPayload(n) PROVE TypeOK'
  <2>1. ReqData(up - n) \in File
    BY ContentIsFile DEF ReqData, TypeOK, Tags
  <2> QED
    BY <1>11, <2>1, HeaderIsMessage
    DEF ServerRecvPayload, TypeOK, clientVars, history, Pieces, Receiving
<1>12. ASSUME NEW m \in Message, Reply(m), leaked' \in 0 .. MaxLeaks,
              remote' \in [AllNames -> File \union {NoFile, Dir}]
       PROVE TypeOK'
  BY <1>12 DEF Reply, TypeOK, clientVars, Sending
<1>13. ASSUME Nak, leaked' \in 0 .. MaxLeaks,
              remote' \in [AllNames -> File \union {NoFile, Dir}]
       PROVE TypeOK'
  <2>1. \A e \in Errnos : Msg("NAK", shdr.name, e, Empty) \in Message
    BY MsgIsMessage, EmptyIsFile DEF Codes, Replies, TypeOK
  <2> QED BY <1>12, <1>13, <2>1 DEF Nak
<1>14. CASE ReplyLs
  <2>1. \A k \in LsSizes :
          Msg("LSOUT", NoName, k % Wrap, Content("listing", k)) \in Message
    BY MsgIsMessage, ContentIsFile, NbytesFits DEF Codes, Replies, Tags
  <2> QED BY <1>12, <1>13, <1>14, <2>1 DEF ReplyLs, TypeOK
<1> DEFINE ACK == Msg("ACK", NoName, 0, Empty)
<1>15. ACK \in Message
  BY MsgIsMessage, EmptyIsFile DEF Codes, Replies
<1> HIDE DEF ACK
<1>16. CASE ReplyPut
  <2>1. Written(shdr.data) \subseteq File
    BY WrittenIsFile DEF TypeOK
  <2>2. remote' \in [AllNames -> File \union {NoFile, Dir}]
    BY <1>16, <2>1 DEF ReplyPut, TypeOK
  <2> QED BY <1>12, <1>13, <1>15, <1>16, <2>2 DEF ReplyPut, TypeOK, ACK
<1>17. CASE ReplyGet
  <2>1. ASSUME NEW n \in Opened, IsFile(remote[n])
        PROVE Msg("FILEOUT", shdr.name, remote[n].size % Wrap, remote[n]) \in Message
    <3>1. n \in AllNames
      BY <1>17 DEF ReplyGet, Opened, TypeOK, AllNames, Message
    <3>2. remote[n] \in File
      BY <2>1, <3>1 DEF IsFile, TypeOK
    <3> QED BY <3>2, MsgIsMessage, NbytesFits, FileSize DEF Codes, Replies, TypeOK
  <2>2. leaked' \in 0 .. MaxLeaks
    BY <1>17 DEF ReplyGet, TypeOK, MaxLeaks
  <2> QED BY <1>12, <1>13, <1>17, <2>1, <2>2 DEF ReplyGet, TypeOK
<1>18. CASE ReplyRm
  <2>1. remote' \in [AllNames -> File \union {NoFile, Dir}]
    BY <1>18 DEF ReplyRm, TypeOK
  <2> QED BY <1>12, <1>13, <1>15, <1>18, <2>1 DEF ReplyRm, TypeOK, ACK
<1>19. ASSUME NEW n \in Pieces, ServerSend(n) PROVE TypeOK'
  BY <1>19, BlankIsMessage
  DEF ServerSend, NextRequest, TypeOK, clientVars, history, Pieces, Sending, Receiving
<1>20. CASE ServerExits
  BY <1>20 DEF ServerExits, TypeOK, clientVars, history
<1>21. CASE ServerBroken \/ ServerKilled
  BY <1>20, <1>21 DEF ServerBroken, ServerKilled
<1>22. CASE UNCHANGED vars
  BY <1>22 DEF vars, clientVars, serverVars, history, TypeOK
<1> QED
  BY <1>2, <1>3, <1>4, <1>6, <1>7, <1>8, <1>9, <1>10, <1>11, <1>14, <1>16, <1>17,
     <1>18, <1>19, <1>21, <1>22
  DEF Next, ClientStep, ServerStep

\* TypeOK: whatever arrives on the connection, and however it is cut into pieces,
\* the variables of both sides keep their types.
THEOREM TypeCorrect == Spec => []TypeOK
  BY InitTypeOK, TypeOKStep, PTL DEF Spec

------------------------------------------------------------------------------
(* The stream.  InSync says where each side stands in it; that it stays so    *)
(* follows from what the headers say of their payloads, and from which side   *)
(* can be where when the other is.                                            *)

\* A header announces its payload, if that is short enough; only put, LSOUT and
\* FILEOUT have one.
Fields ==
  /\ req.cmd # "PUT" => req.data.size = 0
  /\ rep.cmd \notin {"LSOUT", "FILEOUT"} => rep.data.size = 0
  /\ ~oversize /\ req.cmd = "PUT" => req.nbytes = req.data.size
  /\ ~oversize /\ rep.cmd \in {"LSOUT", "FILEOUT"} => rep.nbytes = rep.data.size

\* One request at a time, and the two sides take turns.
Turns ==
  /\ spc \in {"recvpay", "serve"} => ~answered /\ cpc # "idle" /\ shdr.cmd = req.cmd
  /\ spc = "recvpay" => sleft > 0
  /\ spc = "serve" => cpc = "recvhdr"
  /\ spc \in Sending => answered /\ cpc \in Receiving /\ sleft > 0
  /\ cpc \in Sending => ~answered /\ cleft > 0
  /\ cpc = "recvpay" => answered
  /\ answered /\ req.cmd = "RM" => rep.data.size = 0
  /\ cpc # "idle" => req.cmd \in Commands

SInv ==
  /\ TypeOK
  /\ Fields
  /\ ~oversize => Turns /\ UpInSync /\ DownInSync

LEMMA InitSInv == Init => SInv
<1> SUFFICES ASSUME Init PROVE SInv
  OBVIOUS
<1>1. Blank.cmd = "other" /\ Blank.data.size = 0
  BY EmptyIsFile DEF Blank, Msg
<1>2. Fields
  BY <1>1 DEF Init, Fields
<1>3. Turns /\ UpInSync /\ DownInSync
  BY DEF Init, Turns, UpInSync, DownInSync, ReqRest, RepRest, Sending, Receiving
<1> QED BY <1>2, <1>3, InitTypeOK DEF SInv

\* oversize is never reset.
LEMMA OversizeStays == TypeOK /\ [Next]_vars /\ ~oversize' => ~oversize
BY DEF Next, AskLs, AskGet, AskRm, AskPut, Request, Quit, ClientKilled,
       ClientRecvNothing, ClientBroken, ClientExits, ClientStep, ClientSend,
       ClientRecvHeader, ClientRecvPayload, ServerStep, ServerSend, ServerRecvHeader,
       ServerRecvPayload, ReplyLs, ReplyPut, ReplyGet, ReplyRm, Nak, Reply,
       ServerBroken, ServerKilled, ServerExits, vars, history

LEMMA FieldsStep == SInv /\ [Next]_vars => Fields'
<1> SUFFICES ASSUME SInv, [Next]_vars PROVE Fields'
  OBVIOUS
<1> USE DEF SInv
<1>1. CASE UNCHANGED <<req, rep>>
  BY <1>1, OversizeStays DEF Fields
<1>2. ASSUME NEW c, NEW n, NEW d \in File, Request(Msg(c, n, d.size % Wrap, d)),
             c # "PUT" => d.size = 0
      PROVE Fields'
  <2>1. req'.cmd = c /\ req'.data = d /\ req'.nbytes = d.size % Wrap /\ rep' = rep
    BY <1>2 DEF Request, Msg, serverVars
  <2>2. ~oversize' => ~oversize /\ d.size < Wrap
    <3>1. oversize' = (oversize \/ d.size >= Wrap)
      BY <1>2 DEF Request, Msg
    <3>2. ~oversize' => ~oversize /\ ~(d.size >= Wrap)
      BY Zenon, <3>1
    <3> QED BY <3>2, FileSize
  <2>3. ~oversize' => req'.nbytes = d.size
    BY <2>1, <2>2, NbytesFits, FileSize
  <2> QED BY <1>2, <2>1, <2>2, <2>3 DEF Fields
<1>3. ASSUME NEW c, NEW n, NEW d \in File, Reply(Msg(c, n, d.size % Wrap, d)),
             c \notin {"LSOUT", "FILEOUT"} => d.size = 0
      PROVE Fields'
  <2>1. rep'.cmd = c /\ rep'.data = d /\ rep'.nbytes = d.size % Wrap /\ req' = req
    BY <1>3 DEF Reply, Msg, clientVars
  <2>2. ~oversize' => ~oversize /\ d.size < Wrap
    <3>1. oversize' = (oversize \/ d.size >= Wrap)
      BY <1>3 DEF Reply, Msg
    <3>2. ~oversize' => ~oversize /\ ~(d.size >= Wrap)
      BY Zenon, <3>1
    <3> QED BY <3>2, FileSize
  <2>3. ~oversize' => rep'.nbytes = d.size
    BY <2>1, <2>2, NbytesFits, FileSize
  <2> QED BY <1>3, <2>1, <2>2, <2>3 DEF Fields
<1>4. ASSUME NEW c, NEW n, NEW k, Reply(Msg(c, n, k, Empty)),
             c \notin {"LSOUT", "FILEOUT"}
      PROVE Fields'
  BY <1>4, EmptyIsFile DEF Reply, Msg, Fields, clientVars, TypeOK
<1>5. ASSUME NEW c, NEW n, Request(Msg(c, n, 0, Empty)), c # "PUT" PROVE Fields'
  BY <1>5, EmptyIsFile DEF Request, Msg, Fields, serverVars, TypeOK
<1>6. CASE AskLs \/ \E n \in Names : AskGet(n) \/ AskRm(n)
  BY <1>5, <1>6 DEF AskLs, AskGet, AskRm
<1>7. ASSUME NEW n \in Names, AskPut(n) PROVE Fields'
  <2>1. local[n] \in File
    BY <1>7 DEF AskPut, IsFile, TypeOK
  <2> QED BY <1>2, <1>7, <2>1 DEF AskPut
<1>8. CASE Nak
  BY <1>4, <1>8 DEF Nak
<1>9. CASE ReplyLs
  BY <1>3, <1>8, <1>9, ContentIsFile DEF ReplyLs, Tags
<1>10. CASE ReplyPut \/ ReplyRm
  BY <1>4, <1>8, <1>10 DEF ReplyPut, ReplyRm
<1>11. CASE ReplyGet
  <2>1. ASSUME NEW n \in Opened, IsFile(remote[n]) PROVE remote[n] \in File
    BY <1>11, <2>1 DEF ReplyGet, Opened, IsFile, TypeOK, AllNames, Message
  <2> QED BY <1>3, <1>8, <1>11, <2>1 DEF ReplyGet
<1> QED
  BY <1>1, <1>6, <1>7, <1>9, <1>10, <1>11
  DEF Next, Quit, ClientKilled, ClientRecvNothing, ClientBroken, ClientExits,
      ClientStep, ClientSend, ClientRecvHeader, ClientRecvPayload, ServerStep,
      ServerSend, ServerRecvHeader, ServerRecvPayload, ServerBroken, ServerKilled,
      ServerExits, vars, clientVars, serverVars

\* The stream's part of SInv.
Stream == Turns /\ UpInSync /\ DownInSync

\* Where a header or a payload is complete, it is the one that was sent.
LEMMA WholeMessages ==
  ASSUME TypeOK, Stream, NEW n \in Pieces
  PROVE  /\ ClientRecvHeader(n) /\ n = cleft =>
              answered /\ down - n + RepRest = rep.data.size /\ Handle(rep)
         /\ ServerRecvHeader(n) /\ n = sleft =>
              /\ up - n + ReqRest = req.data.size /\ ~answered /\ cpc # "idle"
              /\ Dispatch(req)
         /\ ServerRecvPayload(n) /\ n = sleft => up - n + ReqRest = 0
         /\ ClientRecvPayload(n) /\ n = cleft => down - n + RepRest = 0
<1>0. /\ cleft \in Nat /\ sleft \in Nat /\ up \in Nat /\ down \in Nat
      /\ ReqRest \in Nat /\ RepRest \in Nat /\ n \in Nat /\ n > 0
      /\ req.data.size \in Nat /\ rep.data.size \in Nat
  BY RestsAreNat, MessageFields DEF TypeOK, Pieces
<1> USE DEF Stream, UpInSync, DownInSync
<1>1. ASSUME ClientRecvHeader(n), n = cleft
      PROVE  answered /\ down - n + RepRest = rep.data.size /\ Handle(rep)
  <2>1. cpc = "recvhdr" /\ n <= down
    BY <1>1 DEF ClientRecvHeader
  <2>2. answered /\ down - n + RepRest = rep.data.size
    BY <1>0, <1>1, <2>1
  <2>3. RepliesRead(down - n) = {rep}
    BY <2>2 DEF RepliesRead
  <2>4. ~(n < cleft)
    BY <1>0, <1>1
  <2> QED BY <1>1, <2>2, <2>3, <2>4 DEF ClientRecvHeader
<1>2. ASSUME ServerRecvHeader(n), n = sleft
      PROVE  /\ up - n + ReqRest = req.data.size /\ ~answered /\ cpc # "idle"
             /\ Dispatch(req)
  <2>1. spc = "recvhdr" /\ n <= up
    BY <1>2 DEF ServerRecvHeader
  <2>2. up - n + ReqRest = req.data.size /\ ~answered /\ cpc # "idle"
    BY <1>0, <1>2, <2>1
  <2>3. RequestsRead(up - n) = {req}
    BY <2>2 DEF RequestsRead
  <2>4. ~(n < sleft)
    BY <1>0, <1>2
  <2> QED BY <1>2, <2>2, <2>3, <2>4 DEF ServerRecvHeader
<1>3. ASSUME ServerRecvPayload(n), n = sleft PROVE up - n + ReqRest = 0
  BY <1>0, <1>3 DEF ServerRecvPayload
<1>4. ASSUME ClientRecvPayload(n), n = cleft PROVE down - n + RepRest = 0
  BY <1>0, <1>4 DEF ClientRecvPayload
<1> QED BY <1>1, <1>2, <1>3, <1>4

LEMMA StreamStep ==
  ASSUME TypeOK, TypeOK', Fields, Stream, [Next]_vars, ~oversize, ~oversize'
  PROVE  Stream'
<1> USE DEF Stream, Turns, UpInSync, DownInSync, ReqRest, RepRest, Sending, Receiving
<1>0. /\ req.data.size \in Nat /\ rep.data.size \in Nat /\ shdr.nbytes \in Nat
      /\ cleft \in Nat /\ sleft \in Nat /\ up \in Nat /\ down \in Nat
      /\ HeaderSize \in Nat /\ HeaderSize > 0
      /\ up' \in Nat /\ down' \in Nat
      /\ \A n \in Pieces : n \in Nat /\ n > 0
  BY MessageFields DEF TypeOK, Pieces
<1>1. ASSUME NEW m \in Message, m.cmd \in Commands, Request(m) PROVE Stream'
  <2>1. spc = "recvhdr" /\ up = 0 /\ down = 0 /\ sleft = HeaderSize
    <3>1. cpc = "idle" /\ spc \in {"serve"} \union Sending \union Receiving
      BY <1>1 DEF Request, TypeOK
    <3>2. spc = "recvhdr"
      BY <3>1
    <3>3. up + 0 = 0 /\ down + 0 = 0 /\ sleft = HeaderSize
      BY <3>1, <3>2
    <3> QED BY <1>0, <3>2, <3>3
  <2>2. m.data.size \in Nat
    BY MessageFields
  <2>3. ReqRest' = HeaderSize + m.data.size /\ RepRest' = 0
    BY <1>1, <2>1 DEF Request, serverVars
  <2> HIDE DEF ReqRest, RepRest
  <2> QED BY <1>0, <1>1, <2>1, <2>2, <2>3 DEF Request, serverVars
<1>2. CASE AskLs \/ \E n \in Names : AskGet(n) \/ AskRm(n) \/ AskPut(n)
  <2>1. ASSUME NEW m, Request(m), m.cmd \in Commands PROVE Stream'
    <3> HIDE DEF Stream
    <3> QED BY <1>1, <2>1 DEF Request, TypeOK
  <2>2. \A c, n, k, d : Msg(c, n, k, d).cmd = c
    BY DEF Msg
  <2> HIDE DEF Stream
  <2> QED BY <1>2, <2>1, <2>2 DEF AskLs, AskGet, AskRm, AskPut, Commands
<1>3. CASE UNCHANGED <<cpc, cleft, req, spc, sleft, shdr, rep, up, down, answered>>
  BY <1>3
<1>4. CASE ClientExits \/ ServerExits \/ UNCHANGED vars
  BY <1>3, <1>4 DEF ClientExits, ServerExits, vars, clientVars, serverVars, history
<1>5. ASSUME NEW n \in Pieces, ClientSend(n) PROVE Stream'
  BY <1>0, <1>5 DEF ClientSend, serverVars, history, Pieces
<1>6. ASSUME NEW n \in Pieces, ClientRecvHeader(n) PROVE Stream'
  <2>1. CASE n < cleft
    <3>1. cleft' = cleft - n /\ down' = down - n /\ n \in Nat
          /\ UNCHANGED <<cpc, req, spc, sleft, shdr, rep, up, answered>>
      <4>1. n \in Nat /\ n # cleft
        BY <1>0, <2>1
      <4> QED BY <1>6, <4>1 DEF ClientRecvHeader, serverVars, history
    <3>2. ReqRest' = ReqRest /\ RepRest' = RepRest
      BY <1>6, <3>1 DEF ClientRecvHeader
    <3>3. ReqRest \in Nat /\ RepRest \in Nat
      BY RestsAreNat
    <3> HIDE DEF ReqRest, RepRest
    <3> QED BY <1>0, <1>6, <3>1, <3>2, <3>3 DEF ClientRecvHeader, Pieces
  <2>2. CASE n = cleft
    <3>1. answered /\ down - n + RepRest = rep.data.size /\ cpc = "recvhdr"
      BY <1>6, <2>2, WholeMessages DEF ClientRecvHeader
    <3>2. Handle(rep)
      BY <1>6, <2>2, WholeMessages
    <3>3. /\ UNCHANGED <<req, spc, sleft, shdr, rep, up, answered>>
          /\ down' = down - n /\ n \in Nat /\ n > 0 /\ cleft > 0
      BY <1>0, <1>6, <2>2 DEF ClientRecvHeader, serverVars, history, Pieces
    <3>4. RepRest' = RepRest /\ RepRest \in Nat
      BY <3>3, RestsAreNat
    <3>5. spc \notin {"recvpay", "serve"} /\ up + ReqRest = 0
      BY <3>1
    <3>6. up' = 0 /\ ReqRest' = 0
      BY <1>0, <3>1, <3>2, <3>3, <3>5 DEF Handle, GivesUp, Done, Await
    <3> HIDE DEF RepRest, ReqRest
    <3>7. CASE Await(rep) /\ rep.cmd \in {"LSOUT", "FILEOUT"}
      BY <1>0, <3>1, <3>3, <3>4, <3>5, <3>6, <3>7 DEF Await, Fields
    <3>8. CASE Done /\ rep.data.size = 0
      <4>1. down' + RepRest' = 0
        BY <1>0, <3>1, <3>3, <3>4, <3>8
      <4>2. spc \notin Sending
        BY <1>0, <3>3, <3>4, <4>1 DEF RepRest
      <4>3. spc = "recvhdr"
        BY <3>5, <4>2 DEF TypeOK
      <4> QED BY <1>0, <3>1, <3>3, <3>5, <3>6, <3>8, <4>1, <4>3 DEF Done
    <3>9. CASE GivesUp(rep)
      BY <1>0, <3>1, <3>3, <3>4, <3>5, <3>6, <3>9 DEF GivesUp
    <3> QED
      BY <3>1, <3>2, <3>7, <3>8, <3>9 DEF Handle, Fields
  <2> QED BY <1>0, <1>6, <2>1, <2>2 DEF ClientRecvHeader
<1>7. ASSUME NEW n \in Pieces, ClientRecvPayload(n) PROVE Stream'
  <2>1. /\ UNCHANGED <<req, spc, sleft, shdr, rep, up, answered>>
        /\ down' = down - n /\ n \in Nat /\ n > 0 /\ cpc = "recvpay" /\ answered
    BY <1>7 DEF ClientRecvPayload, serverVars, history, Pieces
  <2>2. RepRest' = RepRest /\ RepRest \in Nat
    BY <2>1, RestsAreNat
  <2>3. spc \notin {"recvpay", "serve"} /\ up + ReqRest = 0
    BY <2>1
  <2>4. CASE n < cleft
    <3>1. cpc' = cpc /\ cleft' = cleft - n
      <4>1. n # cleft
        BY <1>0, <2>4
      <4> QED BY <1>7, <4>1 DEF ClientRecvPayload
    <3>2. ReqRest' = ReqRest
      BY <2>1, <3>1
    <3> HIDE DEF ReqRest, RepRest
    <3> QED BY <1>0, <2>1, <2>2, <2>3, <2>4, <3>1, <3>2
  <2>5. CASE n = cleft
    <3>1. cpc' = "idle"
      <4>1. ~(n < cleft)
        BY <1>0, <2>5
      <4> QED BY <1>7, <4>1 DEF ClientRecvPayload, Done
    <3>2. ReqRest' = 0 /\ up' = 0 /\ ReqRest = 0
      BY <1>0, <2>1, <2>3, <3>1
    <3>3. down + RepRest = cleft
      BY <2>1
    <3>4. down' + RepRest' = 0
      BY <1>0, <2>1, <2>2, <2>5, <3>3
    <3>5. spc \notin Sending
      BY <1>0, <2>1, <2>2, <3>4
    <3>6. spc = "recvhdr"
      BY <2>3, <3>5 DEF TypeOK
    <3> HIDE DEF ReqRest, RepRest
    <3> QED BY <1>0, <2>1, <2>3, <3>1, <3>2, <3>4, <3>6
  <2> QED BY <1>0, <1>7, <2>4, <2>5 DEF ClientRecvPayload
<1>8. ASSUME NEW n \in Pieces, ServerRecvHeader(n) PROVE Stream'
  <2>1. CASE n < sleft
    BY <1>0, <1>8, <2>1 DEF ServerRecvHeader, clientVars, history, Pieces
  <2>2. CASE n = sleft
    <3>1. up - n + ReqRest = req.data.size /\ ~answered /\ cpc # "idle"
      BY <1>8, <2>2, WholeMessages
    <3>2. Dispatch(req)
      BY <1>8, <2>2, WholeMessages
    <3>3. /\ UNCHANGED <<cpc, cleft, req, rep, down, answered>>
          /\ up' = up - n /\ n \in Nat /\ n > 0 /\ spc = "recvhdr"
      BY <1>8 DEF ServerRecvHeader, clientVars, history, Pieces
    <3>4. ReqRest' = ReqRest /\ ReqRest \in Nat
      BY <3>3, RestsAreNat
    <3>5. RepRest = 0 /\ RepRest' = 0
      BY <3>2, <3>3 DEF Dispatch, NextRequest
    <3>6. cpc \in {"sendhdr", "sendpay", "recvhdr"}
      BY <3>1 DEF TypeOK
    <3>7. ReqRest = 0 => cpc = "recvhdr"
      BY <1>0, <3>6
    <3>8. [req EXCEPT !.data = Empty].cmd = req.cmd
      BY EmptyIsFile, HeaderIsMessage DEF TypeOK
    <3>9. req.nbytes \in Nat
      BY MessageFields DEF TypeOK
    <3> HIDE DEF ReqRest, RepRest
    <3>10. CASE req.cmd = "PUT" /\ req.nbytes > 0
      <4>1. spc' = "recvpay" /\ sleft' = req.data.size /\ shdr'.cmd = req.cmd
        BY <3>2, <3>8, <3>10 DEF Dispatch, Fields, Commands
      <4> QED
        BY <1>0, <3>1, <3>3, <3>4, <3>5, <3>10, <4>1 DEF Fields
    <3>11. CASE req.cmd \in Commands /\ ~(req.cmd = "PUT" /\ req.nbytes > 0)
      <4>1. spc' = "serve" /\ shdr'.cmd = req.cmd /\ req.data.size = 0
        <5>1. req.data.size = 0
          BY <1>0, <3>9, <3>11 DEF Fields
        <5> QED BY <3>2, <3>8, <3>11, <5>1 DEF Dispatch
      <4> QED
        <5>1. up' + ReqRest' = 0
          BY <1>0, <3>1, <3>3, <3>4, <4>1
        <5>2. cpc = "recvhdr"
          BY <1>0, <3>3, <3>4, <3>7, <5>1
        <5> QED BY <1>0, <3>1, <3>3, <3>5, <4>1, <5>1, <5>2
    <3> QED BY <3>1, <3>10, <3>11
  <2> QED BY <1>0, <1>8, <2>1, <2>2 DEF ServerRecvHeader
<1>9. ASSUME NEW n \in Pieces, ServerRecvPayload(n) PROVE Stream'
  <2>1. /\ UNCHANGED <<cpc, cleft, req, rep, down, answered>>
        /\ up' = up - n /\ n \in Nat /\ n > 0 /\ spc = "recvpay"
    BY <1>0, <1>9 DEF ServerRecvPayload, clientVars, history
  <2>2. ReqRest' = ReqRest /\ ReqRest \in Nat
    BY <2>1, RestsAreNat
  <2>3. CASE n < sleft
    <3>1. spc' = spc /\ sleft' = sleft - n /\ shdr' = shdr
      <4>1. n # sleft
        BY <1>0, <2>3
      <4> QED BY <1>9, <4>1 DEF ServerRecvPayload
    <3>2. RepRest' = RepRest
      BY <2>1, <3>1
    <3> HIDE DEF ReqRest, RepRest
    <3> QED BY <1>0, <2>1, <2>2, <2>3, <3>1, <3>2
  <2>4. CASE n = sleft
    <3>1. spc' = "serve" /\ shdr'.cmd = shdr.cmd
      <4>1. ~(n < sleft)
        BY <1>0, <2>4
      <4>2. \A d : [shdr EXCEPT !.data = d].cmd = shdr.cmd
        BY DEF TypeOK, Message
      <4> QED BY <1>9, <4>1, <4>2 DEF ServerRecvPayload
    <3>2. up' + ReqRest' = 0
      BY <1>0, <2>1, <2>2, <2>4
    <3>3. cpc = "recvhdr"
      <4>1. ReqRest = 0 /\ cpc \in {"sendhdr", "sendpay", "recvhdr"}
        BY <1>0, <2>1, <2>2, <3>2 DEF TypeOK
      <4> QED BY <1>0, <2>1, <4>1
    <3>4. RepRest' = RepRest
      BY <2>1, <3>1
    <3> HIDE DEF ReqRest, RepRest
    <3> QED BY <1>0, <2>1, <2>2, <3>1, <3>2, <3>3, <3>4
  <2> QED BY <1>0, <1>9, <2>3, <2>4 DEF ServerRecvPayload
<1>10. ASSUME NEW m \in Message, Reply(m), req.cmd = "RM" => m.data.size = 0
       PROVE Stream'
  BY <1>0, <1>10, MessageFields DEF Reply, clientVars
<1>11. ASSUME NEW c, NEW n, NEW k, NEW d, Reply(Msg(c, n, k, d)),
              shdr.cmd = "RM" => d = Empty
       PROVE Stream'
  <2>1. Msg(c, n, k, d) \in Message /\ Msg(c, n, k, d).data = d
    BY <1>11 DEF Reply, TypeOK, Msg
  <2>2. req.cmd = shdr.cmd
    BY <1>11 DEF Reply
  <2> QED BY <1>10, <1>11, <2>1, <2>2, EmptyIsFile
<1>13. CASE ReplyLs \/ ReplyPut \/ ReplyGet \/ ReplyRm
  <2> HIDE DEF Stream
  <2> QED BY <1>11, <1>13 DEF ReplyLs, ReplyPut, ReplyGet, ReplyRm, Nak
<1>12. ASSUME NEW n \in Pieces, ServerSend(n) PROVE Stream'
  BY <1>0, <1>12 DEF ServerSend, NextRequest, clientVars, history, Pieces
<1> QED
  BY <1>2, <1>4, <1>5, <1>6, <1>7, <1>8, <1>9, <1>12, <1>13
  DEF Next, Quit, ClientKilled, ClientRecvNothing, ClientBroken, ClientStep,
      ServerStep, ServerBroken, ServerKilled

THEOREM Invariance == Spec => []SInv
<1>1. SInv /\ [Next]_vars => SInv'
  BY TypeOKStep, FieldsStep, OversizeStays, StreamStep DEF SInv, Stream
<1> QED
  BY InitSInv, <1>1, PTL DEF Spec

\* InSync: with files of any length, headers and kernel buffers of any size, and
\* bytes arriving in any pieces, a side that has received no payload of Wrap bytes
\* or more reads every byte as what it was sent for.
THEOREM StreamsStayInSync == Spec => []InSync
<1>1. SInv => InSync
  BY DEF SInv, InSync
<1> QED
  BY Invariance, <1>1, PTL
------------------------------------------------------------------------------
(* What the messages carry.                                                  *)

\* The disks of the two hosts do not fill up, and no name fills its field.
Faithful == ~DiskMayFill /\ Unterminated = {}

\* A reply answers the request it follows, and remote is as it says.
Answered ==
  \/ rep.cmd = "NAK"
  \/ req.cmd = "LS" /\ rep.cmd = "LSOUT"
  \/ req.cmd = "PUT" /\ rep.cmd = "ACK" /\ remote[req.name] = req.data
  \/ req.cmd = "GET" /\ rep.cmd = "FILEOUT" /\ rep.data = remote[req.name]
  \/ req.cmd = "RM" /\ rep.cmd = "ACK"

\* What the child acts on is the request, and what the client acts on the reply.
Carried ==
  /\ spc \in {"recvpay", "serve"} => shdr.name = req.name /\ shdr.nbytes = req.nbytes
  /\ spc = "recvpay" => req.cmd = "PUT"
  /\ spc = "serve" /\ req.cmd = "PUT" => shdr.data = req.data
  /\ answered => Answered
  /\ cpc = "recvpay" =>
       /\ chdr.nbytes = rep.nbytes /\ rep.cmd \in {"LSOUT", "FILEOUT"}
       /\ req.cmd \in {"LS", "GET"}
  /\ cpc # "idle" /\ req.cmd = "GET" => req.name \in Names

LEMMA CarriedStep ==
  ASSUME TypeOK, Fields, Stream, Carried, Faithful, [Next]_vars, ~oversize
  PROVE  Carried'
<1>0. /\ \A m \in {req, rep, shdr} : m \in Message /\ m.nbytes \in Nat /\ m.data \in File
      /\ cleft \in Nat /\ sleft \in Nat /\ \A n \in Pieces : n \in Nat
  BY MessageFields DEF TypeOK, Pieces
<1>t. /\ spc \in {"recvpay", "serve"} => ~answered /\ cpc # "idle" /\ shdr.cmd = req.cmd
      /\ cpc = "recvpay" => answered
      /\ spc = "serve" => cpc = "recvhdr"
  BY DEF Stream, Turns
<1>1. ASSUME NEW m, Request(m), m.cmd = "GET" => m.name \in Names PROVE Carried'
  <2>1. /\ spc \notin {"recvpay", "serve"} /\ spc' = spc /\ ~answered' /\ cpc' = "sendhdr"
        /\ req' = m
    BY <1>1, <1>t DEF Request, serverVars
  <2> QED BY <1>1, <2>1 DEF Carried
<1>a. CASE AskLs \/ \E n \in Names : AskPut(n) \/ AskGet(n) \/ AskRm(n)
  <2>1. \A c, n, k, d : Msg(c, n, k, d).cmd = c /\ Msg(c, n, k, d).name = n
    BY DEF Msg
  <2>2. CASE AskLs
    BY <1>1, <2>1, <2>2 DEF AskLs
  <2>3. ASSUME NEW n \in Names, AskPut(n) \/ AskGet(n) \/ AskRm(n) PROVE Carried'
    BY <1>1, <2>1, <2>3 DEF AskPut, AskGet, AskRm
  <2> QED BY <1>a, <2>2, <2>3
<1>2. CASE UNCHANGED <<cpc, chdr, req, spc, shdr, rep, remote, answered>>
  BY <1>2 DEF Carried, Answered
<1>3. CASE ClientExits \/ ServerExits \/ UNCHANGED vars
  BY <1>2, <1>3 DEF ClientExits, ServerExits, vars, clientVars, serverVars, history
<1>4. ASSUME NEW n \in Pieces, ClientSend(n) PROVE Carried'
  <2>1. /\ cpc' # "recvpay" /\ cpc # "idle"
        /\ UNCHANGED <<req, spc, shdr, rep, remote, answered>>
    BY <1>4 DEF ClientSend, serverVars, history, Sending
  <2> QED BY <2>1 DEF Carried, Answered
<1>5. ASSUME NEW n \in Pieces, ClientRecvHeader(n) PROVE Carried'
  <2>1. UNCHANGED <<req, spc, shdr, rep, remote, answered>>
    BY <1>5 DEF ClientRecvHeader, serverVars, history
  <2>2. CASE n = cleft
    <3>1. Handle(rep)
      BY <1>5, <2>2, WholeMessages
    <3>2. [rep EXCEPT !.data = Empty].nbytes = rep.nbytes
      BY <1>0, HeaderIsMessage, EmptyIsFile
    <3>3. cpc = "recvhdr"
      BY <1>5 DEF ClientRecvHeader
    <3>4. cpc' = "recvpay" =>
            /\ chdr'.nbytes = rep.nbytes /\ rep.cmd \in {"LSOUT", "FILEOUT"}
            /\ req.cmd \in {"LS", "GET"}
      BY <3>1, <3>2, <3>3 DEF Handle, Done, Await, GivesUp
    <3> QED BY <2>1, <3>3, <3>4 DEF Carried, Answered
  <2>3. CASE n # cleft
    BY <1>2, <1>5, <2>1, <2>3 DEF ClientRecvHeader
  <2> QED BY <2>2, <2>3
<1>6. ASSUME NEW n \in Pieces, ClientRecvPayload(n) PROVE Carried'
  <2>1. UNCHANGED <<req, spc, shdr, rep, remote, answered>>
    BY <1>6 DEF ClientRecvPayload, serverVars, history
  <2>2. cpc' = "idle" \/ UNCHANGED <<cpc, chdr>>
    BY <1>6 DEF ClientRecvPayload, Done
  <2> QED BY <2>1, <2>2 DEF Carried, Answered
<1>7. ASSUME NEW n \in Pieces, ServerRecvHeader(n) PROVE Carried'
  <2>1. UNCHANGED <<cpc, chdr, req, rep, remote, answered>>
    BY <1>7 DEF ServerRecvHeader, clientVars, history
  <2>2. CASE n = sleft
    <3>1. Dispatch(req) /\ ~answered
      BY <1>7, <2>2, WholeMessages
    <3> DEFINE h == [req EXCEPT !.data = Empty]
    <3>2. h.name = req.name /\ h.nbytes = req.nbytes /\ h.data = Empty
      BY <1>0, HeaderIsMessage, EmptyIsFile
    <3>3. req.cmd = "PUT" /\ ~(req.nbytes > 0) => req.data = Empty
      <4>1. ASSUME req.cmd = "PUT", ~(req.nbytes > 0) PROVE req.data = Empty
        <5>1. req.data.size = 0
          BY <1>0, <4>1 DEF Fields
        <5>2. req.data.tag = "empty"
          BY <1>0, <5>1 DEF File
        <5> QED BY <1>0, <5>1, <5>2 DEF File, Empty, Content
      <4> QED BY <4>1
    <3> HIDE DEF h
    <3>4. CASE req.cmd = "PUT" /\ req.nbytes > 0
      <4>1. spc' = "recvpay" /\ shdr' = h
        BY <3>1, <3>4 DEF Dispatch, Commands, h
      <4> QED BY <2>1, <3>1, <3>2, <3>4, <4>1 DEF Carried
    <3>5. CASE req.cmd \in Commands /\ ~(req.cmd = "PUT" /\ req.nbytes > 0)
      <4>1. spc' = "serve" /\ shdr' = h
        BY <3>1, <3>5 DEF Dispatch, h
      <4> QED BY <2>1, <3>1, <3>2, <3>3, <3>5, <4>1 DEF Carried
    <3>6. CASE req.cmd \notin Commands
      <4>1. spc' = "recvhdr"
        BY <3>1, <3>6 DEF Dispatch, NextRequest, Commands
      <4> QED BY <2>1, <3>1, <4>1 DEF Carried
    <3> QED BY <3>4, <3>5, <3>6 DEF Commands
  <2>3. CASE n # sleft
    BY <1>2, <1>7, <2>1, <2>3 DEF ServerRecvHeader
  <2> QED BY <2>2, <2>3
<1>8. ASSUME NEW n \in Pieces, ServerRecvPayload(n) PROVE Carried'
  <2>1. UNCHANGED <<cpc, chdr, req, rep, remote, answered>> /\ spc = "recvpay"
    BY <1>8 DEF ServerRecvPayload, clientVars, history
  <2>2. CASE n = sleft
    <3>1. up - n + ReqRest = 0
      BY <1>8, <2>2, WholeMessages
    <3>2. shdr.name = req.name /\ shdr.nbytes = req.nbytes /\ req.cmd = "PUT"
      BY <2>1 DEF Carried
    <3>3. ReqData(up - n) = req.data
      BY <3>1, <3>2 DEF ReqData, Fields
    <3>4. shdr' = [shdr EXCEPT !.data = req.data] /\ spc' = "serve"
      <4>1. ~(n < sleft)
        BY <1>0, <2>2
      <4> QED BY <1>8, <3>3, <4>1 DEF ServerRecvPayload
    <3>5. shdr'.name = req.name /\ shdr'.nbytes = req.nbytes /\ shdr'.data = req.data
      BY <1>0, <3>2, <3>4, HeaderIsMessage
    <3> QED BY <1>t, <2>1, <3>4, <3>5 DEF Carried
  <2>3. CASE n # sleft
    BY <1>2, <1>8, <2>1, <2>3 DEF ServerRecvPayload
  <2> QED BY <2>2, <2>3
<1>9. ASSUME NEW m, Reply(m), Answered' PROVE Carried'
  <2>1. spc' = "sendhdr" /\ cpc = "recvhdr" /\ cpc' = cpc /\ req' = req
    BY <1>9, <1>t DEF Reply, clientVars
  <2> QED BY <1>9, <2>1 DEF Carried
<1>10. CASE ReplyLs \/ ReplyPut \/ ReplyGet \/ ReplyRm
  <2>1. \A m : Reply(m) => rep' = m /\ req' = req /\ spc = "serve"
    BY DEF Reply, clientVars
  <2>2. \A c, n, k, d : Msg(c, n, k, d).cmd = c /\ Msg(c, n, k, d).data = d
    BY DEF Msg
  <2>3. ASSUME Nak PROVE Carried'
    <3>1. PICK e \in Errnos : Reply(Msg("NAK", shdr.name, e, Empty))
      BY <2>3 DEF Nak
    <3> QED BY <1>9, <2>1, <2>2, <3>1 DEF Answered
  <2>4. ASSUME spc = "serve"
        PROVE  /\ shdr.name = req.name /\ shdr.cmd = req.cmd /\ Opened = {req.name}
               /\ req.cmd = "PUT" => Written(shdr.data) = {req.data}
               /\ req.cmd \in {"PUT", "GET", "RM"} => req.name \in AllNames
    BY <1>0, <1>t, <2>4 DEF Carried, Opened, Written, Faithful, Message
  <2>5. CASE ReplyLs
    <3>1. ASSUME NEW k \in LsSizes,
                 Reply(Msg("LSOUT", NoName, k % Wrap, Content("listing", k)))
          PROVE  Carried'
      BY <1>9, <2>1, <2>2, <2>4, <2>5, <3>1 DEF ReplyLs, Answered
    <3> QED BY <2>3, <2>5, <3>1 DEF ReplyLs
  <2>6. CASE ReplyPut
    <3>1. ASSUME NEW n \in Opened, NEW f \in Written(shdr.data),
                 remote' = [remote EXCEPT ![n] = f], Reply(Msg("ACK", NoName, 0, Empty))
          PROVE  Carried'
      <4>1. req.cmd = "PUT" /\ n = req.name /\ f = req.data /\ req.name \in AllNames
        BY <2>1, <2>4, <2>6, <3>1 DEF ReplyPut
      <4>2. remote'[req.name] = req.data
        BY <3>1, <4>1 DEF TypeOK
      <4> QED BY <1>9, <2>1, <2>2, <3>1, <4>1, <4>2 DEF Answered
    <3> QED BY <2>3, <2>6, <3>1 DEF ReplyPut
  <2>7. CASE ReplyGet
    <3>1. ASSUME NEW n \in Opened, UNCHANGED remote,
                 Reply(Msg("FILEOUT", shdr.name, remote[n].size % Wrap, remote[n]))
          PROVE  Carried'
      <4>1. req.cmd = "GET" /\ n = req.name
        BY <2>1, <2>4, <2>7, <3>1 DEF ReplyGet
      <4> QED BY <1>9, <2>1, <2>2, <3>1, <4>1 DEF Answered
    <3> QED BY <2>3, <2>7, <3>1 DEF ReplyGet
  <2>8. CASE ReplyRm
    <3>1. ASSUME Reply(Msg("ACK", NoName, 0, Empty)) PROVE Carried'
      BY <1>9, <2>1, <2>2, <2>4, <2>8, <3>1 DEF ReplyRm, Answered
    <3> QED BY <2>3, <2>8, <3>1 DEF ReplyRm
  <2> QED BY <1>10, <2>5, <2>6, <2>7, <2>8
<1>11. ASSUME NEW n \in Pieces, ServerSend(n) PROVE Carried'
  <2>1. /\ spc' \notin {"recvpay", "serve"}
        /\ UNCHANGED <<cpc, chdr, req, rep, remote, answered>>
    BY <1>11 DEF ServerSend, NextRequest, clientVars, history, Sending
  <2> QED BY <2>1 DEF Carried, Answered
<1> QED
  BY <1>a, <1>3, <1>4, <1>5, <1>6, <1>7, <1>8, <1>10, <1>11
  DEF Next, Quit, ClientKilled, ClientRecvNothing,
      ClientBroken, ClientStep, ServerStep, ServerBroken, ServerKilled

LEMMA CarriedAlways == Spec => [](SInv /\ (Faithful /\ ~oversize => Carried))
<1>1. Init => Carried
  BY DEF Init, Carried
<1>2. SInv /\ (Faithful /\ ~oversize => Carried) /\ [Next]_vars
      => (Faithful /\ ~oversize => Carried)'
  BY OversizeStays, CarriedStep DEF SInv, Stream, Faithful
<1> QED
  BY Invariance, <1>1, <1>2, PTL DEF Spec

\* PutCopies: files of any length, in any pieces, are stored as they are, where no disk
\* fills up, no name fills its field and no payload was too long for nbytes.
THEOREM PutsCopy == Spec => [](Faithful /\ ~oversize => PutCopies)
<1>1. (Faithful /\ ~oversize => Carried) => (Faithful /\ ~oversize => PutCopies)
  BY DEF Carried, Answered, PutCopies
<1> QED
  BY CarriedAlways, <1>1, PTL
------------------------------------------------------------------------------
(* Files lost by the child. *)

\* A get that has lost a file was refused, and the client has not got beyond that.
Leaks ==
  leaked # 0 =>
    /\ leaked = 1 /\ answered /\ req.cmd = "GET" /\ rep.cmd = "NAK"
    /\ cpc = "recvhdr" \/ ~calive

LEMMA LeaksStep ==
  ASSUME TypeOK, Fields, Stream, Leaks, [Next]_vars, ~oversize
  PROVE  Leaks'
<1>t. /\ spc = "serve" => ~answered /\ cpc = "recvhdr" /\ shdr.cmd = req.cmd
      /\ cleft \in Nat /\ \A n \in Pieces : n \in Nat
  BY DEF Stream, Turns, TypeOK, Pieces
<1>1. ASSUME NEW m, Request(m) PROVE Leaks'
  <2>1. leaked = 0 /\ leaked' = leaked
    BY <1>1 DEF Request, Leaks, serverVars
  <2> QED BY <2>1 DEF Leaks
<1>2. CASE UNCHANGED <<calive, cpc, req, rep, leaked, answered>>
  BY <1>2 DEF Leaks
<1>3. CASE ClientExits
  BY <1>3 DEF ClientExits, Leaks, serverVars, history
<1>4. CASE ServerExits \/ UNCHANGED vars
  BY <1>2, <1>4 DEF ServerExits, vars, clientVars, serverVars, history
<1>5. ASSUME NEW n \in Pieces, ClientSend(n) \/ ClientRecvPayload(n) PROVE Leaks'
  <2>1. leaked = 0 /\ leaked' = leaked
    BY <1>5 DEF ClientSend, ClientRecvPayload, Leaks, Sending, serverVars
  <2> QED BY <2>1 DEF Leaks
<1>6. ASSUME NEW n \in Pieces, ClientRecvHeader(n) PROVE Leaks'
  <2>1. UNCHANGED <<req, rep, leaked, answered>> /\ calive /\ cpc = "recvhdr"
    BY <1>6 DEF ClientRecvHeader, serverVars, history
  <2>2. CASE n = cleft
    <3>1. Handle(rep)
      BY <1>6, <2>2, WholeMessages
    <3>2. req.cmd = "GET" /\ rep.cmd = "NAK" => ~calive'
      BY <3>1 DEF Handle, GivesUp
    <3> QED BY <2>1, <3>2 DEF Leaks
  <2>3. CASE n # cleft
    BY <1>2, <1>6, <2>1, <2>3 DEF ClientRecvHeader
  <2> QED BY <2>2, <2>3
<1>7. ASSUME NEW n \in Pieces, ServerRecvHeader(n) \/ ServerRecvPayload(n) \/ ServerSend(n)
      PROVE  Leaks'
  BY <1>2, <1>7 DEF ServerRecvHeader, ServerRecvPayload, ServerSend, clientVars, history
<1>8. CASE ReplyLs \/ ReplyPut \/ ReplyGet \/ ReplyRm
  <2>1. \A m : Reply(m) => rep' = m /\ UNCHANGED <<cpc, req>> /\ spc = "serve" /\ answered'
    BY DEF Reply, clientVars
  <2>2. \A n, k, d : Msg("NAK", n, k, d).cmd = "NAK"
    BY DEF Msg
  <2>3. spc = "serve"
    BY <1>8, <2>1 DEF ReplyLs, ReplyPut, ReplyGet, ReplyRm, Nak
  <2>4. leaked = 0
    BY <1>t, <2>3 DEF Leaks
  <2>5. CASE leaked' = leaked
    BY <2>4, <2>5 DEF Leaks
  <2>6. CASE shdr.cmd = "GET" /\ Nak /\ leaked' = IF leaked < MaxLeaks THEN leaked + 1 ELSE leaked
    <3>1. leaked' = 1
      BY <2>4, <2>6 DEF MaxLeaks
    <3>2. rep'.cmd = "NAK" /\ answered' /\ UNCHANGED <<cpc, req>>
      BY <2>1, <2>2, <2>6 DEF Nak
    <3> QED BY <1>t, <2>3, <2>6, <3>1, <3>2 DEF Leaks
  <2> QED BY <1>8, <2>5, <2>6 DEF ReplyLs, ReplyPut, ReplyGet, ReplyRm
<1> QED
  BY <1>1, <1>3, <1>4, <1>5, <1>6, <1>7, <1>8
  DEF Next, AskLs, AskGet, AskRm, AskPut, Quit, ClientKilled, ClientRecvNothing,
      ClientBroken, ClientStep, ServerStep, ServerBroken, ServerKilled

\* OneLeak: of all the gets of a session one at most leaves a file open.
THEOREM LeaksStop == Spec => [](~oversize => OneLeak)
<1>1. Init => Leaks
  BY DEF Init, Leaks
<1>2. SInv /\ (~oversize => Leaks) /\ [Next]_vars => (~oversize => Leaks)'
  BY OversizeStays, LeaksStep DEF SInv, Stream
<1>3. (~oversize => Leaks) => (~oversize => OneLeak)
  BY DEF Leaks, OneLeak
<1> QED
  BY Invariance, <1>1, <1>2, <1>3, PTL DEF Spec

------------------------------------------------------------------------------
(* The refinement. *)

Phase == IF cpc = "idle" THEN "idle" ELSE IF answered THEN "answered" ELSE "asked"
Call  == [cmd |-> req.cmd, name |-> req.name, data |-> req.data]
Reported == [ok |-> rep.cmd # "NAK", data |-> rep.data]

rpcBar == <<Phase, calive, Call, Reported, local, remote>>

\* What the abstract specification sees of a step that only moves bytes.
LEMMA QuietRpc ==
  UNCHANGED <<cpc, calive, req, rep, answered, local, remote>> => UNCHANGED rpcBar
BY DEF rpcBar, Phase, Call, Reported

LEMMA RpcStep ==
  ASSUME TypeOK, Fields, Stream, Carried, Faithful, [Next]_vars, ~oversize
  PROVE  Rpc!Next \/ UNCHANGED rpcBar
<1>0. /\ cleft \in Nat /\ sleft \in Nat /\ \A n \in Pieces : n \in Nat
      /\ rep \in Message /\ rep.data \in File /\ rep.nbytes \in Nat /\ answered \in BOOLEAN
  BY MessageFields DEF TypeOK, Pieces
<1>t. /\ spc \in {"recvpay", "serve"} => ~answered /\ cpc # "idle" /\ shdr.cmd = req.cmd
      /\ cpc = "recvpay" => answered
      /\ cpc \in Sending => ~answered
      /\ cpc # "idle" => req.cmd \in Commands
  BY DEF Stream, Turns
<1> USE DEF Phase, Call, Reported
<1>1. ASSUME NEW m, Request(m),
             \/ m.cmd \in {"LS", "GET", "RM"}
             \/ m.cmd = "PUT" /\ m.data = local[m.name] /\ m.data \in File
      PROVE  Rpc!Ask
  <2>1. /\ calive /\ cpc = "idle" /\ cpc' = "sendhdr" /\ ~answered' /\ req' = m
        /\ UNCHANGED <<calive, rep, local, remote>>
    BY <1>1 DEF Request, serverVars
  <2> QED BY <1>1, <2>1 DEF Rpc!Ask
<1>2. CASE AskLs \/ \E n \in Names : AskGet(n) \/ AskRm(n) \/ AskPut(n)
  <2>1. \A c, n, k, d : /\ Msg(c, n, k, d).cmd = c /\ Msg(c, n, k, d).name = n
                        /\ Msg(c, n, k, d).data = d
    BY DEF Msg
  <2>2. ASSUME NEW n \in Names, AskPut(n) PROVE Rpc!Ask
    <3>1. local[n] \in File
      BY <2>2 DEF AskPut, IsFile, TypeOK
    <3> QED BY <1>1, <2>1, <2>2, <3>1 DEF AskPut
  <2>3. CASE AskLs
    BY <1>1, <2>1, <2>3 DEF AskLs, Rpc!Next
  <2>4. ASSUME NEW n \in Names, AskGet(n) PROVE Rpc!Ask
    BY <1>1, <2>1, <2>4 DEF AskGet
  <2>5. ASSUME NEW n \in Names, AskRm(n) PROVE Rpc!Ask
    BY <1>1, <2>1, <2>5 DEF AskRm
  <2> QED BY <1>2, <2>2, <2>3, <2>4, <2>5 DEF Rpc!Next
<1>3. CASE ClientExits
  <2>1. calive' = FALSE /\ UNCHANGED <<cpc, req, rep, answered, local, remote>>
    BY <1>3 DEF ClientExits, serverVars, history
  <2> QED BY <2>1 DEF Rpc!Die, Rpc!Next
<1>4. CASE ServerExits \/ UNCHANGED vars
  BY <1>4, QuietRpc DEF ServerExits, vars, clientVars, serverVars, history
<1>5. ASSUME NEW n \in Pieces, ClientSend(n) PROVE UNCHANGED rpcBar
  <2>1. /\ cpc # "idle" /\ cpc' # "idle"
        /\ UNCHANGED <<calive, req, rep, answered, local, remote>>
    BY <1>5 DEF ClientSend, serverVars, history, Sending
  <2> QED BY <2>1 DEF rpcBar
<1>l. ASSUME calive, answered, cpc # "idle", cpc' = "idle",
             UNCHANGED <<calive, req, rep, answered, remote>>,
             \/ req.cmd # "GET" /\ UNCHANGED local
             \/ /\ req.cmd = "GET" /\ rep.cmd # "NAK"
                /\ local' = [local EXCEPT ![req.name] = rep.data]
      PROVE  Rpc!Learn
  BY <1>l DEF Rpc!Learn
<1>6. ASSUME NEW n \in Pieces, ClientRecvHeader(n) PROVE Rpc!Next \/ UNCHANGED rpcBar
  <2>1. /\ UNCHANGED <<req, rep, remote, answered>> /\ cpc = "recvhdr" /\ calive
    BY <1>6 DEF ClientRecvHeader, serverVars, history
  <2>2. CASE n = cleft
    <3>1. Handle(rep) /\ answered
      BY <1>6, <2>2, WholeMessages
    <3>2. CASE Done /\ UNCHANGED local /\ req.cmd # "GET"
      BY <1>l, <2>1, <3>1, <3>2 DEF Done, Rpc!Next
    <3>3. CASE Await(rep) /\ UNCHANGED local
      <4>1. cpc' = "recvpay" /\ calive' = calive
        BY <3>3 DEF Await
      <4> QED BY <2>1, <3>3, <4>1 DEF rpcBar
    <3>4. CASE /\ req.cmd = "GET" /\ rep.cmd = "FILEOUT"
               /\ local' = [local EXCEPT ![req.name] = Empty]
               /\ IF rep.nbytes = 0 THEN Done ELSE Await(rep)
      <4>1. CASE rep.nbytes = 0
        <5>1. rep.data.size = 0
          BY <3>4, <4>1 DEF Fields
        <5>2. rep.data.tag = "empty"
          BY <1>0, <5>1 DEF File
        <5>3. rep.data = Empty
          BY <1>0, <5>1, <5>2 DEF File, Empty, Content
        <5> QED BY <1>l, <2>1, <3>1, <3>4, <4>1, <5>3 DEF Done, Rpc!Next
      <4>2. CASE rep.nbytes # 0
        <5>1. cpc' = "recvpay" /\ calive' = calive
          BY <3>4, <4>2 DEF Await
        <5>2. Rpc!Clear
          BY <2>1, <3>1, <3>4, <5>1 DEF Rpc!Clear
        <5> QED BY <5>2 DEF Rpc!Next
      <4> QED BY <4>1, <4>2
    <3>5. CASE GivesUp(rep)
      <4>1. calive' = FALSE /\ UNCHANGED <<cpc, local>>
        BY <3>5 DEF GivesUp
      <4> QED BY <2>1, <4>1 DEF Rpc!Die, Rpc!Next
    <3> QED BY <3>1, <3>2, <3>3, <3>4, <3>5 DEF Handle
  <2>3. CASE n # cleft
    BY <1>6, <2>1, <2>3, QuietRpc DEF ClientRecvHeader
  <2> QED BY <2>2, <2>3
<1>7. ASSUME NEW n \in Pieces, ClientRecvPayload(n) PROVE Rpc!Next \/ UNCHANGED rpcBar
  <2>1. /\ UNCHANGED <<req, rep, remote, answered>> /\ cpc = "recvpay" /\ calive
    BY <1>7 DEF ClientRecvPayload, serverVars, history
  <2>2. CASE n = cleft
    <3>1. answered /\ ~(n < cleft)
      BY <1>0, <1>t, <2>1, <2>2
    <3>2. chdr.nbytes = rep.nbytes /\ rep.cmd \in {"LSOUT", "FILEOUT"}
      BY <2>1 DEF Carried
    <3>3. down - n + RepRest = 0
      BY <1>7, <2>2, WholeMessages
    <3>4. RepData(down - n) = rep.data
      BY <3>2, <3>3 DEF RepData, Fields
    <3>5. Written(rep.data) = {rep.data}
      BY DEF Written, Faithful
    <3>6. CASE req.cmd = "LS" /\ Done /\ UNCHANGED local
      BY <1>l, <2>1, <3>1, <3>6 DEF Done, Rpc!Next
    <3>7. CASE req.cmd = "GET" /\ Done /\ local' = [local EXCEPT ![req.name] = rep.data]
      BY <1>l, <2>1, <3>1, <3>2, <3>7 DEF Done, Rpc!Next
    <3> QED BY <1>7, <3>1, <3>4, <3>5, <3>6, <3>7 DEF ClientRecvPayload
  <2>3. CASE n # cleft
    BY <1>7, <2>1, <2>3, QuietRpc DEF ClientRecvPayload
  <2> QED BY <2>2, <2>3
<1>8. ASSUME NEW n \in Pieces, ServerRecvHeader(n) \/ ServerRecvPayload(n) \/ ServerSend(n)
      PROVE  UNCHANGED rpcBar
  BY <1>8, QuietRpc
  DEF ServerRecvHeader, ServerRecvPayload, ServerSend, clientVars, history
<1>9. CASE ReplyLs \/ ReplyPut \/ ReplyGet \/ ReplyRm
  <2>1. ASSUME NEW m, Reply(m)
        PROVE  /\ rep' = m /\ spc = "serve" /\ answered'
               /\ UNCHANGED <<cpc, calive, req, local>>
    BY <2>1 DEF Reply, clientVars
  <2>2. \A c, n, k, d : Msg(c, n, k, d).cmd = c /\ Msg(c, n, k, d).data = d
    BY DEF Msg
  <2>s. ASSUME NEW m, Reply(m), Rpc!Done \/ Rpc!Refused PROVE Rpc!Next
    <3>1. ~answered /\ cpc # "idle"
      BY <1>t, <2>1, <2>s
    <3> QED BY <2>1, <2>s, <3>1 DEF Rpc!Serve, Rpc!Next
  <2>3. ASSUME Nak, UNCHANGED remote PROVE Rpc!Next
    <3>1. PICK e \in Errnos : Reply(Msg("NAK", shdr.name, e, Empty))
      BY <2>3 DEF Nak
    <3>2. rep'.cmd = "NAK"
      BY <2>1, <2>2, <3>1
    <3> QED BY <2>3, <2>s, <3>1, <3>2 DEF Rpc!Refused
  <2>4. ASSUME spc = "serve"
        PROVE  /\ shdr.name = req.name /\ shdr.cmd = req.cmd /\ Opened = {req.name}
               /\ req.cmd = "PUT" => Written(shdr.data) = {req.data}
               /\ req.cmd \in {"GET", "RM"} => req.name \in AllNames
    BY <1>t, <2>4 DEF Carried, Opened, Written, Faithful, Message, TypeOK
  <2>5. CASE ReplyLs
    <3>1. ASSUME NEW k \in LsSizes,
                 Reply(Msg("LSOUT", NoName, k % Wrap, Content("listing", k)))
          PROVE  Rpc!Next
      <4>1. rep'.cmd = "LSOUT" /\ req.cmd = "LS" /\ UNCHANGED remote
        BY <2>1, <2>2, <2>4, <2>5, <3>1 DEF ReplyLs
      <4> QED BY <2>s, <3>1, <4>1 DEF Rpc!Done
    <3> QED BY <2>3, <2>5, <3>1 DEF ReplyLs
  <2>6. CASE ReplyPut
    <3>1. ASSUME NEW n \in Opened, NEW f \in Written(shdr.data),
                 remote' = [remote EXCEPT ![n] = f], Reply(Msg("ACK", NoName, 0, Empty))
          PROVE  Rpc!Next
      <4>1. req.cmd = "PUT" /\ n = req.name /\ f = req.data /\ rep'.cmd = "ACK"
        BY <2>1, <2>2, <2>4, <2>6, <3>1 DEF ReplyPut
      <4> QED BY <2>s, <3>1, <4>1 DEF Rpc!Done
    <3> QED BY <2>3, <2>6, <3>1 DEF ReplyPut, Faithful
  <2>7. CASE ReplyGet
    <3>1. ASSUME NEW n \in Opened, IsFile(remote[n]),
                 Reply(Msg("FILEOUT", shdr.name, remote[n].size % Wrap, remote[n]))
          PROVE  Rpc!Next
      <4>1. /\ req.cmd = "GET" /\ n = req.name /\ rep'.cmd = "FILEOUT"
            /\ rep'.data = remote[n] /\ UNCHANGED remote
        BY <2>1, <2>2, <2>4, <2>7, <3>1 DEF ReplyGet
      <4>2. remote[n] \in File
        BY <2>1, <2>4, <3>1, <4>1 DEF IsFile, TypeOK
      <4> QED BY <2>s, <3>1, <4>1, <4>2 DEF Rpc!Done
    <3>2. UNCHANGED remote
      BY <2>7 DEF ReplyGet
    <3> QED BY <2>3, <2>7, <3>1, <3>2 DEF ReplyGet
  <2>8. CASE ReplyRm
    <3>1. ASSUME NEW n \in Opened, IsFile(remote[n]),
                 remote' = [remote EXCEPT ![n] = NoFile], Reply(Msg("ACK", NoName, 0, Empty))
          PROVE  Rpc!Next
      <4>1. req.cmd = "RM" /\ n = req.name /\ rep'.cmd = "ACK"
        BY <2>1, <2>2, <2>4, <2>8, <3>1 DEF ReplyRm
      <4>2. remote[n] \in File
        BY <2>1, <2>4, <3>1, <4>1 DEF IsFile, TypeOK
      <4> QED BY <2>s, <3>1, <4>1, <4>2 DEF Rpc!Done
    <3> QED BY <2>3, <2>8, <3>1 DEF ReplyRm
  <2> QED BY <1>9, <2>5, <2>6, <2>7, <2>8
<1> QED
  BY <1>2, <1>3, <1>4, <1>5, <1>6, <1>7, <1>8, <1>9
  DEF Next, Quit, ClientKilled, ClientRecvNothing,
      ClientBroken, ClientStep, ServerStep, ServerBroken, ServerKilled, Rpc!Next

\* ImplementsRpc: headers, pieces and deaths add nothing to what CixRpc says of a command,
\* where no disk fills up, no name fills its field and no payload is too long for nbytes.
THEOREM Refinement == Spec /\ [](Faithful /\ ~oversize) => ImplementsRpc
<1>1. Init => Rpc!Init
  BY DEF Init, Rpc!Init
<1>2. /\ SInv /\ (Faithful /\ ~oversize => Carried) /\ Faithful /\ ~oversize
      /\ [Next]_vars
      => [Rpc!Next]_rpcBar
  BY RpcStep DEF SInv, Stream
<1> QED
  BY CarriedAlways, <1>1, <1>2, PTL
  DEF Spec, ImplementsRpc, Rpc!Spec, Rpc!rpcVars, rpcBar, Phase, Call, Reported

\* GetCopies: under the same conditions a get that ends well leaves the remote file, since
\* by the abstract specification nothing else ends a get.
THEOREM GetsCopy == Spec /\ [](Faithful /\ ~oversize) => GetCopies
<1>1. ASSUME SInv, Faithful, ~oversize, Carried, [Next]_vars,
             cpc # "idle", cpc' = "idle", req.cmd = "GET"
      PROVE  local'[req.name] = remote[req.name]
  <2>1. Rpc!Next \/ UNCHANGED rpcBar
    BY <1>1, RpcStep DEF SInv, Stream
  <2>2. Phase' = "idle" /\ Phase # "idle"
    BY <1>1 DEF Phase
  <2>3. Rpc!Learn
    BY <2>1, <2>2
    DEF Rpc!Next, Rpc!Ask, Rpc!Serve, Rpc!Clear, Rpc!Die, rpcBar, Phase
  <2>4. answered /\ rep.cmd # "NAK" /\ local' = [local EXCEPT ![req.name] = rep.data]
    BY <1>1, <2>3 DEF Rpc!Learn, Phase, Call, Reported
  <2>5. rep.data = remote[req.name] /\ req.name \in Names
    BY <1>1, <2>4 DEF Carried, Answered
  <2> QED BY <1>1, <2>4, <2>5 DEF SInv, TypeOK
<1>2. /\ SInv /\ (Faithful /\ ~oversize => Carried) /\ Faithful /\ ~oversize
      /\ [Next]_vars
      => [cpc # "idle" /\ cpc' = "idle" /\ req.cmd = "GET" =>
            local'[req.name] = remote[req.name]]_vars
  BY <1>1
<1> QED
  BY CarriedAlways, <1>2, PTL DEF Spec, GetCopies
==============================================================================
