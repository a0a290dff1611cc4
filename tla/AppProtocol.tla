----------------------------- MODULE AppProtocol -----------------------------
(***************************************************************************)
(* One application and its slave: Library/client_api.c against the body of *)
(* appif_slave (interfaces/appif.c), over the two byte streams of a Unix   *)
(* socket, with recvData and sendData (utils/packet.c).                    *)
(*                                                                         *)
(* A call of the library writes a request and reads the answer; neither    *)
(* carries an identifier, so that the two sides agree on which answer is   *)
(* whose only as long as they agree on where each packet begins.  Packets  *)
(* are sequences of bytes, as packed in packet.h: type, region, dataSize   *)
(* and recv_at (both 32 bits, little endian), data.  There is one region.  *)
(* A process that writes to a socket whose other end is closed is killed:  *)
(* neither side handles SIGPIPE.                                           *)
(***************************************************************************)
EXTENDS Naturals, Sequences

CONSTANTS Payloads,    \* what is copied: sequences of bytes
          Counts,      \* room the caller of clipboard_paste and _wait has
          Stamp,       \* the time stamp in answers, a byte
          None,        \* no answer yet
          MaxCalls,    \* bound: calls of the application
          MaxOthers    \* bound: copies by others

ASSUME ProtocolAssumption ==
  /\ Payloads \subseteq Seq(0..255) /\ \A p \in Payloads : Len(p) < 256
  /\ Counts \subseteq 0..255 /\ Stamp \in 0..255
  /\ None \notin {"copy", "paste", "wait"} /\ None \notin [ret : Nat, data : Seq(Nat)]
  /\ MaxCalls \in Nat /\ MaxOthers \in Nat

VARIABLES
  req, resp,            \* bytes under way to the slave, to the library
  lpc,                  \* the library: idle, ack, head, data; dead: the process is gone
  op, count,            \* the call that is going on
  rd,                   \* recvData of the library: size, recvBytes, buf
  result,               \* what the last call returned
  calls, others,
  spc, answer, sends, last,   \* the slave: place, response, sends left, err < 1 afterwards
  region,               \* what mem_get finds
  killed,               \* the daemon was killed
  waited,               \* some application has called clipboard_wait on the region
  given, dup            \* history: the answer to this call; an answer was sent twice

library == <<lpc, op, count, rd, result, calls>>
slave == <<spc, answer, sends, last>>
talkVars == <<req, resp, library, slave, region, killed, others, given, dup>>
protoVars == <<talkVars, waited>>

\* packet_type, packet.h:6-19
Goodbye == 2
Request == [paste |-> 129, copy |-> 130, wait |-> 131]
Response == [copy |-> 192, paste |-> 193, wait |-> 194]

U32(n) == <<n, 0, 0, 0>>
\* More than any packet here holds, when the upper half is not 0.
Number(b) == IF b[3] = 0 /\ b[4] = 0 THEN b[1] + 256 * b[2] ELSE 65536

FetchLen == 6     \* sizeof(struct packet_fetch)
DataLen == 10     \* sizeof(struct packet_data)
Fetch(type, n) == <<type, 0>> \o U32(n)
Data(type, stamp, d) == <<type, 0>> \o U32(Len(d)) \o [i \in 1..4 |-> stamp] \o d
SizeField(p) == Number(SubSeq(p, 3, 6))

Take(n, s) == SubSeq(s, 1, n)
Drop(n, s) == SubSeq(s, n + 1, Len(s))
AtMost(n, d) == IF Len(d) > n THEN Take(n, d) ELSE d

ProtoInit ==
  /\ req = <<>> /\ resp = <<>>
  /\ lpc = "idle" /\ op = None /\ count = 0
  /\ rd = [size |-> 0, got |-> 0, buf |-> <<>>]
  /\ result = [ret |-> 0, data |-> <<>>]
  /\ calls = 0 /\ others = 0
  /\ spc = "recv" /\ answer = <<>> /\ sends = 0 /\ last = FALSE
  /\ region = <<>> /\ killed = FALSE /\ waited = FALSE
  /\ given = None /\ dup = FALSE

ServerOpen == spc # "end" /\ ~killed
AppOpen == lpc \notin {"dead", "closed"}
-----------------------------------------------------------------------------
(* The library.                                                            *)

Begin(o, n, first, to) ==
  /\ lpc = "idle" /\ calls < MaxCalls
  /\ calls' = calls + 1
  /\ op' = o /\ count' = n /\ given' = None
  /\ IF ServerOpen THEN lpc' = to ELSE lpc' = "dead"    \* SIGPIPE
  /\ rd' = [size |-> first, got |-> 0, buf |-> <<>>]
  /\ UNCHANGED <<resp, slave, result, region, killed, others, dup, waited>>

\* clipboard_copy, _paste and _wait up to the first recvData.
Copy(d) ==
  /\ Begin("copy", Len(d), FetchLen, "ack")
  /\ req' = IF ServerOpen THEN req \o Data(Request.copy, 0, d) ELSE req

Fetching(o, n) ==
  /\ Begin(o, n, DataLen, "head")
  /\ req' = IF ServerOpen THEN req \o Fetch(Request[o], n) ELSE req

Paste(n) == Fetching("paste", n)
Wait(n) == Fetching("wait", n)

\* recvData: recv with MSG_WAITALL returns all of size, ...
Reading == lpc \in {"ack", "head", "data"} /\ rd.got < rd.size

ReadWhole ==
  /\ Reading /\ Len(resp) >= rd.size
  /\ rd' = [rd EXCEPT !.got = rd.size, !.buf = Take(rd.size, resp)]
  /\ resp' = Drop(rd.size, resp)
  /\ UNCHANGED <<req, slave, lpc, op, count, result, calls, region, killed, others, given, dup, waited>>

Return(n, d) ==
  /\ lpc' = "idle"
  /\ result' = [ret |-> n, data |-> d]
  /\ UNCHANGED <<req, slave, op, count, rd, calls, region, killed, others, given, dup, waited>>

\* ... or what is left at the end of the stream; the next recv returns 0.
ReadEnd == Reading /\ Len(resp) < rd.size /\ ~ServerOpen /\ resp' = <<>> /\ Return(0, <<>>)

Received(place) == lpc = place /\ rd.got = rd.size

\* Mutants: clipboard_copy returns what it sent; it does not wait for the acknowledgement.
CopyReturnSent == Received("ack") /\ Return(count, <<>>) /\ UNCHANGED resp
CopyReturnAtOnce == lpc = "ack" /\ Return(count, <<>>) /\ UNCHANGED resp

\* Whatever the packet is, its dataSize is returned.
CopyReturn == Received("ack") /\ Return(SizeField(rd.buf), <<>>) /\ UNCHANGED resp

Unusable == rd.buf[1] # Response[op] \/ SizeField(rd.buf) = 0

\* The wrong type of packet or no data; clipboard_wait looks at the size first.
NoPaste == op = "paste" /\ Unusable
NoNotify == op = "wait" /\ Unusable
HeadReturn == Received("head") /\ (NoPaste \/ NoNotify) /\ Return(0, <<>>) /\ UNCHANGED resp

HeadData ==
  /\ Received("head")
  /\ ~Unusable
  /\ lpc' = "data"
  /\ rd' = [size |-> SizeField(rd.buf), got |-> 0, buf |-> <<>>]
  /\ UNCHANGED <<req, resp, slave, op, count, result, calls, region, killed, others, given, dup, waited>>

\* More than there is room for "should not happen" (lines 188, 237): what the
\* clean-up after it reads is left out, because buf has overflowed.
DataReturn == Received("data") /\ Return(rd.got, rd.buf) /\ UNCHANGED resp

\* clipboard_close
Close ==
  /\ lpc = "idle"
  /\ lpc' = IF ServerOpen THEN "closed" ELSE "dead"
  /\ req' = IF ServerOpen THEN Append(req, Goodbye) ELSE req
  /\ UNCHANGED <<resp, slave, op, count, rd, result, calls, region, killed, others, given, dup, waited>>

\* The process ends without clipboard_close, with all or some of its request sent.
Die(k) ==
  /\ AppOpen /\ lpc' = "dead"
  /\ k <= Len(req) /\ req' = Take(k, req)
  /\ UNCHANGED <<resp, slave, op, count, rd, result, calls, region, killed, others, given, dup, waited>>
-----------------------------------------------------------------------------
(* appif_slave.                                                            *)

\* Mutant: packet_data is read whatever the request.
AskedData(type) ==
  /\ spc = "recv" /\ ~killed
  /\ req # <<>> /\ req[1] = type
  /\ Len(req) >= DataLen
  /\ type = Request.copy => Len(req) >= DataLen + SizeField(req)

\* A whole request of the type is there.
Asked(type) ==
  /\ spc = "recv" /\ ~killed
  /\ req # <<>> /\ req[1] = type
  /\ Len(req) >= IF type = Request.copy THEN DataLen ELSE FetchLen
  /\ type = Request.copy => Len(req) >= DataLen + SizeField(req)

\* Mutant: one call of sendData for each byte of the response.
TimesBytes(response, err) == Len(response)

\* err = MIN(sendData(...),err): the macro evaluates sendData again unless it
\* returned more than err, the number of bytes received last.
Times(response, err) == IF Len(response) > err THEN 1 ELSE 2

Respond(response, err, n, d) ==
  /\ spc' = "respond"
  /\ answer' = response
  /\ sends' = Times(response, err)
  /\ last' = (err = 0)
  /\ given' = [ret |-> n, data |-> d]

\* mem_put refuses what is empty, and what is older than what is there.
ServeCopy(accepted) ==
  /\ Asked(Request.copy)
  /\ LET d == SubSeq(req, DataLen + 1, DataLen + SizeField(req))
         n == IF accepted THEN Len(d) ELSE 0
     IN /\ accepted => d # <<>>
        /\ region' = IF accepted THEN d ELSE region
        /\ req' = Drop(DataLen + Len(d), req)
        /\ Respond(Fetch(Response.copy, n), Len(d), n, <<>>)
  /\ UNCHANGED <<resp, library, killed, others, dup, waited>>

\* Mutant: as many bytes are sent as were asked for.
PasteAnswerPadded(n) == Data(Response.paste, Stamp, AtMost(n, region)) \o [i \in 1..(n - Len(AtMost(n, region))) |-> 0]

PasteAnswer(n) == Data(Response.paste, Stamp, AtMost(n, region))

ServePaste ==
  /\ Asked(Request.paste)
  /\ LET n == SizeField(req)
         d == AtMost(n, region)
     IN Respond(PasteAnswer(n), FetchLen - 1, Len(d), d)
  /\ req' = Drop(FetchLen, req)
  /\ UNCHANGED <<resp, library, region, killed, others, dup, waited>>

\* mem_wait blocks until an update, or the end of the daemon.  The slave has the
\* request in its buffer until there is an answer.
ServeWait ==
  /\ Asked(Request.wait)
  /\ spc' = "wait"
  /\ answer' = Take(FetchLen, req) /\ req' = Drop(FetchLen, req)
  /\ waited' = TRUE
  /\ UNCHANGED <<resp, library, sends, last, region, killed, others, given, dup>>

WaitDone(d, err) ==
  /\ spc = "wait" /\ ~killed
  /\ Respond(Data(Response.wait, Stamp, d), err, Len(d), d)
  /\ UNCHANGED <<req, resp, library, killed, dup, waited>>

WaitUpdated(p) ==
  /\ others < MaxOthers /\ others' = others + 1
  /\ region' = p
  /\ LET d == AtMost(SizeField(answer), p)
     IN WaitDone(d, IF d = <<>> THEN 0 ELSE FetchLen - 1)

WaitTerminated == WaitDone(<<>>, 0) /\ UNCHANGED <<region, others>>

\* sendData
Send ==
  /\ spc = "respond" /\ ~killed /\ AppOpen
  /\ resp' = resp \o answer
  /\ sends' = sends - 1
  /\ dup' = (dup \/ sends = 2)
  /\ spc' = IF sends = 2 THEN "respond" ELSE IF last THEN "end" ELSE "recv"
  /\ UNCHANGED <<req, library, answer, last, region, killed, others, given, waited>>

SendPipe ==
  /\ spc = "respond" /\ ~killed /\ ~AppOpen
  /\ killed' = TRUE
  /\ UNCHANGED <<req, resp, library, slave, region, others, given, dup, waited>>

\* PACKET_GOODBYE, the end of the stream, or appif_finalize, which cancels a
\* slave that waits for a request.
Leave ==
  /\ spc = "recv" /\ ~killed
  /\ spc' = "end"
  /\ UNCHANGED <<req, resp, library, answer, sends, last, region, killed, others, given, dup, waited>>

LeaveAsked == Leave /\ ~AppOpen /\ \A o \in DOMAIN Request : ~Asked(Request[o])

\* Another application or a neighbour copies to the region.
OthersCopy(p) ==
  /\ others < MaxOthers /\ others' = others + 1
  /\ spc # "wait" /\ ~killed
  /\ region' = p
  /\ UNCHANGED <<req, resp, library, slave, killed, given, dup, waited>>

\* Another application calls clipboard_wait.
OthersWait ==
  /\ ~waited /\ waited' = TRUE
  /\ ~killed
  /\ UNCHANGED talkVars
-----------------------------------------------------------------------------
Call ==
  \/ \E d \in Payloads : Copy(d)
  \/ \E n \in Counts : Paste(n) \/ Wait(n)
  \/ Close

Library ==
  \/ ReadWhole \/ ReadEnd \/ CopyReturn \/ HeadReturn \/ HeadData \/ DataReturn

ServeMemory == (\E accepted \in BOOLEAN : ServeCopy(accepted)) \/ ServePaste
ServeOther == ServeWait \/ Send \/ SendPipe \/ LeaveAsked
Serve == ServeMemory \/ ServeOther

ProtoNext ==
  \/ Call \/ Library \/ Serve
  \/ \E k \in 0..DataLen : Die(k)
  \/ \E p \in Payloads \ {<<>>} : WaitUpdated(p) \/ OthersCopy(p)
  \/ WaitTerminated \/ OthersWait \/ Leave

ProtoSpec == ProtoInit /\ [][ProtoNext]_protoVars

\* The slave and the library go on; nobody has to call, to copy, or to end.  mem_put and
\* mem_get return as long as nobody has called mem_wait, which keeps the read lock while
\* it waits, and for good at the end (clmem.c:47-55; CallsReturn of ClMem).
FairProtoSpec ==
  ProtoSpec /\ WF_protoVars(Library) /\ WF_protoVars(ServeOther \/ (~waited /\ ServeMemory))
-----------------------------------------------------------------------------
(* Correctness.                                                            *)

Byte == 0..255
Answer == [ret : Nat, data : Seq(Byte)]

\* Types, for both streams and both sides.
ProtoTypeOK ==
  /\ req \in Seq(Byte) /\ resp \in Seq(Byte)
  /\ lpc \in {"idle", "ack", "head", "data", "closed", "dead"}
  /\ op \in {None} \cup DOMAIN Request /\ count \in 0..255
  /\ rd \in [size : Nat, got : Nat, buf : Seq(Byte)]
  /\ result \in Answer /\ given \in Answer \cup {None}
  /\ calls \in 0..MaxCalls /\ others \in 0..MaxOthers
  /\ spc \in {"recv", "wait", "respond", "end"}
  /\ answer \in Seq(Byte) /\ sends \in 0..2 /\ last \in BOOLEAN
  /\ region \in Payloads \cup {<<>>} /\ killed \in BOOLEAN /\ dup \in BOOLEAN
  /\ waited \in BOOLEAN

\* A call returns the answer to its own request, or 0 when the slave ended
\* without answering it, although answers carry no name: as long as no
\* response was sent twice (appif.c:246).
OwnAnswer ==
  lpc = "idle" /\ calls > 0 /\ ~dup =>
    result = IF given = None THEN [ret |-> 0, data |-> <<>>] ELSE given

\* Between two calls nothing is left on the socket, so that the next header is
\* read where a packet begins (client_api.c:169, 218), and no more comes than the
\* caller has room for, "this should not happen" of client_api.c:187 and 236: with
\* the same exception.  The slave always reads the type of a request where one
\* begins (appif.c:101).
InStep ==
  /\ lpc = "idle" /\ ~dup => resp = <<>>
  /\ lpc = "data" /\ ~dup => rd.size <= count
  /\ spc = "recv" /\ req # <<>> => req[1] \in {Goodbye} \cup {Request[o] : o \in DOMAIN Request}

\* A call of the library to copy or to paste returns, or the process is dead, unless a
\* response was sent twice.  Once somebody has waited for an update this is so only if
\* the slave gets through the lock of the region (clmem.c:73, 95).
MemoryReturns == []<>~(waited /\ (Asked(Request.copy) \/ Asked(Request.paste)))
CallsReturn ==
  MemoryReturns => ((lpc \in {"ack", "head", "data"} /\ op # "wait") ~> (lpc \in {"idle", "dead"} \/ dup))

\* An application that calls clipboard_close after its calls have returned does
\* not take the daemon with it, with the same exception.
CloseIsSafe == killed => lpc = "dead" \/ dup

\* What is pasted is what was copied (tests/src/test1.c:73), when nobody else copies.
PasteReturnsCopy ==
  lpc = "idle" /\ op = "paste" /\ others = 0 /\ ServerOpen =>
    result.data = AtMost(count, region)
=============================================================================
