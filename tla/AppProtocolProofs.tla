-------------------------- MODULE AppProtocolProofs --------------------------
(***************************************************************************)
(* The safety invariants of AppProtocol, for any payloads of less than 256 *)
(* bytes, any room, and any number of calls and of copies by others.       *)
(*                                                                         *)
(* ProtoIInv follows the conversation of a call and its answer, until a    *)
(* response is sent twice.  StreamInv says where each packet begins in the *)
(* stream of requests and holds in every state: the types follow from it,  *)
(* because a region only ever holds what an application copied.  FitsInv   *)
(* says that an answer is cut to the room of the call it answers.          *)
(***************************************************************************)
EXTENDS AppProtocol, SequenceTheorems, TLAPS

LEMMA TakeDrop ==
  ASSUME NEW s \in Seq(Nat), NEW n \in Nat, n <= Len(s)
  PROVE  /\ Take(n, s) \in Seq(Nat) /\ Len(Take(n, s)) = n
         /\ \A i \in 1..n : Take(n, s)[i] = s[i]
         /\ Drop(n, s) \in Seq(Nat) /\ Len(Drop(n, s)) = Len(s) - n
         /\ \A i \in 1..(Len(s) - n) : Drop(n, s)[i] = s[n + i]
<1>1. \A i \in 1..Len(s) : s[i] \in Nat
  BY LenProperties
<1>2. Len(s) \in Nat
  BY LenProperties
<1>3. \A i \in 1..n : s[i] \in Nat
  BY <1>1, <1>2
<1>4. \A i \in (n + 1)..Len(s) : s[i] \in Nat
  BY <1>1, <1>2
<1>5. /\ Take(n, s) \in Seq(Nat) /\ Len(Take(n, s)) = (IF 1 <= n THEN n - 1 + 1 ELSE 0)
      /\ \A i \in 1..(n - 1 + 1) : Take(n, s)[i] = s[1 + i - 1]
  BY <1>3, SubSeqProperties DEF Take
<1>6. /\ Drop(n, s) \in Seq(Nat) /\ Len(Drop(n, s)) = (IF n + 1 <= Len(s) THEN Len(s) - (n + 1) + 1 ELSE 0)
      /\ \A i \in 1..(Len(s) - (n + 1) + 1) : Drop(n, s)[i] = s[n + 1 + i - 1]
  BY <1>2, <1>4, SubSeqProperties DEF Drop
<1>7. Len(Take(n, s)) = n /\ \A i \in 1..n : Take(n, s)[i] = s[i]
  BY <1>5
<1>8. Len(Drop(n, s)) = Len(s) - n /\ \A i \in 1..(Len(s) - n) : Drop(n, s)[i] = s[n + i]
  BY <1>2, <1>6
<1> QED BY <1>5, <1>6, <1>7, <1>8

LEMMA TakeAll ==
  ASSUME NEW s \in Seq(Nat)
  PROVE  Take(Len(s), s) = s /\ Drop(Len(s), s) = <<>>
<1>1. Len(s) \in Nat
  BY LenProperties
<1>2. Take(Len(s), s) = s
  BY SubSeqFull DEF Take
<1>3. Drop(Len(s), s) \in Seq(Nat) /\ Len(Drop(Len(s), s)) = 0
  BY <1>1, TakeDrop
<1> QED BY <1>2, <1>3, EmptySeq

LEMMA Joined ==
  ASSUME NEW s \in Seq(Nat), NEW t \in Seq(Nat)
  PROVE  /\ s \o t \in Seq(Nat) /\ Len(s \o t) = Len(s) + Len(t)
         /\ \A i \in 1..Len(s) : (s \o t)[i] = s[i]
         /\ \A i \in 1..Len(t) : (s \o t)[Len(s) + i] = t[i]
         /\ Take(Len(s), s \o t) = s /\ Drop(Len(s), s \o t) = t
<1>1. Len(s) \in Nat /\ Len(t) \in Nat
  BY LenProperties
<1>2. /\ s \o t \in Seq(Nat) /\ Len(s \o t) = Len(s) + Len(t)
      /\ \A i \in 1..Len(s) + Len(t) : (s \o t)[i] = IF i <= Len(s) THEN s[i] ELSE t[i - Len(s)]
  BY ConcatProperties
<1> DEFINE c == s \o t
<1>3. /\ c \in Seq(Nat) /\ Len(c) = Len(s) + Len(t)
      /\ \A i \in 1..Len(s) : c[i] = s[i]
      /\ \A i \in 1..Len(t) : c[Len(s) + i] = t[i]
  BY <1>1, <1>2
<1> HIDE DEF c
<1>7. c \in Seq(Nat) /\ Len(s) \in Nat /\ Len(s) <= Len(c)
  BY <1>1, <1>3
<1>4. /\ Take(Len(s), c) \in Seq(Nat) /\ Len(Take(Len(s), c)) = Len(s)
      /\ \A i \in 1..Len(s) : Take(Len(s), c)[i] = c[i]
      /\ Drop(Len(s), c) \in Seq(Nat) /\ Len(Drop(Len(s), c)) = Len(c) - Len(s)
      /\ \A i \in 1..(Len(c) - Len(s)) : Drop(Len(s), c)[i] = c[Len(s) + i]
  BY <1>7, TakeDrop
<1> DEFINE a == Take(Len(s), c)  b == Drop(Len(s), c)
<1>5. /\ a \in Seq(Nat) /\ Len(a) = Len(s) /\ \A i \in 1..Len(a) : a[i] = s[i]
      /\ b \in Seq(Nat) /\ Len(b) = Len(t) /\ \A i \in 1..Len(b) : b[i] = t[i]
  BY <1>1, <1>3, <1>4
<1> HIDE DEF a, b
<1>6. a = s /\ b = t
  BY <1>5, SeqEqual
<1> QED BY <1>3, <1>6 DEF a, b, c

\* packet_fetch: six bytes, the type first, then the number.
LEMMA FetchBytes ==
  ASSUME NEW type \in Nat, NEW n \in Nat
  PROVE  /\ Fetch(type, n) \in Seq(Nat) /\ Len(Fetch(type, n)) = 6
         /\ Fetch(type, n)[1] = type
         /\ Fetch(type, n)[3] = n
         /\ Fetch(type, n)[5] = 0 /\ Fetch(type, n)[6] = 0 /\ Fetch(type, n)[4] = 0
<1> DEFINE h == <<type, 0>>
           u == U32(n)
<1>1. h \in Seq(Nat) /\ Len(h) = 2 /\ h[1] = type
  OBVIOUS
<1>2. u \in Seq(Nat) /\ Len(u) = 4 /\ u[1] = n /\ u[2] = 0 /\ u[3] = 0 /\ u[4] = 0
  BY DEF U32
<1>3. Fetch(type, n) = h \o u
  BY DEF Fetch
<1> HIDE DEF h, u
<1>4. /\ h \o u \in Seq(Nat) /\ Len(h \o u) = Len(h) + Len(u)
      /\ \A i \in 1..Len(h) : (h \o u)[i] = h[i]
      /\ \A i \in 1..Len(u) : (h \o u)[Len(h) + i] = u[i]
  BY <1>1, <1>2, Joined
<1> DEFINE f == h \o u
<1>5. /\ f \in Seq(Nat) /\ Len(f) = 6 /\ f[1] = type
      /\ \A i \in 1..4 : f[2 + i] = u[i]
  <2>1. f \in Seq(Nat) /\ Len(f) = 6
    BY <1>1, <1>2, <1>4
  <2>2. f[1] = type
    BY <1>1, <1>4
  <2>3. \A i \in 1..4 : f[2 + i] = u[i]
    BY <1>1, <1>2, <1>4
  <2> QED BY <2>1, <2>2, <2>3
<1> HIDE DEF f
<1>6. f[3] = n /\ f[4] = 0 /\ f[5] = 0 /\ f[6] = 0
  <2>1. f[2 + 1] = u[1] /\ f[2 + 2] = u[2] /\ f[2 + 3] = u[3] /\ f[2 + 4] = u[4]
    BY <1>5
  <2> QED BY <1>2, <2>1
<1>7. Fetch(type, n) = f
  BY <1>3 DEF f
<1> QED BY <1>5, <1>6, <1>7

\* packet_data up to the data: ten bytes.
HeadBytes(type, stamp, n) == Fetch(type, n) \o [i \in 1..4 |-> stamp]

LEMMA HeadLayout ==
  ASSUME NEW type \in Nat, NEW stamp \in Nat, NEW n \in Nat
  PROVE  /\ HeadBytes(type, stamp, n) \in Seq(Nat) /\ Len(HeadBytes(type, stamp, n)) = 10
         /\ HeadBytes(type, stamp, n)[1] = type /\ HeadBytes(type, stamp, n)[3] = n
         /\ HeadBytes(type, stamp, n)[4] = 0 /\ HeadBytes(type, stamp, n)[5] = 0
         /\ HeadBytes(type, stamp, n)[6] = 0
<1> DEFINE f == Fetch(type, n)
           q == [i \in 1..4 |-> stamp]
           h == f \o q
<1>1. q \in Seq(Nat) /\ Len(q) = 4
  OBVIOUS
<1>2. f \in Seq(Nat) /\ Len(f) = 6 /\ f[1] = type /\ f[3] = n /\ f[4] = 0 /\ f[5] = 0 /\ f[6] = 0
  BY FetchBytes
<1> HIDE DEF f, q
<1>3. /\ h \in Seq(Nat) /\ Len(h) = Len(f) + Len(q)
      /\ \A i \in 1..Len(f) : h[i] = f[i]
  BY <1>1, <1>2, Joined
<1>5. HeadBytes(type, stamp, n) = h
  BY DEF HeadBytes, f, q
<1> HIDE DEF h
<1>4. h \in Seq(Nat) /\ Len(h) = 10 /\ \A i \in 1..6 : h[i] = f[i]
  BY <1>1, <1>2, <1>3
<1>6. h[1] = type /\ h[3] = n /\ h[4] = 0 /\ h[5] = 0 /\ h[6] = 0
  BY <1>2, <1>4
<1> QED BY <1>4, <1>5, <1>6

\* What the reader of a packet finds in it.
LEMMA SizeOf ==
  ASSUME NEW p \in Seq(Nat), Len(p) >= 6, \A i \in 4..6 : p[i] = 0
  PROVE  SizeField(p) = p[3]
<1>1. \A i \in 3..6 : p[i] \in Nat
  BY LenProperties
<1> DEFINE b == SubSeq(p, 3, 6)
<1>2. \A i \in 1..6 - 3 + 1 : b[i] = p[3 + i - 1]
  BY <1>1, SubSeqProperties
<1>3. b[1] = p[3] /\ b[2] = p[4] /\ b[3] = p[5] /\ b[4] = p[6]
  <2> HIDE DEF b
  <2>1. b[1] = p[3 + 1 - 1] /\ b[2] = p[3 + 2 - 1] /\ b[3] = p[3 + 3 - 1] /\ b[4] = p[3 + 4 - 1]
    BY <1>2
  <2> QED BY <2>1
<1>4. p[4] = 0 /\ p[5] = 0 /\ p[6] = 0 /\ p[3] \in Nat
  BY <1>1
<1> HIDE DEF b
<1>5. Number(b) = p[3]
  BY <1>3, <1>4 DEF Number
<1> QED BY <1>5 DEF SizeField, b

LEMMA FetchLayout ==
  ASSUME NEW type \in Nat, NEW n \in Nat
  PROVE  /\ Fetch(type, n) \in Seq(Nat) /\ Len(Fetch(type, n)) = FetchLen
         /\ Fetch(type, n)[1] = type /\ SizeField(Fetch(type, n)) = n
         /\ Take(FetchLen, Fetch(type, n)) = Fetch(type, n) /\ Drop(FetchLen, Fetch(type, n)) = <<>>
<1> DEFINE f == Fetch(type, n)
<1>1. f \in Seq(Nat) /\ Len(f) = 6 /\ f[1] = type /\ f[3] = n /\ f[4] = 0 /\ f[5] = 0 /\ f[6] = 0
  BY FetchBytes
<1> HIDE DEF f
<1>2. \A i \in 4..6 : f[i] = 0
  BY <1>1
<1>3. SizeField(f) = n
  BY <1>1, <1>2, SizeOf
<1>4. Take(Len(f), f) = f /\ Drop(Len(f), f) = <<>>
  BY <1>1, TakeAll
<1> QED BY <1>1, <1>3, <1>4 DEF f, FetchLen

HeadParts(h, type, n) ==
  /\ h \in Seq(Nat) /\ Len(h) = 10 /\ h[1] = type /\ h[3] = n
  /\ h[4] = 0 /\ h[5] = 0 /\ h[6] = 0

LEMMA HeadIs ==
  ASSUME NEW type \in Nat, NEW stamp \in Nat, NEW n \in Nat
  PROVE  HeadParts(HeadBytes(type, stamp, n), type, n)
BY HeadLayout DEF HeadParts

LEMMA DataLayout ==
  ASSUME NEW type \in Nat, NEW stamp \in Nat, NEW d \in Seq(Nat)
  PROVE  /\ Data(type, stamp, d) \in Seq(Nat) /\ Len(Data(type, stamp, d)) = DataLen + Len(d)
         /\ Data(type, stamp, d)[1] = type /\ SizeField(Data(type, stamp, d)) = Len(d)
         /\ Take(DataLen, Data(type, stamp, d)) = HeadBytes(type, stamp, Len(d))
         /\ Drop(DataLen, Data(type, stamp, d)) = d
         /\ SubSeq(Data(type, stamp, d), DataLen + 1, DataLen + Len(d)) = d
         /\ Drop(DataLen + Len(d), Data(type, stamp, d)) = <<>>
<1>1. Len(d) \in Nat
  BY LenProperties
<1> DEFINE h == HeadBytes(type, stamp, Len(d))
           p == h \o d
<1>0. HeadParts(h, type, Len(d))
  BY <1>1, HeadIs
<1> HIDE DEF h
<1>2. h \in Seq(Nat) /\ Len(h) = 10 /\ h[1] = type /\ h[3] = Len(d) /\ \A i \in 4..6 : h[i] = 0
  BY <1>0 DEF HeadParts
<1>3. Data(type, stamp, d) = p
  BY DEF Data, HeadBytes, Fetch, h
<1>4. /\ p \in Seq(Nat) /\ Len(p) = Len(h) + Len(d)
      /\ \A i \in 1..Len(h) : p[i] = h[i]
      /\ Take(Len(h), p) = h /\ Drop(Len(h), p) = d
  BY <1>2, Joined
<1> HIDE DEF p
<1>5. p[1] = type /\ p[3] = Len(d) /\ \A i \in 4..6 : p[i] = 0
  BY <1>2, <1>4
<1>6. Len(p) = 10 + Len(d) /\ Len(p) >= 6
  BY <1>1, <1>2, <1>4
<1>7. SizeField(p) = Len(d)
  BY <1>4, <1>5, <1>6, SizeOf
<1>8. SubSeq(p, 10 + 1, 10 + Len(d)) = d
  BY <1>2, <1>4, <1>6 DEF Drop
<1>9. Drop(10 + Len(d), p) = <<>>
  BY <1>4, <1>6, TakeAll
<1> QED BY <1>2, <1>3, <1>4, <1>5, <1>6, <1>7, <1>8, <1>9 DEF h, DataLen

LEMMA AtMostSeq ==
  ASSUME NEW n \in Nat, NEW d \in Seq(Nat)
  PROVE  AtMost(n, d) \in Seq(Nat)
<1>1. CASE Len(d) > n
  <2>1. Len(d) \in Nat
    BY LenProperties
  <2>2. n <= Len(d)
    BY <1>1, <2>1
  <2>3. Take(n, d) \in Seq(Nat)
    BY <2>2, TakeDrop
  <2> QED BY <1>1, <2>3 DEF AtMost
<1>2. CASE ~(Len(d) > n)
  BY <1>2 DEF AtMost
<1> QED BY <1>1, <1>2
-----------------------------------------------------------------------------
(* The conversation, as long as no response was sent twice.                *)

NoAnswer == [ret |-> 0, data |-> <<>>]

\* p is what the library sends for o, ...
IsRequest(o, n, p) ==
  IF o = "copy" THEN \E d \in Seq(Nat) : p = Data(Request.copy, 0, d) ELSE p = Fetch(Request[o], n)

\* ... p is the response that says g.
IsResponse(o, p, g) ==
  IF o = "copy" THEN \E n \in Nat : p = Fetch(Response.copy, n) /\ g = [ret |-> n, data |-> <<>>]
  ELSE \E d \in Seq(Nat) : p = Data(Response[o], Stamp, d) /\ g = [ret |-> Len(d), data |-> d]

Has(d) == given = [ret |-> Len(d), data |-> d]
Done == spc \in {"recv", "end"} /\ (spc = "recv" => req = <<>>)

\* Between two calls nothing is under way.
Idle == lpc = "idle" /\ resp = <<>> /\ Done /\ result = IF given = None THEN NoAnswer ELSE given
Closed == lpc = "closed" /\ spc \in {"recv", "end"} /\ (spc = "recv" => req = <<Goodbye>>)

\* The library waits for the first part of the response.
Waiting ==
  /\ op \in {"copy", "paste", "wait"} /\ rd.got = 0
  /\ IF op = "copy" THEN lpc = "ack" /\ rd.size = FetchLen ELSE lpc = "head" /\ rd.size = DataLen

\* The request is on its way, or with the slave, or was never read; ...
Asking ==
  /\ Waiting /\ resp = <<>> /\ given = None
  /\ \/ spc = "end"
     \/ spc = "recv" /\ IsRequest(op, count, req)
     \/ spc = "wait" /\ op = "wait" /\ req = <<>> /\ answer = Fetch(Request.wait, count)

\* ... the slave sends; ...
Answering == Waiting /\ resp = <<>> /\ req = <<>> /\ spc = "respond" /\ IsResponse(op, answer, given)

\* ... the response is there.
Answered == Waiting /\ Done /\ IsResponse(op, resp, given)

\* The library has the acknowledgement, or the head of the response, or all of it.
Acked ==
  /\ lpc = "ack" /\ op = "copy" /\ rd.got = rd.size /\ Done /\ resp = <<>>
  /\ IsResponse(op, rd.buf, given)
Headed ==
  /\ lpc = "head" /\ op \in {"paste", "wait"} /\ rd.got = rd.size /\ Done
  /\ resp \in Seq(Nat) /\ Has(resp) /\ rd.buf[1] = Response[op] /\ SizeField(rd.buf) = Len(resp)
Reads == lpc = "data" /\ rd.got = 0 /\ rd.size # 0 /\ rd.size = Len(resp) /\ Done /\ resp \in Seq(Nat) /\ Has(resp)
ReadAll == lpc = "data" /\ rd.got = rd.size /\ rd.size = Len(rd.buf) /\ Done /\ resp = <<>> /\ Has(rd.buf)

Common ==
  /\ ~killed
  /\ region \in Seq(Nat) /\ count \in Nat
  /\ rd \in [size : Nat, got : Nat, buf : Seq(Nat)]

Talk ==
  Common /\ (Idle \/ Closed \/ Asking \/ Answering \/ Answered \/ Acked \/ Headed \/ Reads \/ ReadAll)

\* Unless a response was sent twice, or the application is gone.
ProtoIInv == dup \/ lpc = "dead" \/ Talk
-----------------------------------------------------------------------------
\* What the assumptions say of the constants.
LEMMA ProtoConstants ==
  /\ Payloads \subseteq Seq(Nat) /\ Counts \subseteq Nat /\ Stamp \in Nat
  /\ None \notin [ret : Nat, data : Seq(Nat)]
<1>1. 0..255 \subseteq Nat
  OBVIOUS
<1>2. Seq(0..255) \subseteq Seq(Nat)
  BY <1>1, SeqMonotonic
<1> QED BY <1>1, <1>2, ProtocolAssumption

\* Empty sequences, as they occur.
LEMMA EmptyStreams ==
  /\ <<>> \in Seq(Nat) /\ Len(<<>>) = 0
  /\ \A s \in Seq(Nat) : <<>> \o s = s /\ Len(s) \in Nat /\ (Len(s) = 0 => s = <<>>)
  /\ Append(<<>>, Goodbye) = <<Goodbye>>
<1>1. \A s \in Seq(Nat) : <<>> \o s = s
  BY ConcatEmptySeq
<1>2. \A s \in Seq(Nat) : Len(s) \in Nat /\ (Len(s) = 0 => s = <<>>)
  BY EmptySeq, LenProperties
<1> QED BY <1>1, <1>2

\* Before the first call.
THEOREM ProtoStart == ProtoInit => ProtoIInv
<1> SUFFICES ASSUME ProtoInit PROVE Talk
  BY DEF ProtoIInv
<1>1. Common
  BY EmptyStreams DEF ProtoInit, Common
<1>2. Idle
  BY DEF ProtoInit, Idle, Done, NoAnswer
<1> QED BY <1>1, <1>2 DEF Talk

\* A call begins: between two calls nothing is left on the socket.
LEMMA BeginTalk ==
  ASSUME Talk, NEW o \in {"copy", "paste", "wait"}, NEW n \in Nat, NEW p \in Seq(Nat),
         IsRequest(o, n, p),
         Begin(o, n, IF o = "copy" THEN FetchLen ELSE DataLen, IF o = "copy" THEN "ack" ELSE "head"),
         req' = IF ServerOpen THEN req \o p ELSE req
  PROVE  lpc' = "dead" \/ Talk'
<1>1. Idle
  BY DEF Talk, Begin, Closed, Asking, Answering, Answered, Acked, Headed, Reads, ReadAll, Waiting
<1>2. CASE ~ServerOpen
  BY <1>2 DEF Begin
<1>3. CASE ServerOpen
  <2>1. spc = "recv" /\ req = <<>> /\ req' = p
    BY <1>1, <1>3, EmptyStreams DEF Idle, Done, ServerOpen
  <2>2. /\ op' = o /\ count' = n /\ given' = None /\ lpc' = (IF o = "copy" THEN "ack" ELSE "head")
        /\ rd' = [size |-> IF o = "copy" THEN FetchLen ELSE DataLen, got |-> 0, buf |-> <<>>]
        /\ UNCHANGED <<resp, slave, region, killed>>
    BY <1>3 DEF Begin
  <2>3. Common'
    BY <2>2, EmptyStreams DEF Talk, Common, FetchLen, DataLen
  <2>4. Waiting' /\ resp' = <<>> /\ spc' = "recv"
    BY <1>1, <2>1, <2>2 DEF Idle, Waiting, slave
  <2>5. IsRequest(op', count', req')
    BY <2>1, <2>2
  <2> QED BY <2>2, <2>3, <2>4, <2>5 DEF Talk, Asking, IsRequest
<1> QED BY <1>2, <1>3

\* Copy, Paste and Wait.
LEMMA CallTalk ==
  ASSUME Talk, \/ \E d \in Payloads : Copy(d)
               \/ \E n \in Counts : Paste(n) \/ Wait(n)
  PROVE  lpc' = "dead" \/ Talk'
<1>1. ASSUME NEW d \in Payloads, Copy(d) PROVE lpc' = "dead" \/ Talk'
  <2>1. d \in Seq(Nat) /\ Len(d) \in Nat /\ Request.copy \in Nat
    BY ProtoConstants, EmptyStreams DEF Request
  <2>2. Data(Request.copy, 0, d) \in Seq(Nat)
    BY <2>1, DataLayout
  <2>3. IsRequest("copy", Len(d), Data(Request.copy, 0, d))
    BY <2>1 DEF IsRequest
  <2> QED BY <1>1, <2>1, <2>2, <2>3, BeginTalk DEF Copy
<1>2. ASSUME NEW n \in Counts, NEW o \in {"paste", "wait"}, Fetching(o, n) PROVE lpc' = "dead" \/ Talk'
  <2>1. n \in Nat /\ Request[o] \in Nat
    BY ProtoConstants DEF Request
  <2>2. Fetch(Request[o], n) \in Seq(Nat)
    BY <2>1, FetchLayout
  <2>3. IsRequest(o, n, Fetch(Request[o], n))
    BY DEF IsRequest
  <2> QED BY <1>2, <2>1, <2>2, <2>3, BeginTalk DEF Fetching
<1> QED BY <1>1, <1>2 DEF Paste, Wait

\* The head of a response, as the library reads it.
LEMMA HeadRead ==
  ASSUME NEW type \in Nat, NEW n \in Nat
  PROVE  /\ HeadBytes(type, Stamp, n) \in Seq(Nat)
         /\ HeadBytes(type, Stamp, n)[1] = type /\ SizeField(HeadBytes(type, Stamp, n)) = n
<1> DEFINE h == HeadBytes(type, Stamp, n)
<1>1. h \in Seq(Nat) /\ Len(h) = 10
  BY ProtoConstants, HeadLayout
<1>2. h[1] = type /\ h[3] = n
  BY ProtoConstants, HeadLayout
<1>3. h[4] = 0
  BY ProtoConstants, HeadLayout
<1>4. h[5] = 0
  BY ProtoConstants, HeadLayout
<1>5. h[6] = 0
  BY ProtoConstants, HeadLayout
<1> HIDE DEF h
<1>6. \A i \in 4..6 : h[i] = 0
  BY <1>3, <1>4, <1>5
<1>7. SizeField(h) = n
  BY <1>1, <1>2, <1>6, SizeOf
<1> QED BY <1>1, <1>2, <1>7 DEF h

\* The parts of the response.
LEMMA ResponseParts ==
  ASSUME NEW o \in {"copy", "paste", "wait"}, NEW p, NEW g, IsResponse(o, p, g)
  PROVE  /\ p \in Seq(Nat)
         /\ o = "copy" => Len(p) = FetchLen /\ Take(FetchLen, p) = p /\ Drop(FetchLen, p) = <<>>
         /\ o # "copy" => /\ Drop(DataLen, p) \in Seq(Nat)
                          /\ g = [ret |-> Len(Drop(DataLen, p)), data |-> Drop(DataLen, p)]
                          /\ Len(p) >= DataLen
                          /\ Take(DataLen, p) \in Seq(Nat)
                          /\ Take(DataLen, p)[1] = Response[o]
                          /\ SizeField(Take(DataLen, p)) = Len(Drop(DataLen, p))
<1>0. Response[o] \in Nat /\ Response.copy \in Nat
  BY DEF Response
<1>1. CASE o = "copy"
  <2>1. PICK n \in Nat : p = Fetch(Response.copy, n)
    BY <1>1 DEF IsResponse
  <2> QED BY <1>0, <1>1, <2>1, FetchLayout
<1>2. CASE o # "copy"
  <2>1. PICK d \in Seq(Nat) : p = Data(Response[o], Stamp, d) /\ g = [ret |-> Len(d), data |-> d]
    BY <1>2 DEF IsResponse
  <2>6. PICK type \in Nat : type = Response[o]
    BY <1>0
  <2>9. p = Data(type, Stamp, d)
    BY <2>1, <2>6
  <2>2. p \in Seq(Nat) /\ Len(p) = DataLen + Len(d)
    BY <2>9, ProtoConstants, DataLayout
  <2>3. Take(DataLen, p) = HeadBytes(type, Stamp, Len(d))
    BY <2>9, ProtoConstants, DataLayout
  <2>10. Drop(DataLen, p) = d
    BY <2>9, ProtoConstants, DataLayout
  <2>4. Len(d) \in Nat
    BY EmptyStreams
  <2>5. PICK k \in Nat : k = Len(d)
    BY <2>4
  <2>7. /\ Take(DataLen, p) \in Seq(Nat)
        /\ Take(DataLen, p)[1] = type /\ SizeField(Take(DataLen, p)) = k
    <3>1. Take(DataLen, p) = HeadBytes(type, Stamp, k)
      BY <2>3, <2>5
    <3>2. HeadBytes(type, Stamp, k) \in Seq(Nat)
      BY HeadRead
    <3>3. HeadBytes(type, Stamp, k)[1] = type
      BY HeadRead
    <3>4. SizeField(HeadBytes(type, Stamp, k)) = k
      BY HeadRead
    <3> QED BY <3>1, <3>2, <3>3, <3>4
  <2>8. Len(p) >= DataLen
    BY <2>2, <2>4 DEF DataLen
  <2> QED BY <1>2, <2>1, <2>2, <2>5, <2>6, <2>7, <2>8, <2>10
<1> QED BY <1>1, <1>2

\* The library receives a whole part of the response.
LEMMA ReadWholeTalk ==
  ASSUME Talk, ReadWhole
  PROVE  Talk'
<1>1. /\ lpc \in {"ack", "head", "data"} /\ rd.got < rd.size /\ Len(resp) >= rd.size
      /\ rd' = [rd EXCEPT !.got = rd.size, !.buf = Take(rd.size, resp)]
      /\ resp' = Drop(rd.size, resp)
      /\ UNCHANGED <<req, slave, lpc, op, count, result, calls, region, killed, others, given, dup>>
  BY DEF ReadWhole, Reading
<1>2. Common /\ rd.size \in Nat /\ rd.got \in Nat
  BY DEF Talk, Common
<1>3. Done' = Done
  BY <1>1 DEF Done, slave
<1>4. CASE Answered
  <2>0. op \in {"copy", "paste", "wait"} /\ Done
    BY <1>4 DEF Answered, Waiting
  <2>1. CASE op = "copy"
    <3>1. resp \in Seq(Nat) /\ Take(FetchLen, resp) = resp /\ Drop(FetchLen, resp) = <<>>
      BY <1>4, <2>0, <2>1, ResponseParts DEF Answered
    <3>2. lpc = "ack" /\ rd.size = FetchLen
      BY <1>4, <2>1 DEF Answered, Waiting
    <3>3. rd' = [size |-> rd.size, got |-> rd.size, buf |-> resp] /\ resp' = <<>>
      BY <1>1, <1>2, <3>1, <3>2 DEF Common
    <3>4. Common'
      BY <1>1, <1>2, <3>1, <3>3 DEF Common
    <3>5. PICK n \in Nat : resp = Fetch(Response.copy, n) /\ given = [ret |-> n, data |-> <<>>]
      BY <1>4, <2>1 DEF Answered, IsResponse
    <3>6. op' = op /\ lpc' = lpc /\ given' = given /\ Done'
      BY <1>1, <1>3, <2>0
    <3>7. rd'.buf = resp /\ rd'.got = rd'.size
      BY <3>3
    <3>8. rd'.buf = Fetch(Response.copy, n) /\ given' = [ret |-> n, data |-> <<>>]
      BY <3>5, <3>6, <3>7
    <3>9. IsResponse(op', rd'.buf, given')
      BY <2>1, <3>6, <3>8 DEF IsResponse
    <3>10. Acked'
      BY <2>1, <3>2, <3>3, <3>6, <3>7, <3>9 DEF Acked, IsResponse
    <3> QED BY <3>4, <3>10 DEF Talk
  <2>2. CASE op # "copy"
    <3>1. /\ Drop(DataLen, resp) \in Seq(Nat)
          /\ given = [ret |-> Len(Drop(DataLen, resp)), data |-> Drop(DataLen, resp)]
          /\ Take(DataLen, resp) \in Seq(Nat)
          /\ Take(DataLen, resp)[1] = Response[op]
          /\ SizeField(Take(DataLen, resp)) = Len(Drop(DataLen, resp))
      BY <1>4, <2>0, <2>2, ResponseParts DEF Answered
    <3>2. lpc = "head" /\ rd.size = DataLen
      BY <1>4, <2>2 DEF Answered, Waiting
    <3>3. /\ rd' = [size |-> rd.size, got |-> rd.size, buf |-> Take(DataLen, resp)]
          /\ resp' = Drop(DataLen, resp)
      BY <1>1, <1>2, <3>2 DEF Common
    <3>4. Common'
      BY <1>1, <1>2, <3>1, <3>3 DEF Common
    <3>5. Headed'
      BY <1>1, <1>3, <2>0, <2>2, <3>1, <3>2, <3>3 DEF Headed, Has
    <3> QED BY <3>4, <3>5 DEF Talk
  <2> QED BY <2>1, <2>2
<1>5. CASE Reads
  <2>1. Take(Len(resp), resp) = resp /\ Drop(Len(resp), resp) = <<>> /\ resp \in Seq(Nat)
    BY <1>5, TakeAll DEF Reads
  <2>2. rd' = [size |-> rd.size, got |-> rd.size, buf |-> resp] /\ resp' = <<>>
    BY <1>1, <1>2, <1>5, <2>1 DEF Common, Reads
  <2>3. Common'
    BY <1>1, <1>2, <2>1, <2>2 DEF Common
  <2>5. rd.size = Len(resp) /\ Done /\ Has(resp) /\ lpc = "data"
    BY <1>5 DEF Reads
  <2>6. rd'.buf = resp /\ rd'.got = rd'.size /\ rd'.size = rd.size
    BY <2>2
  <2>7. lpc' = "data" /\ given' = given /\ Done'
    BY <1>1, <1>3, <2>5
  <2>8. rd'.size = Len(rd'.buf)
    BY <2>5, <2>6
  <2>9. given' = [ret |-> Len(rd'.buf), data |-> rd'.buf]
    BY <2>5, <2>6, <2>7 DEF Has
  <2>4. ReadAll'
    BY <2>2, <2>6, <2>7, <2>8, <2>9 DEF ReadAll, Has
  <2> QED BY <2>3, <2>4 DEF Talk
<1>6. ~Idle /\ ~Closed /\ ~Asking /\ ~Answering
  BY <1>1, EmptyStreams DEF Idle, Closed, Asking, Answering, Waiting, FetchLen, DataLen
<1>7. ~Acked /\ ~Headed /\ ~ReadAll
  BY <1>1, <1>2 DEF Acked, Headed, ReadAll
<1> QED BY <1>4, <1>5, <1>6, <1>7 DEF Talk

\* A call returns.
LEMMA ReturnTalk ==
  ASSUME Talk, NEW n, NEW d, Return(n, d), resp' = <<>>, Done,
         [ret |-> n, data |-> d] = IF given = None THEN NoAnswer ELSE given
  PROVE  Talk'
<1>1. Common' /\ Done'
  BY DEF Return, Common, Talk, Done, slave
<1>2. Idle'
  BY <1>1 DEF Return, Idle
<1> QED BY <1>1, <1>2 DEF Talk

\* An answer is not None.
LEMMA HasAnswer ==
  ASSUME NEW d \in Seq(Nat), Has(d)
  PROVE  given # None
<1>1. Len(d) \in Nat
  BY EmptyStreams
<1>2. given \in [ret : Nat, data : Seq(Nat)]
  BY <1>1 DEF Has
<1> QED BY <1>2, ProtoConstants

\* The calls of the library return what they were answered, and leave nothing behind.
LEMMA LibraryTalk ==
  ASSUME Talk, ReadEnd \/ CopyReturn \/ HeadReturn \/ HeadData \/ DataReturn
  PROVE  Talk'
<1> USE EmptyStreams
<1>0. Common /\ rd.size \in Nat /\ rd.got \in Nat
  BY DEF Talk, Common
<1>1. CASE ReadEnd
  <2>1. /\ lpc \in {"ack", "head", "data"} /\ rd.got < rd.size /\ Len(resp) < rd.size
        /\ spc = "end" \/ killed
        /\ resp' = <<>> /\ Return(0, <<>>)
    BY <1>1 DEF ReadEnd, Reading, ServerOpen
  <2>2. spc = "end" /\ Done
    BY <1>0, <2>1 DEF Common, Done
  <2>3. ~Idle /\ ~Closed /\ ~Answering
    BY <2>1, <2>2 DEF Idle, Closed, Answering
  <2>4. ~Acked /\ ~Headed /\ ~ReadAll /\ ~Reads
    BY <1>0, <2>1 DEF Acked, Headed, ReadAll, Reads
  <2>5. ~Answered
    <3> SUFFICES ASSUME Answered PROVE FALSE
      OBVIOUS
    <3>1. op \in {"copy", "paste", "wait"} /\ IsResponse(op, resp, given)
      BY DEF Answered, Waiting
    <3>2. rd.size = IF op = "copy" THEN FetchLen ELSE DataLen
      BY DEF Answered, Waiting
    <3>3. CASE op = "copy"
      <4>1. Len(resp) = FetchLen
        BY <3>1, <3>3, ResponseParts
      <4> QED BY <2>1, <3>2, <3>3, <4>1 DEF FetchLen
    <3>4. CASE op # "copy"
      <4>1. resp \in Seq(Nat) /\ Len(resp) >= DataLen
        BY <3>1, <3>4, ResponseParts
      <4>2. Len(resp) \in Nat
        BY <4>1
      <4> QED BY <2>1, <3>2, <3>4, <4>1, <4>2 DEF DataLen
    <3> QED BY <3>3, <3>4
  <2>6. Asking
    BY <2>3, <2>4, <2>5 DEF Talk
  <2> QED BY <2>1, <2>2, <2>6, ReturnTalk DEF Asking, NoAnswer
<1>2. CASE CopyReturn
  <2>1. lpc = "ack" /\ rd.got = rd.size /\ Return(SizeField(rd.buf), <<>>) /\ UNCHANGED resp
    BY <1>2 DEF CopyReturn, Received
  <2>2. Acked
    BY <2>1 DEF Talk, Idle, Closed, Asking, Answering, Answered, Headed, Reads, ReadAll, Waiting, FetchLen, DataLen
  <2>3. PICK n \in Nat : rd.buf = Fetch(Response.copy, n) /\ given = [ret |-> n, data |-> <<>>]
    BY <2>2 DEF Acked, IsResponse
  <2>4. SizeField(rd.buf) = n
    BY <2>3, FetchLayout DEF Response
  <2>5. given # None
    <3>1. <<>> \in Seq(Nat)
      BY EmptyStreams
    <3>2. given \in [ret : Nat, data : Seq(Nat)]
      BY <2>3, <3>1
    <3> QED BY <3>2, ProtoConstants
  <2> QED BY <2>1, <2>2, <2>3, <2>4, <2>5, ReturnTalk DEF Acked
<1>3. CASE HeadReturn
  <2>1. lpc = "head" /\ rd.got = rd.size /\ Unusable /\ Return(0, <<>>) /\ UNCHANGED resp
    BY <1>3 DEF HeadReturn, Received, NoPaste, NoNotify
  <2>2. Headed
    BY <2>1 DEF Talk, Idle, Closed, Asking, Answering, Answered, Acked, Reads, ReadAll, Waiting, FetchLen, DataLen
  <2>3. resp = <<>> /\ given = NoAnswer
    BY <2>1, <2>2 DEF Headed, Unusable, Has, NoAnswer
  <2> QED BY <2>1, <2>2, <2>3, ReturnTalk DEF Headed, NoAnswer
<1>4. CASE HeadData
  <2>1. /\ lpc = "head" /\ rd.got = rd.size /\ ~Unusable /\ lpc' = "data"
        /\ rd' = [size |-> SizeField(rd.buf), got |-> 0, buf |-> <<>>]
        /\ UNCHANGED <<req, resp, slave, op, count, result, calls, region, killed, others, given, dup>>
    BY <1>4 DEF HeadData, Received
  <2>2. Headed
    BY <2>1 DEF Talk, Idle, Closed, Asking, Answering, Answered, Acked, Reads, ReadAll, Waiting, FetchLen, DataLen
  <2>3. SizeField(rd.buf) = Len(resp) /\ Len(resp) \in Nat /\ Len(resp) # 0 /\ Done'
    BY <2>1, <2>2 DEF Headed, Unusable, Done, slave
  <2>4. Common'
    BY <1>0, <2>1, <2>3 DEF Common
  <2>5. Reads'
    BY <2>1, <2>2, <2>3 DEF Reads, Headed, Has
  <2> QED BY <2>4, <2>5 DEF Talk
<1>5. CASE DataReturn
  <2>1. lpc = "data" /\ rd.got = rd.size /\ Return(rd.got, rd.buf) /\ UNCHANGED resp
    BY <1>5 DEF DataReturn, Received
  <2>2. ReadAll
    BY <2>1 DEF Talk, Idle, Closed, Asking, Answering, Answered, Acked, Headed, Reads, Waiting
  <2>3. given # None
    BY <1>0, <2>2, HasAnswer DEF ReadAll, Common
  <2> QED BY <2>1, <2>2, <2>3, ReturnTalk DEF ReadAll, Has
<1> QED BY <1>1, <1>2, <1>3, <1>4, <1>5

\* A call that is answered, or between calls, or that the slave has not read.
LEMMA AskedTalk ==
  ASSUME Talk, NEW o \in {"copy", "paste", "wait"}, Asked(Request[o])
  PROVE  Asking /\ op = o /\ spc = "recv" /\ IsRequest(o, count, req)
<1>1. spc = "recv" /\ req # <<>> /\ req[1] = Request[o]
  BY DEF Asked
<1>2. Asking /\ IsRequest(op, count, req) /\ op \in {"copy", "paste", "wait"}
  <2>1. ~Closed
    BY <1>1 DEF Closed, Goodbye, Request
  <2>2. ~Done
    BY <1>1 DEF Done
  <2>3. Asking
    BY <1>1, <2>1, <2>2 DEF Talk, Idle, Answering, Answered, Acked, Headed, Reads, ReadAll
  <2> QED BY <1>1, <2>3 DEF Asking, Waiting
<1>3. op = o
  <2>1. CASE op = "copy"
    <3>1. PICK d \in Seq(Nat) : req = Data(Request.copy, 0, d)
      BY <1>2, <2>1 DEF IsRequest
    <3>2. PICK type \in Nat, stamp \in Nat : type = Request.copy /\ stamp = 0
      BY DEF Request
    <3>3. req = Data(type, stamp, d)
      BY <3>1, <3>2
    <3>4. req[1] = type
      BY <3>3, DataLayout
    <3> QED BY <1>1, <2>1, <3>2, <3>4 DEF Request
  <2>2. CASE op # "copy"
    <3>1. req = Fetch(Request[op], count) /\ count \in Nat /\ Request[op] \in Nat
      BY <1>2, <2>2 DEF IsRequest, Talk, Common, Request
    <3>2. req[1] = Request[op]
      BY <3>1, FetchLayout
    <3> QED BY <1>1, <1>2, <3>2 DEF Request
  <2> QED BY <2>1, <2>2
<1> QED BY <1>1, <1>2, <1>3

\* The slave has the response to the call that is going on.
LEMMA RespondTalk ==
  ASSUME Talk, Asking, NEW p, NEW err, NEW n, NEW d, Respond(p, err, n, d),
         IsResponse(op, p, [ret |-> n, data |-> d]),
         req' = <<>>, region' \in Seq(Nat), UNCHANGED <<resp, library, killed>>
  PROVE  Talk'
<1>1. /\ spc' = "respond" /\ answer' = p /\ given' = [ret |-> n, data |-> d]
      /\ op' = op /\ count' = count /\ rd' = rd /\ lpc' = lpc /\ resp' = resp /\ killed' = killed
  BY DEF Respond, library
<1>2. Common'
  BY <1>1 DEF Talk, Common
<1>3. Waiting' /\ resp' = <<>>
  BY <1>1 DEF Asking, Waiting
<1>4. IsResponse(op', answer', given')
  BY <1>1
<1> QED BY <1>1, <1>2, <1>3, <1>4 DEF Talk, Answering, IsResponse

\* The slave reads a request, whole, and answers it.
LEMMA ServeCopyTalk ==
  ASSUME Talk, NEW accepted \in BOOLEAN, ServeCopy(accepted)
  PROVE  Talk'
<1>1. Asking /\ op = "copy" /\ IsRequest("copy", count, req)
  <2>1. Asked(Request["copy"])
    BY DEF ServeCopy
  <2> QED BY <2>1, AskedTalk
<1>2. PICK d \in Seq(Nat) : req = Data(Request.copy, 0, d)
  BY <1>1 DEF IsRequest
<1>3. SubSeq(req, DataLen + 1, DataLen + SizeField(req)) = d /\ Drop(DataLen + Len(d), req) = <<>>
  <2>4. PICK type \in Nat, stamp \in Nat : type = Request.copy /\ stamp = 0
    BY DEF Request
  <2>5. req = Data(type, stamp, d)
    BY <1>2, <2>4
  <2>1. SizeField(req) = Len(d)
    BY <2>5, DataLayout
  <2>2. SubSeq(req, DataLen + 1, DataLen + Len(d)) = d
    BY <2>5, DataLayout
  <2>3. Drop(DataLen + Len(d), req) = <<>>
    BY <2>5, DataLayout
  <2> QED BY <2>1, <2>2, <2>3
<1>4. /\ region' = IF accepted THEN d ELSE region
      /\ req' = Drop(DataLen + Len(d), req)
      /\ Respond(Fetch(Response.copy, IF accepted THEN Len(d) ELSE 0), Len(d), IF accepted THEN Len(d) ELSE 0, <<>>)
      /\ UNCHANGED <<resp, library, killed, others, dup>>
  BY <1>3 DEF ServeCopy
<1>5. PICK n \in Nat : n = IF accepted THEN Len(d) ELSE 0
  BY EmptyStreams
<1>6. IsResponse(op, Fetch(Response.copy, n), [ret |-> n, data |-> <<>>])
  BY <1>1 DEF IsResponse
<1>7. region' \in Seq(Nat)
  BY <1>4 DEF Talk, Common
<1>8. Respond(Fetch(Response.copy, n), Len(d), n, <<>>)
  BY <1>4, <1>5
<1> QED BY <1>1, <1>3, <1>4, <1>6, <1>7, <1>8, RespondTalk

LEMMA ServePasteTalk ==
  ASSUME Talk, ServePaste
  PROVE  Talk'
<1>1. Asking /\ op = "paste" /\ IsRequest("paste", count, req)
  <2>1. Asked(Request["paste"])
    BY DEF ServePaste
  <2> QED BY <2>1, AskedTalk
<1>2. count \in Nat /\ region \in Seq(Nat) /\ req = Fetch(Request.paste, count) /\ Request.paste \in Nat
  BY <1>1 DEF IsRequest, Talk, Common, Request
<1>3. SizeField(req) = count
  BY <1>2, FetchLayout
<1>9. Drop(FetchLen, req) = <<>>
  BY <1>2, FetchLayout
<1>4. PICK d \in Seq(Nat) : d = AtMost(count, region)
  BY <1>2, AtMostSeq
<1>5. /\ Respond(Data(Response.paste, Stamp, d), FetchLen - 1, Len(d), d)
      /\ req' = <<>> /\ UNCHANGED <<resp, library, region, killed, others, dup>>
  BY <1>3, <1>4, <1>9 DEF ServePaste, PasteAnswer
<1>6. IsResponse(op, Data(Response.paste, Stamp, d), [ret |-> Len(d), data |-> d])
  BY <1>1 DEF IsResponse
<1> QED BY <1>1, <1>2, <1>5, <1>6, RespondTalk

LEMMA ServeWaitTalk ==
  ASSUME Talk, ServeWait
  PROVE  Talk'
<1>1. Asking /\ op = "wait" /\ IsRequest("wait", count, req)
  <2>1. Asked(Request["wait"])
    BY DEF ServeWait
  <2> QED BY <2>1, AskedTalk
<1>2. count \in Nat /\ req = Fetch(Request.wait, count) /\ Request.wait \in Nat
  BY <1>1 DEF IsRequest, Talk, Common, Request
<1>3. Take(FetchLen, req) = req
  BY <1>2, FetchLayout
<1>4. Drop(FetchLen, req) = <<>>
  BY <1>2, FetchLayout
<1>5. /\ spc' = "wait" /\ answer' = Fetch(Request.wait, count) /\ req' = <<>>
      /\ UNCHANGED <<resp, library, region, killed, given, dup>>
  BY <1>2, <1>3, <1>4 DEF ServeWait
<1>6. Common'
  BY <1>5 DEF Talk, Common, library
<1>7. Asking'
  BY <1>1, <1>5 DEF Asking, Waiting, library
<1> QED BY <1>6, <1>7 DEF Talk

\* mem_wait returns to the slave, which answers the call that waits.
LEMMA WaitDoneTalk ==
  ASSUME Talk, NEW d \in Seq(Nat), NEW err, WaitDone(d, err), region' \in Seq(Nat)
  PROVE  Talk'
<1>1. spc = "wait" /\ Respond(Data(Response.wait, Stamp, d), err, Len(d), d) /\ UNCHANGED <<req, resp, library, killed>>
  BY DEF WaitDone
<1>2. Asking /\ op = "wait" /\ req = <<>>
  BY <1>1 DEF Talk, Idle, Closed, Asking, Answering, Answered, Acked, Headed, Reads, ReadAll, Done
<1>3. IsResponse(op, Data(Response.wait, Stamp, d), [ret |-> Len(d), data |-> d])
  BY <1>2 DEF IsResponse
<1> QED BY <1>1, <1>2, <1>3, RespondTalk

LEMMA WaitTalk ==
  ASSUME Talk, (\E p \in Payloads : WaitUpdated(p)) \/ WaitTerminated
  PROVE  Talk'
<1>1. ASSUME NEW p \in Payloads, WaitUpdated(p) PROVE Talk'
  <2>1. spc = "wait" /\ region' = p
    BY <1>1 DEF WaitUpdated, WaitDone
  <2>2. Asking /\ answer = Fetch(Request.wait, count) /\ count \in Nat /\ Request.wait \in Nat
    BY <2>1 DEF Talk, Common, Idle, Closed, Asking, Answering, Answered, Acked, Headed, Reads, ReadAll, Done, Request
  <2>3. SizeField(answer) = count
    BY <2>2, FetchLayout
  <2>4. p \in Seq(Nat)
    BY ProtoConstants
  <2>5. AtMost(SizeField(answer), p) \in Seq(Nat)
    BY <2>2, <2>3, <2>4, AtMostSeq
  <2>6. PICK err : WaitDone(AtMost(SizeField(answer), p), err)
    BY <1>1 DEF WaitUpdated
  <2> QED BY <2>1, <2>4, <2>5, <2>6, WaitDoneTalk
<1>2. CASE WaitTerminated
  <2>1. WaitDone(<<>>, 0) /\ region' \in Seq(Nat)
    BY <1>2 DEF WaitTerminated, Talk, Common
  <2> QED BY <2>1, EmptyStreams, WaitDoneTalk
<1> QED BY <1>1, <1>2

\* The response is sent, once, or dup records that it was not.
LEMMA SendTalk ==
  ASSUME Talk, Send \/ SendPipe
  PROVE  dup' \/ Talk'
<1>1. spc = "respond"
  BY DEF Send, SendPipe
<1>2. Answering
  BY <1>1 DEF Talk, Idle, Closed, Asking, Answered, Acked, Headed, Reads, ReadAll, Done
<1>3. op \in {"copy", "paste", "wait"} /\ AppOpen
  BY <1>2 DEF Answering, Waiting, AppOpen
<1>4. CASE SendPipe
  BY <1>3, <1>4 DEF SendPipe
<1>5. CASE Send /\ sends = 2
  BY <1>5 DEF Send
<1>6. CASE Send /\ sends # 2
  <2>1. answer \in Seq(Nat)
    BY <1>2, <1>3, ResponseParts DEF Answering
  <2>2. resp' = answer /\ spc' \in {"recv", "end"} /\ UNCHANGED <<req, library, region, killed, given>>
    BY <1>2, <1>6, <2>1, EmptyStreams DEF Send, Answering
  <2>3. Common' /\ Waiting' /\ Done'
    BY <1>2, <2>2 DEF Talk, Common, Answering, Waiting, Done, library
  <2>4. op' = op /\ given' = given
    BY <2>2 DEF library
  <2>5. IsResponse(op', resp', given')
    BY <1>2, <2>2, <2>4 DEF Answering
  <2> QED BY <2>3, <2>5 DEF Talk, Answered, IsResponse
<1> QED BY <1>4, <1>5, <1>6

\* The slave ends, others copy, the application closes.
LEMMA OthersTalk ==
  ASSUME Talk, Leave \/ \E p \in Payloads : OthersCopy(p)
  PROVE  Talk'
<1>1. CASE Leave
  <2>1. spc = "recv" /\ spc' = "end" /\ UNCHANGED <<req, resp, library, region, killed, given>>
    BY <1>1 DEF Leave
  <2>2. Common'
    BY <2>1 DEF Talk, Common, library
  <2>3. Idle => Idle'
    BY <2>1 DEF Idle, Done, library
  <2>4. (Closed => Closed') /\ (Asking => Asking') /\ ~Answering
    BY <2>1 DEF Closed, Asking, Waiting, Answering, library
  <2>5. Answered => Answered'
    <3> SUFFICES ASSUME Answered PROVE Answered'
      OBVIOUS
    <3>1. Waiting' /\ Done' /\ op' = op /\ resp' = resp /\ given' = given
      BY <2>1 DEF Answered, Waiting, Done, library
    <3> QED BY <3>1 DEF Answered, IsResponse
  <2>6. Acked => Acked'
    <3> SUFFICES ASSUME Acked PROVE Acked'
      OBVIOUS
    <3>1. Done' /\ op' = op /\ rd' = rd /\ lpc' = lpc /\ resp' = resp /\ given' = given
      BY <2>1 DEF Acked, Done, library
    <3> QED BY <3>1 DEF Acked, IsResponse
  <2>7. (Headed => Headed') /\ (Reads => Reads') /\ (ReadAll => ReadAll')
    BY <2>1 DEF Headed, Reads, ReadAll, Done, Has, library
  <2> QED BY <2>2, <2>3, <2>4, <2>5, <2>6, <2>7 DEF Talk
<1>2. ASSUME NEW p \in Payloads, OthersCopy(p) PROVE Talk'
  <2>1. p \in Seq(Nat) /\ region' = p
    BY <1>2, ProtoConstants DEF OthersCopy
  <2>2. UNCHANGED <<req, resp, library, slave, killed, given>>
    BY <1>2 DEF OthersCopy
  <2>3. Common'
    BY <2>1, <2>2 DEF Talk, Common, library
  <2>4. /\ (Idle => Idle') /\ (Closed => Closed') /\ (Asking => Asking') /\ (Answering => Answering')
    BY <2>2 DEF Idle, Done, Closed, Asking, Waiting, IsRequest, Answering, IsResponse, library, slave
  <2>5. /\ (Answered => Answered') /\ (Acked => Acked') /\ (Headed => Headed')
        /\ (Reads => Reads') /\ (ReadAll => ReadAll')
    BY <2>2 DEF Done, Waiting, Answered, IsResponse, Acked, Headed, Reads, ReadAll, Has, library, slave
  <2> QED BY <2>3, <2>4, <2>5 DEF Talk
<1> QED BY <1>1, <1>2

LEMMA CloseTalk ==
  ASSUME Talk, Close
  PROVE  lpc' = "dead" \/ Talk'
<1>1. Idle
  BY DEF Talk, Close, Closed, Asking, Answering, Answered, Acked, Headed, Reads, ReadAll, Waiting
<1>2. CASE ~ServerOpen
  BY <1>2 DEF Close
<1>3. CASE ServerOpen
  <2>1. req = <<>> /\ spc = "recv"
    BY <1>1, <1>3 DEF Idle, Done, ServerOpen
  <2>2. lpc' = "closed" /\ req' = <<Goodbye>> /\ spc' = "recv" /\ UNCHANGED <<count, rd, region, killed>>
    BY <1>3, <2>1, EmptyStreams DEF Close, slave
  <2> QED BY <2>2 DEF Talk, Common, Closed
<1> QED BY <1>2, <1>3
-----------------------------------------------------------------------------
\* What was sent twice stays sent, and a process that is gone does not come back.
LEMMA ForGood ==
  ASSUME [ProtoNext]_protoVars
  PROVE  (dup => dup') /\ (lpc = "dead" => lpc' = "dead")
<1>1. CASE Call
  <2>1. ASSUME NEW o, NEW n, NEW first, NEW to, Begin(o, n, first, to) PROVE (dup => dup') /\ lpc = "idle"
    BY <2>1 DEF Begin
  <2>2. CASE Close
    BY <2>2 DEF Close
  <2> QED BY <1>1, <2>1, <2>2 DEF Call, Copy, Paste, Wait, Fetching
<1>2. CASE Library
  <2>1. CASE ReadWhole
    BY <2>1 DEF ReadWhole, Reading
  <2>2. CASE ReadEnd
    BY <2>2 DEF ReadEnd, Reading, Return
  <2>3. CASE CopyReturn \/ HeadReturn \/ DataReturn
    BY <2>3 DEF CopyReturn, HeadReturn, DataReturn, Received, Return
  <2>4. CASE HeadData
    BY <2>4 DEF HeadData, Received
  <2> QED BY <1>2, <2>1, <2>2, <2>3, <2>4 DEF Library
<1>3. CASE Serve \/ Leave
  <2>1. CASE Send
    BY <2>1 DEF Send, library
  <2>2. CASE SendPipe \/ LeaveAsked \/ Leave
    BY <2>2 DEF SendPipe, LeaveAsked, Leave, library
  <2>3. ASSUME NEW accepted \in BOOLEAN, ServeCopy(accepted) PROVE UNCHANGED <<dup, lpc>>
    BY <2>3 DEF ServeCopy, library
  <2>4. CASE ServePaste \/ ServeWait
    BY <2>4 DEF ServePaste, ServeWait, library
  <2> QED BY <1>3, <2>1, <2>2, <2>3, <2>4 DEF Serve, ServeMemory, ServeOther
<1>4. ASSUME NEW k, Die(k) PROVE (dup => dup') /\ lpc' = "dead"
  BY <1>4 DEF Die
<1>5. ASSUME NEW p, WaitUpdated(p) \/ OthersCopy(p) PROVE UNCHANGED <<dup, lpc>>
  BY <1>5 DEF WaitUpdated, WaitDone, OthersCopy, library
<1>6. CASE WaitTerminated
  BY <1>6 DEF WaitTerminated, WaitDone, library
<1>7. CASE OthersWait \/ UNCHANGED protoVars
  BY <1>7 DEF OthersWait, protoVars, talkVars, library
<1> QED BY <1>1, <1>2, <1>3, <1>4, <1>5, <1>6, <1>7 DEF ProtoNext

THEOREM ProtoStep == ProtoIInv /\ [ProtoNext]_protoVars => ProtoIInv'
<1> SUFFICES ASSUME ProtoIInv, [ProtoNext]_protoVars PROVE ProtoIInv'
  OBVIOUS
<1>1. CASE dup \/ lpc = "dead"
  BY <1>1, ForGood DEF ProtoIInv
<1>2. CASE Talk
  <2>1. CASE Call
    BY <1>2, <2>1, CallTalk, CloseTalk DEF Call, ProtoIInv
  <2>2. CASE Library
    BY <1>2, <2>2, ReadWholeTalk, LibraryTalk DEF Library, ProtoIInv
  <2>3. CASE Serve
    BY <1>2, <2>3, ServeCopyTalk, ServePasteTalk, ServeWaitTalk, SendTalk, OthersTalk DEF Serve, ServeMemory, ServeOther, LeaveAsked, ProtoIInv
  <2>4. ASSUME NEW k, Die(k) PROVE ProtoIInv'
    BY <2>4 DEF Die, ProtoIInv
  <2>5. ASSUME NEW p \in Payloads, WaitUpdated(p) \/ OthersCopy(p) PROVE ProtoIInv'
    BY <1>2, <2>5, WaitTalk, OthersTalk DEF ProtoIInv
  <2>6. CASE WaitTerminated \/ Leave
    BY <1>2, <2>6, WaitTalk, OthersTalk DEF ProtoIInv
  <2>7. CASE OthersWait \/ UNCHANGED protoVars
    <3>1. Common'
      BY <1>2, <2>7 DEF Talk, Common, OthersWait, protoVars, talkVars, library
    <3>2. /\ (Idle => Idle') /\ (Closed => Closed') /\ (Asking => Asking') /\ (Answering => Answering')
      BY <2>7 DEF Idle, Done, Closed, Asking, Waiting, IsRequest, Answering, IsResponse, OthersWait, protoVars, talkVars, library, slave
    <3>3. /\ (Answered => Answered') /\ (Acked => Acked') /\ (Headed => Headed')
          /\ (Reads => Reads') /\ (ReadAll => ReadAll')
      BY <2>7 DEF Done, Waiting, Answered, IsResponse, Acked, Headed, Reads, ReadAll, Has, OthersWait, protoVars, talkVars, library, slave
    <3> QED BY <1>2, <3>1, <3>2, <3>3 DEF Talk, ProtoIInv
  <2> QED BY <2>1, <2>2, <2>3, <2>4, <2>5, <2>6, <2>7 DEF ProtoNext
<1> QED BY <1>1, <1>2 DEF ProtoIInv

THEOREM ProtoInvariant == ProtoSpec => []ProtoIInv
<1>1. ProtoInit => ProtoIInv
  BY ProtoStart
<1>2. ProtoIInv /\ [ProtoNext]_protoVars => ProtoIInv'
  BY ProtoStep
<1> QED BY <1>1, <1>2, PTL DEF ProtoSpec

\* A call returns the answer to its own request, whatever is copied and however
\* many calls there are, as long as no response was sent twice
\* (client_api.c:118-257, appif.c:101-246).
THEOREM ProtoOwnAnswer == ProtoSpec => []OwnAnswer
<1>1. ProtoIInv => OwnAnswer
  <2> SUFFICES ASSUME ProtoIInv, lpc = "idle", ~dup
               PROVE  result = IF given = None THEN NoAnswer ELSE given
    BY DEF OwnAnswer, NoAnswer
  <2>1. Talk
    BY DEF ProtoIInv
  <2> QED BY <2>1 DEF Talk, Idle, Closed, Asking, Answering, Answered, Acked, Headed, Reads, ReadAll, Waiting
<1> QED BY <1>1, ProtoInvariant, PTL

\* An application that lets its calls return before clipboard_close does not take
\* the daemon with it (client_api.c:98-107, packet.c:8-24), with the same exception.
THEOREM ProtoCloseIsSafe == ProtoSpec => []CloseIsSafe
<1>1. ProtoIInv => CloseIsSafe
  BY DEF ProtoIInv, Talk, Common, CloseIsSafe
<1> QED BY <1>1, ProtoInvariant, PTL
-----------------------------------------------------------------------------
(* Both sides in step, and the types of what they exchange: these hold     *)
(* whether or not a response was sent twice.                               *)

\* A sequence of bytes, one byte after the other.
LEMMA ByteSeq ==
  /\ \A s \in Seq(Byte) : s \in Seq(Nat) /\ Len(s) \in Nat /\ \A i \in 1..Len(s) : s[i] \in Byte
  /\ \A s \in Seq(Nat) : (\A i \in 1..Len(s) : s[i] \in Byte) => s \in Seq(Byte)
<1>1. Byte \subseteq Nat
  BY DEF Byte
<1>2. Seq(Byte) \subseteq Seq(Nat)
  BY <1>1, SeqMonotonic
<1>3. \A s \in Seq(Byte) : Len(s) \in Nat /\ \A i \in 1..Len(s) : s[i] \in Byte
  BY LenProperties, ElementOfSeq
<1>4. ASSUME NEW s \in Seq(Nat), \A i \in 1..Len(s) : s[i] \in Byte PROVE s \in Seq(Byte)
  <2>1. s = [i \in 1..Len(s) |-> s[i]] /\ Len(s) \in Nat
    BY LenProperties
  <2>2. s \in [1..Len(s) -> Byte]
    BY <1>4, <2>1
  <2> QED BY <2>1, <2>2, SeqDef
<1> QED BY <1>2, <1>3, <1>4

LEMMA ByteParts ==
  ASSUME NEW s \in Seq(Byte), NEW n \in Nat, n <= Len(s)
  PROVE  Take(n, s) \in Seq(Byte) /\ Drop(n, s) \in Seq(Byte)
<1>1. s \in Seq(Nat) /\ Len(s) \in Nat /\ \A i \in 1..Len(s) : s[i] \in Byte
  BY ByteSeq
<1>2. /\ Take(n, s) \in Seq(Nat) /\ Len(Take(n, s)) = n
      /\ \A i \in 1..n : Take(n, s)[i] = s[i]
  BY <1>1, TakeDrop
<1>3. /\ Drop(n, s) \in Seq(Nat) /\ Len(Drop(n, s)) = Len(s) - n
      /\ \A i \in 1..(Len(s) - n) : Drop(n, s)[i] = s[n + i]
  BY <1>1, TakeDrop
<1>4. \A i \in 1..Len(Take(n, s)) : Take(n, s)[i] \in Byte
  BY <1>1, <1>2
<1>5. \A i \in 1..Len(Drop(n, s)) : Drop(n, s)[i] \in Byte
  <2> TAKE i \in 1..Len(Drop(n, s))
  <2>1. i \in 1..(Len(s) - n)
    BY <1>3
  <2>2. n + i \in 1..Len(s)
    BY <1>1, <2>1
  <2>3. Drop(n, s)[i] = s[n + i]
    BY <1>3, <2>1
  <2> QED BY <1>1, <2>2, <2>3
<1> QED BY <1>2, <1>3, <1>4, <1>5, ByteSeq

\* AtMost: no more bytes than there is room for, and than there are.
LEMMA AtMostBytes ==
  ASSUME NEW n \in Nat, NEW d \in Seq(Byte)
  PROVE  /\ AtMost(n, d) \in Seq(Byte)
         /\ Len(AtMost(n, d)) <= n /\ Len(AtMost(n, d)) <= Len(d)
<1>1. d \in Seq(Nat) /\ Len(d) \in Nat
  BY ByteSeq
<1>2. CASE Len(d) > n
  <2>1. n <= Len(d)
    BY <1>1, <1>2
  <2>2. Len(Take(n, d)) = n
    BY <1>1, <2>1, TakeDrop
  <2>3. Take(n, d) \in Seq(Byte)
    BY <2>1, ByteParts
  <2>4. AtMost(n, d) = Take(n, d)
    BY <1>2 DEF AtMost
  <2> QED BY <2>1, <2>2, <2>3, <2>4
<1>3. CASE ~(Len(d) > n)
  BY <1>1, <1>3 DEF AtMost
<1> QED BY <1>2, <1>3

\* Packets of bytes.
LEMMA ByteFetch ==
  ASSUME NEW type \in Byte, NEW n \in Byte
  PROVE  Fetch(type, n) \in Seq(Byte)
<1>1. <<type, 0>> \in Seq(Byte) /\ U32(n) \in Seq(Byte)
  BY DEF Byte, U32
<1> QED BY <1>1, ConcatProperties DEF Fetch

LEMMA ByteData ==
  ASSUME NEW type \in Byte, NEW stamp \in Byte, NEW d \in Seq(Byte), Len(d) < 256
  PROVE  Data(type, stamp, d) \in Seq(Byte)
<1>1. Len(d) \in Byte
  <2>1. Len(d) \in Nat
    BY ByteSeq
  <2>2. \A n \in Nat : n < 256 => n \in Byte
    BY DEF Byte
  <2> QED BY <2>1, <2>2
<1>2. Fetch(type, Len(d)) \in Seq(Byte) /\ [i \in 1..4 |-> stamp] \in Seq(Byte)
  BY <1>1, ByteFetch
<1>3. Fetch(type, Len(d)) \o [i \in 1..4 |-> stamp] \in Seq(Byte)
  BY <1>2, ConcatProperties
<1>4. (Fetch(type, Len(d)) \o [i \in 1..4 |-> stamp]) \o d \in Seq(Byte)
  BY <1>3, ConcatProperties
<1> QED BY <1>4 DEF Data, Fetch

\* What a reader makes of bytes 3 to 6, whatever they are.
SizeBytes(p) == IF p[5] = 0 /\ p[6] = 0 THEN p[3] + 256 * p[4] ELSE 65536

LEMMA SizeAny ==
  ASSUME NEW p \in Seq(Nat), Len(p) >= 6
  PROVE  SizeField(p) = SizeBytes(p) /\ SizeField(p) \in Nat
<1>1. Len(p) \in Nat /\ \A i \in 1..Len(p) : p[i] \in Nat
  BY LenProperties
<1>2. \A i \in 3..6 : p[i] \in Nat
  BY <1>1
<1> DEFINE b == SubSeq(p, 3, 6)
<1>3. \A i \in 1..6 - 3 + 1 : b[i] = p[3 + i - 1]
  BY <1>2, SubSeqProperties
<1>4. b[1] = p[3] /\ b[2] = p[4] /\ b[3] = p[5] /\ b[4] = p[6]
  <2> HIDE DEF b
  <2>1. b[1] = p[3 + 1 - 1] /\ b[2] = p[3 + 2 - 1] /\ b[3] = p[3 + 3 - 1] /\ b[4] = p[3 + 4 - 1]
    BY <1>3
  <2> QED BY <2>1
<1>5. SizeField(p) = Number(b)
  BY DEF SizeField
<1> HIDE DEF b
<1>6. Number(b) = SizeBytes(p)
  BY <1>4 DEF Number, SizeBytes
<1>7. p[3] \in Nat /\ p[4] \in Nat
  BY <1>2
<1>8. SizeBytes(p) \in Nat
  <2>1. p[3] + 256 * p[4] \in Nat
    BY <1>7
  <2> QED BY <2>1 DEF SizeBytes
<1> QED BY <1>5, <1>6, <1>8

\* What an application can send: the packets of its calls.
Packets ==
  {Data(Request.copy, 0, d) : d \in Payloads}
  \cup {Fetch(Request[o], n) : o \in {"paste", "wait"}, n \in Counts}
  \cup {<<Goodbye>>}

\* A packet that the slave finds, by its type.
LEMMA PacketKinds ==
  ASSUME NEW q \in Packets
  PROVE  /\ q \in Seq(Byte) /\ Len(q) \in Nat /\ Len(q) >= 1
         /\ \/ /\ q[1] = Request.copy /\ Len(q) >= DataLen /\ Len(q) = DataLen + SizeField(q)
               /\ SubSeq(q, DataLen + 1, DataLen + SizeField(q)) \in Payloads
            \/ q[1] \in {Request.paste, Request.wait} /\ Len(q) = FetchLen
            \/ q[1] = Goodbye
<1>1. ASSUME NEW d \in Payloads, q = Data(Request.copy, 0, d)
      PROVE  /\ q \in Seq(Byte) /\ Len(q) \in Nat /\ Len(q) >= 1
             /\ q[1] = Request.copy /\ Len(q) >= DataLen /\ Len(q) = DataLen + SizeField(q)
             /\ SubSeq(q, DataLen + 1, DataLen + SizeField(q)) \in Payloads
  <2>1. d \in Seq(Byte) /\ Len(d) < 256
    BY ProtocolAssumption DEF Byte
  <2>2. d \in Seq(Nat) /\ Len(d) \in Nat
    BY <2>1, ByteSeq
  <2>3. PICK type \in Nat, stamp \in Nat : type \in Byte /\ stamp \in Byte /\ type = Request.copy /\ stamp = 0
    BY DEF Request, Byte
  <2>4. q = Data(type, stamp, d)
    BY <1>1, <2>3
  <2>5. q \in Seq(Byte)
    BY <2>1, <2>3, <2>4, ByteData
  <2>6. Len(q) = DataLen + Len(d)
    BY <2>2, <2>4, DataLayout
  <2>7. q[1] = type
    BY <2>2, <2>4, DataLayout
  <2>8. SizeField(q) = Len(d)
    BY <2>2, <2>4, DataLayout
  <2>9. SubSeq(q, DataLen + 1, DataLen + Len(d)) = d
    BY <2>2, <2>4, DataLayout
  <2>10. Len(q) \in Nat /\ Len(q) >= 1 /\ Len(q) >= DataLen
    BY <2>2, <2>6 DEF DataLen
  <2> QED BY <2>3, <2>5, <2>6, <2>7, <2>8, <2>9, <2>10
<1>2. ASSUME NEW o \in {"paste", "wait"}, NEW n \in Counts, q = Fetch(Request[o], n)
      PROVE  /\ q \in Seq(Byte) /\ Len(q) \in Nat /\ Len(q) >= 1
             /\ q[1] \in {Request.paste, Request.wait} /\ Len(q) = FetchLen
  <2>1. n \in Byte /\ Request[o] \in Byte /\ Request[o] \in {Request.paste, Request.wait}
    BY ProtocolAssumption DEF Byte, Request
  <2>2. n \in Nat /\ Request[o] \in Nat
    BY <2>1 DEF Byte
  <2>3. q \in Seq(Byte)
    BY <1>2, <2>1, ByteFetch
  <2>4. Len(q) = FetchLen
    BY <1>2, <2>2, FetchLayout
  <2>5. q[1] = Request[o]
    BY <1>2, <2>2, FetchLayout
  <2> QED BY <2>1, <2>3, <2>4, <2>5 DEF FetchLen
<1>3. ASSUME q = <<Goodbye>>
      PROVE  q \in Seq(Byte) /\ Len(q) \in Nat /\ Len(q) >= 1 /\ q[1] = Goodbye
  BY <1>3 DEF Goodbye, Byte
<1> QED BY <1>1, <1>2, <1>3 DEF Packets

\* From byte i + 1 on s has q, or as much of it as there is.
At(s, i, q) == \A j \in 1..Len(q) : i + j <= Len(s) => s[i + j] = q[j]

\* s is made of packets that begin after the bytes of B; the last one is whole, or
\* it may have been cut.
Begins(s, B, whole) ==
  /\ 0 \in B /\ \A i \in B : i \in 0..Len(s)
  /\ whole => Len(s) \in B
  /\ \A i \in B : i < Len(s) =>
       \E q \in Packets : At(s, i, q) /\ IF i + Len(q) <= Len(s) THEN i + Len(q) \in B ELSE ~whole

Framed(s, whole) == \E B \in SUBSET Nat : Begins(s, B, whole)

LEMMA FramedEmpty == Framed(<<>>, TRUE)
<1>1. {0} \in SUBSET Nat /\ Len(<<>>) = 0
  OBVIOUS
<1>2. Begins(<<>>, {0}, TRUE)
  BY <1>1 DEF Begins
<1> QED BY <1>1, <1>2 DEF Framed

\* What begins with packets that are whole also begins with packets.
LEMMA FramedLess ==
  ASSUME NEW s, NEW whole \in BOOLEAN, Framed(s, TRUE)
  PROVE  Framed(s, whole)
BY DEF Framed, Begins

\* The slave reads the type of a request where one begins.
LEMMA FramedFront ==
  ASSUME NEW s \in Seq(Nat), NEW whole \in BOOLEAN, Framed(s, whole), s # <<>>
  PROVE  s[1] \in {Goodbye} \cup {Request[o] : o \in DOMAIN Request}
<1>1. PICK B \in SUBSET Nat : Begins(s, B, whole)
  BY DEF Framed
<1>2. Len(s) \in Nat /\ Len(s) # 0
  BY EmptyStreams
<1>3. PICK q \in Packets : At(s, 0, q)
  BY <1>1, <1>2 DEF Begins
<1>4. Len(q) \in Nat /\ Len(q) >= 1 /\ q[1] \in {Goodbye, Request.copy, Request.paste, Request.wait}
  BY PacketKinds
<1>5. s[0 + 1] = q[1]
  BY <1>2, <1>3, <1>4 DEF At
<1>6. {Request.copy, Request.paste, Request.wait} \subseteq {Request[o] : o \in DOMAIN Request}
  BY DEF Request
<1> QED BY <1>4, <1>5, <1>6

\* A call adds a packet.
LEMMA FramedMore ==
  ASSUME NEW s \in Seq(Nat), Framed(s, TRUE), NEW q \in Packets
  PROVE  Framed(s \o q, TRUE)
<1>1. PICK B \in SUBSET Nat : Begins(s, B, TRUE)
  BY DEF Framed
<1>0. 0 \in B /\ Len(s) \in B /\ \A i \in B : i \in 0..Len(s)
  BY <1>1 DEF Begins
<1>2. q \in Seq(Nat) /\ Len(q) \in Nat /\ Len(q) >= 1 /\ Len(s) \in Nat
  BY PacketKinds, ByteSeq, EmptyStreams
<1> DEFINE t == s \o q
           C == B \cup {Len(s) + Len(q)}
<1>3. /\ t \in Seq(Nat) /\ Len(t) = Len(s) + Len(q)
      /\ \A i \in 1..Len(s) : t[i] = s[i]
      /\ \A i \in 1..Len(q) : t[Len(s) + i] = q[i]
  BY <1>2, Joined
<1> HIDE DEF t
<1>4. C \in SUBSET Nat
  <2>1. Len(s) + Len(q) \in Nat
    BY <1>2
  <2> QED BY <2>1, Zenon
<1>5. 0 \in C /\ Len(t) \in C
  <2>1. 0 \in C
    BY <1>0
  <2>2. Len(s) + Len(q) \in C
    BY Zenon
  <2> QED BY <1>3, <2>1, <2>2
<1>6. \A i \in C : i \in 0..Len(t)
  <2> TAKE i \in C
  <2>1. CASE i \in B
    <3>1. i \in 0..Len(s)
      BY <1>0, <2>1
    <3> QED BY <1>2, <1>3, <3>1
  <2>2. CASE i = Len(s) + Len(q)
    BY <1>2, <1>3, <2>2
  <2> QED BY <2>1, <2>2
<1>7. ASSUME NEW i \in C, i < Len(t)
      PROVE  \E r \in Packets : At(t, i, r) /\ i + Len(r) <= Len(t) /\ i + Len(r) \in C
  <2>0. i # Len(s) + Len(q)
    BY <1>2, <1>3, <1>7
  <2>1. i \in B /\ i \in 0..Len(s)
    BY <1>0, <1>7, <2>0
  <2>2. CASE i < Len(s)
    <3>1. PICK r \in Packets : At(s, i, r) /\ i + Len(r) <= Len(s) /\ i + Len(r) \in B
      BY <1>1, <2>1, <2>2 DEF Begins
    <3>2. Len(r) \in Nat
      BY PacketKinds
    <3>3. \A j \in 1..Len(r) : t[i + j] = r[j]
      <4> TAKE j \in 1..Len(r)
      <4>1. i + j \in 1..Len(s) /\ i + j <= Len(s)
        BY <1>2, <2>1, <3>1, <3>2
      <4>2. s[i + j] = r[j]
        BY <3>1, <4>1 DEF At
      <4> QED BY <1>3, <4>1, <4>2
    <3>4. i + Len(r) <= Len(t)
      BY <1>2, <1>3, <2>1, <3>1, <3>2
    <3> QED BY <3>1, <3>3, <3>4 DEF At
  <2>3. CASE i = Len(s)
    BY <1>2, <1>3, <2>3 DEF At
  <2> QED BY <1>2, <2>1, <2>2, <2>3
<1> HIDE DEF C
<1>8. Begins(t, C, TRUE)
  BY <1>5, <1>6, <1>7 DEF Begins
<1> QED BY <1>4, <1>8 DEF Framed, t

\* A process that dies may leave less than it wrote.
LEMMA FramedCut ==
  ASSUME NEW s \in Seq(Nat), NEW whole \in BOOLEAN, Framed(s, whole), NEW k \in Nat, k <= Len(s)
  PROVE  Framed(Take(k, s), FALSE)
<1>1. PICK B \in SUBSET Nat : Begins(s, B, whole)
  BY DEF Framed
<1>0. 0 \in B /\ \A i \in B : i \in 0..Len(s)
  BY <1>1 DEF Begins
<1> DEFINE t == Take(k, s)
           C == {i \in B : i <= k}
<1>2. Len(s) \in Nat /\ Len(t) = k /\ \A i \in 1..k : t[i] = s[i]
  BY TakeDrop, EmptyStreams
<1> HIDE DEF t
<1>3. C \in SUBSET Nat /\ 0 \in C
  <2>1. C \in SUBSET Nat
    OBVIOUS
  <2>2. 0 <= k
    OBVIOUS
  <2> QED BY <1>0, <2>1, <2>2
<1>4. \A i \in C : i \in 0..Len(t)
  <2> TAKE i \in C
  <2>1. i \in Nat /\ i <= k
    BY <1>3
  <2> QED BY <1>2, <2>1
<1>5. ASSUME NEW i \in C, i < Len(t)
      PROVE  \E q \in Packets : At(t, i, q) /\ (i + Len(q) <= Len(t) => i + Len(q) \in C)
  <2>1. i \in B /\ i \in Nat /\ i < Len(s)
    BY <1>2, <1>3, <1>5
  <2>2. PICK q \in Packets : At(s, i, q) /\ (i + Len(q) <= Len(s) => i + Len(q) \in B)
    BY <1>1, <2>1 DEF Begins
  <2>3. Len(q) \in Nat
    BY PacketKinds
  <2>4. At(t, i, q)
    <3> SUFFICES ASSUME NEW j \in 1..Len(q), i + j <= Len(t) PROVE t[i + j] = q[j]
      BY DEF At
    <3>1. i + j \in 1..k /\ i + j <= Len(s)
      BY <1>2, <2>1, <2>3
    <3>2. s[i + j] = q[j]
      BY <2>2, <3>1 DEF At
    <3> QED BY <1>2, <3>1, <3>2
  <2>5. i + Len(q) <= Len(t) => i + Len(q) \in C
    BY <1>2, <2>1, <2>2, <2>3
  <2> QED BY <2>4, <2>5
<1> HIDE DEF C
<1>6. Begins(t, C, FALSE)
  BY <1>3, <1>4, <1>5 DEF Begins
<1> QED BY <1>3, <1>6 DEF Framed, t

\* The slave reads the first packet, whole.
LEMMA FramedRest ==
  ASSUME NEW s \in Seq(Nat), NEW whole \in BOOLEAN, Framed(s, whole), s # <<>>
  PROVE  \E q \in Packets : /\ At(s, 0, q) /\ s[1] = q[1]
                            /\ Len(q) <= Len(s) => Framed(Drop(Len(q), s), whole)
<1>1. PICK B \in SUBSET Nat : Begins(s, B, whole)
  BY DEF Framed
<1>2. Len(s) \in Nat /\ Len(s) # 0
  BY EmptyStreams
<1>3. PICK q \in Packets : At(s, 0, q) /\ (0 + Len(q) <= Len(s) => 0 + Len(q) \in B)
  BY <1>1, <1>2 DEF Begins
<1>4. Len(q) \in Nat /\ Len(q) >= 1
  BY PacketKinds
<1>5. s[0 + 1] = q[1]
  BY <1>2, <1>3, <1>4 DEF At
<1>6. ASSUME Len(q) <= Len(s) PROVE Framed(Drop(Len(q), s), whole)
  <2> DEFINE n == Len(q)
             t == Drop(n, s)
             C == {i \in Nat : i + n \in B}
  <2>1. Len(t) = Len(s) - n /\ \A i \in 1..(Len(s) - n) : t[i] = s[n + i]
    BY <1>4, <1>6, TakeDrop
  <2>2. n \in Nat /\ n >= 1 /\ n <= Len(s) /\ n \in B
    BY <1>3, <1>4, <1>6
  <2> HIDE DEF n, t
  <2>3. C \in SUBSET Nat /\ 0 \in C
    BY <2>2
  <2>4. \A i \in C : i \in 0..Len(t)
    <3> TAKE i \in C
    <3>1. i \in Nat /\ i + n \in 0..Len(s)
      BY <1>1 DEF Begins
    <3> QED BY <1>2, <2>1, <2>2, <3>1
  <2>5. whole => Len(t) \in C
    BY <1>1, <1>2, <2>1, <2>2 DEF Begins
  <2>6. ASSUME NEW i \in C, i < Len(t)
        PROVE  \E r \in Packets : At(t, i, r) /\ IF i + Len(r) <= Len(t) THEN i + Len(r) \in C ELSE ~whole
    <3>1. i \in Nat /\ i + n \in B /\ i + n < Len(s)
      BY <1>2, <2>1, <2>2, <2>6
    <3>2. PICK r \in Packets : /\ At(s, i + n, r)
                               /\ IF (i + n) + Len(r) <= Len(s) THEN (i + n) + Len(r) \in B ELSE ~whole
      BY <1>1, <3>1 DEF Begins
    <3>3. Len(r) \in Nat
      BY PacketKinds
    <3>4. At(t, i, r)
      <4> SUFFICES ASSUME NEW j \in 1..Len(r), i + j <= Len(t) PROVE t[i + j] = r[j]
        BY DEF At
      <4>1. i + j \in 1..(Len(s) - n) /\ (i + n) + j <= Len(s) /\ n + (i + j) = (i + n) + j
        BY <1>2, <2>1, <2>2, <3>1, <3>3
      <4>2. s[(i + n) + j] = r[j]
        BY <3>2, <4>1 DEF At
      <4> QED BY <2>1, <4>1, <4>2
    <3>5. /\ i + Len(r) <= Len(t) <=> (i + n) + Len(r) <= Len(s)
          /\ (i + n) + Len(r) = (i + Len(r)) + n
      BY <1>2, <2>1, <2>2, <3>1, <3>3
    <3>6. (i + n) + Len(r) \in B => i + Len(r) \in C
      BY <3>1, <3>3, <3>5
    <3> QED BY <3>2, <3>4, <3>5, <3>6
  <2> HIDE DEF C
  <2>7. Begins(t, C, whole)
    BY <2>3, <2>4, <2>5, <2>6 DEF Begins
  <2> QED BY <2>3, <2>7 DEF Framed, t, n
<1> QED BY <1>3, <1>5, <1>6

\* A request to copy, whole: its data is what an application copies.
LEMMA CopyFramed ==
  ASSUME NEW s \in Seq(Nat), NEW whole \in BOOLEAN, Framed(s, whole), s # <<>>,
         s[1] = Request.copy, Len(s) >= DataLen, Len(s) >= DataLen + SizeField(s)
  PROVE  /\ SizeField(s) \in Nat
         /\ SubSeq(s, DataLen + 1, DataLen + SizeField(s)) \in Payloads
         /\ Len(SubSeq(s, DataLen + 1, DataLen + SizeField(s))) = SizeField(s)
         /\ Framed(Drop(DataLen + SizeField(s), s), whole)
<1>1. PICK q \in Packets : /\ At(s, 0, q) /\ s[1] = q[1]
                           /\ Len(q) <= Len(s) => Framed(Drop(Len(q), s), whole)
  BY FramedRest
<1>2. /\ q \in Seq(Nat) /\ Len(q) \in Nat /\ Len(q) >= DataLen /\ Len(q) = DataLen + SizeField(q)
      /\ SubSeq(q, DataLen + 1, DataLen + SizeField(q)) \in Payloads
  <2>1. q \in Seq(Nat)
    BY PacketKinds, ByteSeq
  <2>2. q[1] # Request.paste /\ q[1] # Request.wait /\ q[1] # Goodbye
    BY <1>1 DEF Request, Goodbye
  <2> QED BY <2>1, <2>2, PacketKinds
<1>3. Len(s) \in Nat /\ Len(s) >= 10 /\ Len(q) >= 10
  BY <1>2, EmptyStreams DEF DataLen
<1>4. \A j \in Nat : 1 <= j /\ j <= Len(q) /\ j <= Len(s) => s[j] = q[j]
  BY <1>1, <1>2 DEF At
<1>5. SizeField(s) = SizeField(q) /\ SizeField(s) \in Nat
  <2>5. \A j \in 1..10 : s[j] = q[j]
    BY <1>2, <1>3, <1>4
  <2>1. s[3] = q[3] /\ s[4] = q[4] /\ s[5] = q[5] /\ s[6] = q[6]
    BY <2>5
  <2>2. SizeBytes(s) = SizeBytes(q)
    BY <2>1 DEF SizeBytes
  <2>3. SizeField(s) = SizeBytes(s) /\ SizeField(s) \in Nat
    BY <1>3, SizeAny
  <2>4. SizeField(q) = SizeBytes(q)
    BY <1>2, <1>3, SizeAny
  <2> QED BY <2>2, <2>3, <2>4
<1>6. PICK k \in Nat : k = SizeField(s)
  BY <1>5
<1>7. Len(q) = 10 + k /\ 10 + k <= Len(s) /\ SubSeq(q, 11, 10 + k) \in Payloads
  BY <1>2, <1>5, <1>6 DEF DataLen
<1>8. SubSeq(s, 11, 10 + k) = SubSeq(q, 11, 10 + k) /\ Len(SubSeq(s, 11, 10 + k)) = k
  <2>0. \A i \in 11..10 + k : s[i] = q[i] /\ s[i] \in Nat /\ q[i] \in Nat
    <3>1. \A i \in 1..Len(s) : s[i] \in Nat
      BY LenProperties
    <3>2. \A i \in 1..Len(q) : q[i] \in Nat
      BY <1>2, LenProperties
    <3>3. \A i \in 11..10 + k : i \in Nat /\ 1 <= i /\ i <= Len(q) /\ i <= Len(s)
      BY <1>3, <1>7
    <3>4. \A i \in 11..10 + k : s[i] = q[i]
      BY <1>4, <3>3
    <3>5. \A i \in 11..10 + k : i \in 1..Len(s) /\ i \in 1..Len(q)
      BY <1>2, <1>3, <3>3
    <3> QED BY <3>1, <3>2, <3>4, <3>5
  <2> DEFINE a == SubSeq(s, 11, 10 + k)
             b == SubSeq(q, 11, 10 + k)
  <2>1. /\ a \in Seq(Nat) /\ Len(a) = (IF 11 <= 10 + k THEN 10 + k - 11 + 1 ELSE 0)
        /\ \A i \in 1..10 + k - 11 + 1 : a[i] = s[11 + i - 1]
    BY <2>0, SubSeqProperties
  <2>2. /\ b \in Seq(Nat) /\ Len(b) = (IF 11 <= 10 + k THEN 10 + k - 11 + 1 ELSE 0)
        /\ \A i \in 1..10 + k - 11 + 1 : b[i] = q[11 + i - 1]
    BY <2>0, SubSeqProperties
  <2> HIDE DEF a, b
  <2>3. Len(a) = k /\ Len(b) = k
    BY <2>1, <2>2
  <2>4. \A i \in 1..Len(a) : a[i] = b[i]
    <3> TAKE i \in 1..Len(a)
    <3>1. i \in 1..10 + k - 11 + 1 /\ 11 + i - 1 \in 11..10 + k
      BY <2>3
    <3>2. a[i] = s[11 + i - 1] /\ b[i] = q[11 + i - 1]
      BY <2>1, <2>2, <3>1
    <3> QED BY <2>0, <3>1, <3>2
  <2>5. a = b
    BY <2>1, <2>2, <2>3, <2>4, SeqEqual
  <2> QED BY <2>3, <2>5 DEF a, b
<1>9. DataLen + SizeField(s) = 10 + k /\ DataLen + 1 = 11
  BY <1>6 DEF DataLen
<1>10. Framed(Drop(10 + k, s), whole)
  BY <1>1, <1>7
<1> QED BY <1>5, <1>6, <1>7, <1>8, <1>9, <1>10

\* A request to paste or to wait, whole.
LEMMA FetchFramed ==
  ASSUME NEW s \in Seq(Nat), NEW whole \in BOOLEAN, Framed(s, whole), s # <<>>,
         s[1] \in {Request.paste, Request.wait}, Len(s) >= FetchLen
  PROVE  Framed(Drop(FetchLen, s), whole)
<1>1. PICK q \in Packets : /\ At(s, 0, q) /\ s[1] = q[1]
                           /\ Len(q) <= Len(s) => Framed(Drop(Len(q), s), whole)
  BY FramedRest
<1>2. q[1] # Request.copy /\ q[1] # Goodbye
  BY <1>1 DEF Request, Goodbye
<1>3. Len(q) = FetchLen
  BY <1>2, PacketKinds
<1> QED BY <1>1, <1>3
-----------------------------------------------------------------------------
\* How much of a packet each side has.
Places ==
  /\ rd.got \in {0, rd.size} /\ (rd.got = rd.size => Len(rd.buf) = rd.size)
  /\ lpc = "ack" => rd.size = FetchLen
  /\ lpc = "head" => rd.size = DataLen
  /\ spc = "wait" => Len(answer) = FetchLen
  /\ spc = "respond" => sends \in 1..2

StreamInv == ProtoTypeOK /\ Framed(req, lpc # "dead") /\ Places

\* What the assumptions say of the bytes.
LEMMA ByteConstants ==
  /\ Payloads \subseteq Seq(Byte) /\ (\A p \in Payloads : Len(p) \in Byte /\ Len(p) < 256)
  /\ Counts \subseteq Byte /\ Stamp \in Byte /\ 0 \in Byte /\ Byte \subseteq Nat
  /\ Request.copy \in Byte /\ Request.paste \in Byte /\ Request.wait \in Byte
  /\ Response.copy \in Byte /\ Response.paste \in Byte /\ Response.wait \in Byte
  /\ <<>> \in Seq(Byte) /\ Len(<<>>) = 0
<1>1. /\ Payloads \subseteq Seq(Byte) /\ \A p \in Payloads : Len(p) < 256
  BY ProtocolAssumption DEF Byte
<1>2. \A p \in Payloads : Len(p) \in Byte
  <2> TAKE p \in Payloads
  <2>1. Len(p) \in Nat /\ Len(p) < 256
    BY <1>1, ByteSeq
  <2>2. \A n \in Nat : n < 256 => n \in Byte
    BY DEF Byte
  <2> QED BY <2>1, <2>2
<1>3. Counts \subseteq Byte /\ Stamp \in Byte /\ 0 \in Byte /\ Byte \subseteq Nat
  BY ProtocolAssumption DEF Byte
<1>4. /\ Request.copy \in Byte /\ Request.paste \in Byte /\ Request.wait \in Byte
      /\ Response.copy \in Byte /\ Response.paste \in Byte /\ Response.wait \in Byte
  BY DEF Request, Response, Byte
<1>5. <<>> \in Seq(Byte) /\ Len(<<>>) = 0
  OBVIOUS
<1> QED BY <1>1, <1>2, <1>3, <1>4, <1>5

\* Before the first call.
THEOREM StreamStart == ProtoInit => StreamInv
<1> SUFFICES ASSUME ProtoInit PROVE StreamInv
  OBVIOUS
<1>1. Framed(req, lpc # "dead")
  <2>1. Framed(<<>>, TRUE)
    BY FramedEmpty
  <2>2. req = <<>> /\ (lpc # "dead") = TRUE
    BY DEF ProtoInit
  <2> QED BY <2>1, <2>2
<1>2. Places
  BY ByteConstants DEF ProtoInit, Places
<1>3. /\ req \in Seq(Byte) /\ resp \in Seq(Byte)
      /\ lpc \in {"idle", "ack", "head", "data", "closed", "dead"}
      /\ op \in {None} \cup DOMAIN Request /\ count \in 0..255
  BY ByteConstants DEF ProtoInit
<1>4. /\ rd \in [size : Nat, got : Nat, buf : Seq(Byte)]
      /\ result \in Answer /\ given \in Answer \cup {None}
  BY ByteConstants DEF ProtoInit, Answer
<1>5. calls \in 0..MaxCalls /\ others \in 0..MaxOthers
  BY ProtocolAssumption DEF ProtoInit
<1>6. /\ spc \in {"recv", "wait", "respond", "end"} /\ sends \in 0..2
      /\ last \in BOOLEAN /\ killed \in BOOLEAN /\ dup \in BOOLEAN /\ waited \in BOOLEAN
  <2>1. spc = "recv" /\ sends = 0 /\ last = FALSE /\ killed = FALSE /\ dup = FALSE /\ waited = FALSE
    BY DEF ProtoInit
  <2>2. sends \in 0..2
    BY <2>1
  <2> QED BY <2>1, <2>2, Zenon
<1>7. answer \in Seq(Byte) /\ region \in Payloads \cup {<<>>}
  BY DEF ProtoInit
<1>8. ProtoTypeOK
  BY <1>3, <1>4, <1>5, <1>6, <1>7 DEF ProtoTypeOK
<1> QED BY <1>1, <1>2, <1>8 DEF StreamInv

\* The types, of the two streams, of the library and of the slave.
WireTypes == req \in Seq(Byte) /\ resp \in Seq(Byte)
LibraryTypes ==
  /\ lpc \in {"idle", "ack", "head", "data", "closed", "dead"}
  /\ op \in {None} \cup DOMAIN Request /\ count \in Byte
  /\ rd \in [size : Nat, got : Nat, buf : Seq(Byte)]
  /\ result \in Answer /\ calls \in 0..MaxCalls
SlaveTypes ==
  /\ spc \in {"recv", "wait", "respond", "end"}
  /\ answer \in Seq(Byte) /\ sends \in 0..2 /\ last \in BOOLEAN
RestTypes ==
  /\ region \in Payloads \cup {<<>>} /\ killed \in BOOLEAN /\ dup \in BOOLEAN
  /\ others \in 0..MaxOthers /\ given \in Answer \cup {None} /\ waited \in BOOLEAN

LEMMA TypeParts == ProtoTypeOK <=> WireTypes /\ LibraryTypes /\ SlaveTypes /\ RestTypes
BY DEF ProtoTypeOK, WireTypes, LibraryTypes, SlaveTypes, RestTypes, Byte

LEMMA TypePartsNext == (ProtoTypeOK <=> WireTypes /\ LibraryTypes /\ SlaveTypes /\ RestTypes)'
BY TypeParts, PTL

\* Copy, Paste and Wait.
LEMMA StreamBegin ==
  ASSUME StreamInv, NEW o \in {"copy", "paste", "wait"}, NEW n \in Byte, NEW p \in Packets,
         Begin(o, n, IF o = "copy" THEN FetchLen ELSE DataLen, IF o = "copy" THEN "ack" ELSE "head"),
         req' = IF ServerOpen THEN req \o p ELSE req
  PROVE  StreamInv'
<1>0. /\ WireTypes /\ LibraryTypes /\ SlaveTypes /\ RestTypes /\ Places
      /\ Framed(req, lpc # "dead") /\ req \in Seq(Byte) /\ req \in Seq(Nat)
  BY TypeParts, ByteSeq DEF StreamInv, WireTypes
<1>1. /\ lpc = "idle" /\ calls < MaxCalls /\ calls' = calls + 1
      /\ op' = o /\ count' = n /\ given' = None
      /\ rd' = [size |-> IF o = "copy" THEN FetchLen ELSE DataLen, got |-> 0, buf |-> <<>>]
      /\ IF ServerOpen THEN lpc' = (IF o = "copy" THEN "ack" ELSE "head") ELSE lpc' = "dead"
      /\ UNCHANGED <<resp, spc, answer, sends, last, result, region, killed, others, dup, waited>>
  BY DEF Begin, slave
<1>2. Framed(req, TRUE)
  <2>1. (lpc # "dead") = TRUE
    BY <1>1
  <2> QED BY <1>0, <2>1
<1>3. req' \in Seq(Byte) /\ Framed(req', lpc' # "dead")
  <2>1. p \in Seq(Byte)
    BY PacketKinds
  <2>2. CASE ServerOpen
    <3>1. req \o p \in Seq(Byte)
      BY <1>0, <2>1, ConcatProperties
    <3>2. Framed(req \o p, TRUE)
      BY <1>0, <1>2, FramedMore
    <3>3. (lpc' # "dead") = TRUE /\ req' = req \o p
      BY <1>1, <2>2
    <3> QED BY <3>1, <3>2, <3>3
  <2>3. CASE ~ServerOpen
    <3>1. (lpc' # "dead") = FALSE /\ req' = req
      BY <1>1, <2>3
    <3>2. Framed(req, FALSE)
      BY <1>2, FramedLess
    <3> QED BY <1>0, <3>1, <3>2
  <2> QED BY <2>2, <2>3
<1>4. WireTypes'
  BY <1>0, <1>1, <1>3 DEF WireTypes
<1>5. LibraryTypes'
  <2>1. lpc' \in {"idle", "ack", "head", "data", "closed", "dead"}
    BY <1>1
  <2>2. op' \in DOMAIN Request /\ count' \in Byte
    BY <1>1 DEF Request
  <2>3. rd' \in [size : Nat, got : Nat, buf : Seq(Byte)]
    BY <1>1, ByteConstants DEF FetchLen, DataLen
  <2>4. calls' \in 0..MaxCalls /\ result' \in Answer
    BY <1>0, <1>1, ProtocolAssumption DEF LibraryTypes
  <2> QED BY <2>1, <2>2, <2>3, <2>4 DEF LibraryTypes
<1>6. SlaveTypes'
  BY <1>0, <1>1 DEF SlaveTypes
<1>7. RestTypes'
  BY <1>0, <1>1 DEF RestTypes
<1>8. Places'
  <2>1. rd'.got = 0 /\ rd'.size = IF o = "copy" THEN FetchLen ELSE DataLen
    BY <1>1
  <2>2. rd'.got # rd'.size
    BY <2>1 DEF FetchLen, DataLen
  <2>3. (lpc' = "ack" => rd'.size = FetchLen) /\ (lpc' = "head" => rd'.size = DataLen)
    BY <1>1, <2>1
  <2> QED BY <1>0, <1>1, <2>1, <2>2, <2>3 DEF Places
<1> QED BY <1>3, <1>4, <1>5, <1>6, <1>7, <1>8, TypePartsNext DEF StreamInv

LEMMA StreamCall ==
  ASSUME StreamInv, Call
  PROVE  StreamInv'
<1>1. ASSUME NEW d \in Payloads, Copy(d) PROVE StreamInv'
  <2>1. Data(Request.copy, 0, d) \in Packets /\ Len(d) \in Byte
    BY ByteConstants DEF Packets
  <2> QED BY <1>1, <2>1, StreamBegin DEF Copy
<1>2. ASSUME NEW n \in Counts, NEW o \in {"paste", "wait"}, Fetching(o, n) PROVE StreamInv'
  <2>1. Fetch(Request[o], n) \in Packets /\ n \in Byte
    BY ByteConstants DEF Packets
  <2> QED BY <1>2, <2>1, StreamBegin DEF Fetching
<1>3. ASSUME Close PROVE StreamInv'
  <2>0. /\ WireTypes /\ LibraryTypes /\ SlaveTypes /\ RestTypes /\ Places
        /\ Framed(req, lpc # "dead") /\ req \in Seq(Byte) /\ req \in Seq(Nat)
    BY TypeParts, ByteSeq DEF StreamInv, WireTypes
  <2>1. /\ lpc = "idle" /\ lpc' = (IF ServerOpen THEN "closed" ELSE "dead")
        /\ req' = IF ServerOpen THEN Append(req, Goodbye) ELSE req
        /\ UNCHANGED <<resp, spc, answer, sends, last, op, count, rd, result, calls, region, killed, others, given, dup, waited>>
    BY <1>3 DEF Close, slave
  <2>2. Framed(req, TRUE)
    <3>1. (lpc # "dead") = TRUE
      BY <2>1
    <3> QED BY <2>0, <3>1
  <2>3. req' \in Seq(Byte) /\ Framed(req', lpc' # "dead")
    <3>1. CASE ServerOpen
      <4>1. Append(req, Goodbye) = req \o <<Goodbye>> /\ Append(req, Goodbye) \in Seq(Byte)
        BY <2>0, AppendIsConcat, AppendProperties DEF Goodbye, Byte
      <4>2. Framed(req \o <<Goodbye>>, TRUE)
        <5>1. <<Goodbye>> \in Packets
          BY DEF Packets
        <5> HIDE DEF Goodbye
        <5> QED BY <2>0, <2>2, <5>1, FramedMore
      <4>3. (lpc' # "dead") = TRUE
        BY <2>1, <3>1
      <4> QED BY <2>1, <3>1, <4>1, <4>2, <4>3
    <3>2. CASE ~ServerOpen
      <4>1. (lpc' # "dead") = FALSE /\ req' = req
        BY <2>1, <3>2
      <4>2. Framed(req, FALSE)
        BY <2>2, FramedLess
      <4> QED BY <2>0, <4>1, <4>2
    <3> QED BY <3>1, <3>2
  <2>4. WireTypes' /\ LibraryTypes'
    BY <2>0, <2>1, <2>3 DEF WireTypes, LibraryTypes
  <2>5. SlaveTypes' /\ RestTypes'
    BY <2>0, <2>1 DEF SlaveTypes, RestTypes
  <2>6. Places'
    BY <2>0, <2>1 DEF Places
  <2> QED BY <2>3, <2>4, <2>5, <2>6, TypePartsNext DEF StreamInv
<1> QED BY <1>1, <1>2, <1>3 DEF Call, Paste, Wait

\* The library reads; the stream of requests stays as it is.
LEMMA StreamLibrary ==
  ASSUME StreamInv, Library
  PROVE  StreamInv'
<1>0. /\ WireTypes /\ LibraryTypes /\ SlaveTypes /\ RestTypes /\ Places
      /\ Framed(req, lpc # "dead") /\ resp \in Seq(Byte) /\ resp \in Seq(Nat)
  BY TypeParts, ByteSeq DEF StreamInv, WireTypes
<1>1. /\ rd \in [size : Nat, got : Nat, buf : Seq(Byte)]
      /\ rd.size \in Nat /\ rd.got \in Nat /\ rd.buf \in Seq(Byte) /\ rd.buf \in Seq(Nat)
  BY <1>0, ByteSeq DEF LibraryTypes
<1>2. ASSUME NEW n \in Nat, NEW d \in Seq(Byte), lpc # "dead", Return(n, d), resp' = resp \/ resp' = <<>>
      PROVE  StreamInv'
  <2>1. /\ lpc' = "idle" /\ result' = [ret |-> n, data |-> d]
        /\ UNCHANGED <<req, spc, answer, sends, last, op, count, rd, calls, region, killed, others, given, dup, waited>>
    BY <1>2 DEF Return, slave
  <2>2. (lpc # "dead") = (lpc' # "dead")
    BY <1>2, <2>1
  <2>3. Framed(req', lpc' # "dead")
    BY <1>0, <2>1, <2>2
  <2>4. WireTypes'
    BY <1>0, <1>2, <2>1, ByteConstants DEF WireTypes
  <2>5. result' \in Answer
    BY <2>1 DEF Answer
  <2>6. LibraryTypes'
    BY <1>0, <2>1, <2>5 DEF LibraryTypes
  <2>7. SlaveTypes' /\ RestTypes'
    BY <1>0, <2>1 DEF SlaveTypes, RestTypes
  <2>8. Places'
    BY <1>0, <2>1 DEF Places
  <2> QED BY <2>3, <2>4, <2>6, <2>7, <2>8, TypePartsNext DEF StreamInv
<1>3. ASSUME NEW size \in Nat, NEW got \in {0, size}, NEW buf \in Seq(Byte), NEW place \in {"ack", "head", "data"},
             lpc \in {"ack", "head", "data"},
             rd' = [size |-> size, got |-> got, buf |-> buf], lpc' = place,
             got = size => Len(buf) = size,
             place = "ack" => size = FetchLen, place = "head" => size = DataLen,
             resp' \in Seq(Byte),
             UNCHANGED <<req, slave, op, count, result, calls, region, killed, others, given, dup, waited>>
      PROVE  StreamInv'
  <2>1. (lpc # "dead") = (lpc' # "dead") /\ req' = req
    BY <1>3
  <2>2. Framed(req', lpc' # "dead")
    BY <1>0, <2>1
  <2>3. WireTypes'
    BY <1>0, <1>3, <2>1 DEF WireTypes
  <2>4. rd' \in [size : Nat, got : Nat, buf : Seq(Byte)]
    BY <1>3
  <2>5. LibraryTypes'
    BY <1>0, <1>3, <2>4 DEF LibraryTypes
  <2>6. SlaveTypes' /\ RestTypes'
    BY <1>0, <1>3 DEF SlaveTypes, RestTypes, slave
  <2>7. rd'.size = size /\ rd'.got = got /\ rd'.buf = buf
    BY <1>3
  <2>8. Places'
    BY <1>0, <1>3, <2>7 DEF Places, slave
  <2> QED BY <2>2, <2>3, <2>5, <2>6, <2>8, TypePartsNext DEF StreamInv
<1>4. CASE ReadWhole
  <2>1. /\ lpc \in {"ack", "head", "data"} /\ Len(resp) >= rd.size
        /\ rd' = [rd EXCEPT !.got = rd.size, !.buf = Take(rd.size, resp)]
        /\ resp' = Drop(rd.size, resp) /\ lpc' = lpc
        /\ UNCHANGED <<req, slave, op, count, result, calls, region, killed, others, given, dup, waited>>
    BY <1>4 DEF ReadWhole, Reading
  <2>2. Len(resp) \in Nat
    BY <1>0, ByteSeq
  <2>3. rd.size <= Len(resp)
    BY <1>1, <2>1, <2>2
  <2>4. Take(rd.size, resp) \in Seq(Byte) /\ Drop(rd.size, resp) \in Seq(Byte)
    BY <1>0, <1>1, <2>3, ByteParts
  <2>5. Len(Take(rd.size, resp)) = rd.size
    BY <1>0, <1>1, <2>3, TakeDrop
  <2>6. rd' = [size |-> rd.size, got |-> rd.size, buf |-> Take(rd.size, resp)]
    BY <1>1, <2>1
  <2>7. (lpc' = "ack" => rd.size = FetchLen) /\ (lpc' = "head" => rd.size = DataLen)
    BY <1>0, <2>1 DEF Places
  <2> QED BY <1>1, <1>3, <2>1, <2>4, <2>5, <2>6, <2>7
<1>5. CASE ReadEnd
  <2>1. lpc # "dead" /\ resp' = <<>> /\ Return(0, <<>>)
    BY <1>5 DEF ReadEnd, Reading
  <2> QED BY <1>2, <2>1, ByteConstants
<1>6. CASE CopyReturn
  <2>1. lpc = "ack" /\ rd.got = rd.size /\ Return(SizeField(rd.buf), <<>>) /\ resp' = resp
    BY <1>6 DEF CopyReturn, Received
  <2>2. Len(rd.buf) = 6
    BY <1>0, <2>1 DEF Places, FetchLen
  <2>3. SizeField(rd.buf) \in Nat
    <3>1. Len(rd.buf) >= 6
      BY <2>2
    <3> QED BY <1>1, <3>1, SizeAny
  <2> QED BY <1>2, <2>1, <2>3, ByteConstants
<1>7. CASE HeadReturn
  <2>1. lpc # "dead" /\ resp' = resp /\ Return(0, <<>>)
    BY <1>7 DEF HeadReturn, Received
  <2> QED BY <1>2, <2>1, ByteConstants
<1>8. CASE HeadData
  <2>1. /\ lpc = "head" /\ rd.got = rd.size /\ ~Unusable /\ lpc' = "data"
        /\ rd' = [size |-> SizeField(rd.buf), got |-> 0, buf |-> <<>>]
        /\ UNCHANGED <<req, resp, slave, op, count, result, calls, region, killed, others, given, dup, waited>>
    BY <1>8 DEF HeadData, Received
  <2>2. Len(rd.buf) = 10
    BY <1>0, <2>1 DEF Places, DataLen
  <2>3. SizeField(rd.buf) \in Nat /\ SizeField(rd.buf) # 0
    <3>1. Len(rd.buf) >= 6
      BY <2>2
    <3>2. SizeField(rd.buf) \in Nat
      BY <1>1, <3>1, SizeAny
    <3> QED BY <2>1, <3>2 DEF Unusable
  <2>4. resp' \in Seq(Byte)
    BY <1>0, <2>1
  <2> QED BY <1>3, <2>1, <2>3, <2>4, ByteConstants
<1>9. CASE DataReturn
  <2>1. lpc # "dead" /\ resp' = resp /\ Return(rd.got, rd.buf)
    BY <1>9 DEF DataReturn, Received
  <2> QED BY <1>1, <1>2, <2>1
<1> QED BY <1>4, <1>5, <1>6, <1>7, <1>8, <1>9 DEF Library

\* The slave has a response.
LEMMA StreamRespond ==
  ASSUME StreamInv, NEW p \in Seq(Byte), NEW err, NEW n \in Nat, NEW d \in Seq(Byte), Respond(p, err, n, d),
         req' \in Seq(Byte), Framed(req', lpc # "dead"),
         region' \in Payloads \cup {<<>>}, others' \in 0..MaxOthers,
         UNCHANGED <<resp, library, killed, dup, waited>>
  PROVE  StreamInv'
<1>0. WireTypes /\ LibraryTypes /\ SlaveTypes /\ RestTypes /\ Places
  BY TypeParts DEF StreamInv
<1>1. /\ spc' = "respond" /\ answer' = p /\ sends' = Times(p, err) /\ last' = (err = 0)
      /\ given' = [ret |-> n, data |-> d]
      /\ UNCHANGED <<resp, lpc, op, count, rd, result, calls, killed, dup, waited>>
  BY DEF Respond, library
<1>2. sends' \in 1..2 /\ sends' \in 0..2
  BY <1>1 DEF Times
<1>3. (err = 0) \in BOOLEAN
  OBVIOUS
<1>4. SlaveTypes'
  BY <1>1, <1>2, <1>3 DEF SlaveTypes
<1>5. given' \in Answer
  BY <1>1 DEF Answer
<1>6. RestTypes'
  BY <1>0, <1>1, <1>5 DEF RestTypes
<1>7. WireTypes' /\ LibraryTypes'
  BY <1>0, <1>1 DEF WireTypes, LibraryTypes
<1>8. Places'
  BY <1>0, <1>1, <1>2 DEF Places
<1>9. Framed(req', lpc' # "dead")
  BY <1>1
<1> QED BY <1>4, <1>6, <1>7, <1>8, <1>9, TypePartsNext DEF StreamInv

\* The types of the region.
LEMMA RegionBytes ==
  ASSUME StreamInv
  PROVE  region \in Seq(Byte) /\ Len(region) < 256
<1>1. region \in Payloads \/ region = <<>>
  BY DEF StreamInv, ProtoTypeOK
<1>2. ASSUME region \in Payloads PROVE region \in Seq(Byte) /\ Len(region) < 256
  BY <1>2, ByteConstants
<1>3. ASSUME region = <<>> PROVE region \in Seq(Byte) /\ Len(region) < 256
  BY <1>3
<1> QED BY <1>1, <1>2, <1>3

\* appif_slave reads a request and answers it, or waits.
LEMMA StreamServe ==
  ASSUME StreamInv, (\E accepted \in BOOLEAN : ServeCopy(accepted)) \/ ServePaste \/ ServeWait
  PROVE  StreamInv'
<1>0. /\ WireTypes /\ LibraryTypes /\ SlaveTypes /\ RestTypes /\ Places
      /\ Framed(req, lpc # "dead") /\ req \in Seq(Byte) /\ req \in Seq(Nat) /\ Len(req) \in Nat
  BY TypeParts, ByteSeq DEF StreamInv, WireTypes
<1>1. ASSUME NEW accepted \in BOOLEAN, ServeCopy(accepted) PROVE StreamInv'
  <2> DEFINE d == SubSeq(req, DataLen + 1, DataLen + SizeField(req))
             n == IF accepted THEN Len(d) ELSE 0
  <2>1. /\ req # <<>> /\ req[1] = Request.copy
        /\ Len(req) >= DataLen /\ Len(req) >= DataLen + SizeField(req)
        /\ region' = (IF accepted THEN d ELSE region)
        /\ req' = Drop(DataLen + Len(d), req)
        /\ Respond(Fetch(Response.copy, n), Len(d), n, <<>>)
        /\ UNCHANGED <<resp, library, killed, others, dup, waited>>
    BY <1>1 DEF ServeCopy, Asked
  <2>2. /\ SizeField(req) \in Nat /\ d \in Payloads /\ Len(d) = SizeField(req)
        /\ Framed(Drop(DataLen + SizeField(req), req), lpc # "dead")
    BY <1>0, <2>1, CopyFramed
  <2> HIDE DEF d
  <2>3. Len(d) \in Byte /\ Len(d) \in Nat
    BY <2>2, ByteConstants
  <2>4. n \in Byte /\ n \in Nat
    BY <2>3, ByteConstants
  <2> HIDE DEF n
  <2>5. Fetch(Response.copy, n) \in Seq(Byte)
    BY <2>4, ByteConstants, ByteFetch
  <2>6. DataLen + Len(d) \in Nat /\ DataLen + Len(d) <= Len(req)
    BY <1>0, <2>1, <2>2 DEF DataLen
  <2>7. req' \in Seq(Byte)
    BY <1>0, <2>1, <2>6, ByteParts
  <2>8. Framed(req', lpc # "dead")
    BY <2>1, <2>2
  <2>9. region' \in Payloads \cup {<<>>} /\ others' \in 0..MaxOthers
    BY <1>0, <2>1, <2>2 DEF RestTypes
  <2>10. <<>> \in Seq(Byte)
    BY ByteConstants
  <2> QED BY <2>1, <2>4, <2>5, <2>7, <2>8, <2>9, <2>10, StreamRespond
<1>2. ASSUME Asked(Request.paste) \/ Asked(Request.wait)
      PROVE  /\ Len(req) >= 6 /\ Drop(FetchLen, req) \in Seq(Byte) /\ Framed(Drop(FetchLen, req), lpc # "dead")
             /\ Take(FetchLen, req) \in Seq(Byte) /\ Len(Take(FetchLen, req)) = FetchLen
  <2>1. req # <<>> /\ req[1] \in {Request.paste, Request.wait} /\ Len(req) >= FetchLen
    BY <1>2 DEF Asked, Request
  <2>2. FetchLen \in Nat /\ FetchLen <= Len(req) /\ Len(req) >= 6
    BY <1>0, <2>1 DEF FetchLen
  <2>3. Framed(Drop(FetchLen, req), lpc # "dead")
    BY <1>0, <2>1, FetchFramed
  <2>4. Drop(FetchLen, req) \in Seq(Byte) /\ Take(FetchLen, req) \in Seq(Byte)
    BY <1>0, <2>2, ByteParts
  <2>5. Len(Take(FetchLen, req)) = FetchLen
    BY <1>0, <2>2, TakeDrop
  <2> QED BY <2>2, <2>3, <2>4, <2>5
<1>3. CASE ServePaste
  <2> DEFINE n == SizeField(req)
             d == AtMost(n, region)
  <2>1. /\ Asked(Request.paste) /\ Respond(PasteAnswer(n), FetchLen - 1, Len(d), d)
        /\ req' = Drop(FetchLen, req)
        /\ UNCHANGED <<resp, library, region, killed, others, dup, waited>>
    BY <1>3 DEF ServePaste
  <2>2. n \in Nat
    BY <1>0, <1>2, <2>1, SizeAny
  <2> HIDE DEF n
  <2>3. region \in Seq(Byte) /\ Len(region) \in Nat /\ Len(region) < 256
    BY RegionBytes, ByteSeq
  <2>4. d \in Seq(Byte) /\ Len(d) <= Len(region)
    BY <2>2, <2>3, AtMostBytes
  <2>5. PasteAnswer(n) = Data(Response.paste, Stamp, d)
    BY DEF PasteAnswer
  <2> HIDE DEF d
  <2>6. Len(d) \in Nat /\ Len(d) < 256
    <3>1. Len(d) \in Nat
      BY <2>4, ByteSeq
    <3> QED BY <2>3, <2>4, <3>1
  <2>7. PasteAnswer(n) \in Seq(Byte)
    BY <2>4, <2>5, <2>6, ByteConstants, ByteData
  <2>8. region' \in Payloads \cup {<<>>} /\ others' \in 0..MaxOthers
    BY <1>0, <2>1 DEF RestTypes
  <2>9. req' \in Seq(Byte) /\ Framed(req', lpc # "dead")
    BY <1>2, <2>1
  <2> QED BY <2>1, <2>4, <2>6, <2>7, <2>8, <2>9, StreamRespond
<1>4. CASE ServeWait
  <2>1. /\ Asked(Request.wait) /\ spc' = "wait"
        /\ answer' = Take(FetchLen, req) /\ req' = Drop(FetchLen, req)
        /\ UNCHANGED <<resp, lpc, op, count, rd, result, calls, sends, last, region, killed, others, given, dup>>
        /\ waited' = TRUE
    BY <1>4 DEF ServeWait, library
  <2>2. WireTypes' /\ LibraryTypes'
    BY <1>0, <1>2, <2>1 DEF WireTypes, LibraryTypes
  <2>6. waited' \in BOOLEAN
    BY <2>1, Zenon
  <2>3. SlaveTypes' /\ RestTypes'
    BY <1>0, <1>2, <2>1, <2>6 DEF SlaveTypes, RestTypes
  <2>4. Places'
    BY <1>0, <1>2, <2>1 DEF Places
  <2>5. Framed(req', lpc' # "dead")
    BY <1>2, <2>1
  <2> QED BY <2>2, <2>3, <2>4, <2>5, TypePartsNext DEF StreamInv
<1> QED BY <1>1, <1>3, <1>4

\* mem_wait returns.
LEMMA StreamWaitDone ==
  ASSUME StreamInv, NEW d \in Seq(Byte), Len(d) < 256, NEW err, WaitDone(d, err),
         region' \in Payloads \cup {<<>>}, others' \in 0..MaxOthers
  PROVE  StreamInv'
<1>1. /\ Respond(Data(Response.wait, Stamp, d), err, Len(d), d)
      /\ UNCHANGED <<resp, library, killed, dup, waited>> /\ req' = req
  BY DEF WaitDone
<1>2. Data(Response.wait, Stamp, d) \in Seq(Byte) /\ Len(d) \in Nat
  BY ByteConstants, ByteData, ByteSeq
<1>3. req' \in Seq(Byte) /\ Framed(req', lpc # "dead")
  BY <1>1 DEF StreamInv, ProtoTypeOK, Byte
<1> QED BY <1>1, <1>2, <1>3, StreamRespond

LEMMA StreamWait ==
  ASSUME StreamInv, (\E p \in Payloads : WaitUpdated(p)) \/ WaitTerminated
  PROVE  StreamInv'
<1>0. SlaveTypes /\ RestTypes /\ Places
  BY TypeParts DEF StreamInv
<1>1. ASSUME NEW p \in Payloads, WaitUpdated(p) PROVE StreamInv'
  <2>1. /\ spc = "wait" /\ others < MaxOthers /\ others' = others + 1 /\ region' = p
        /\ \E err : WaitDone(AtMost(SizeField(answer), p), err)
    BY <1>1 DEF WaitUpdated, WaitDone
  <2>2. answer \in Seq(Nat) /\ Len(answer) >= 6
    <3>1. answer \in Seq(Byte)
      BY <1>0 DEF SlaveTypes
    <3>2. Len(answer) = 6
      BY <1>0, <2>1 DEF Places, FetchLen
    <3>3. Len(answer) >= 6
      BY <3>2
    <3> QED BY <3>1, <3>3, ByteSeq
  <2>3. SizeField(answer) \in Nat
    BY <2>2, SizeAny
  <2>4. p \in Seq(Byte) /\ Len(p) < 256 /\ Len(p) \in Nat
    BY ByteConstants, ByteSeq
  <2>5. AtMost(SizeField(answer), p) \in Seq(Byte) /\ Len(AtMost(SizeField(answer), p)) <= Len(p)
    BY <2>3, <2>4, AtMostBytes
  <2>6. Len(AtMost(SizeField(answer), p)) \in Nat
    BY <2>5, ByteSeq
  <2>7. Len(AtMost(SizeField(answer), p)) < 256
    BY <2>4, <2>5, <2>6
  <2>8. region' \in Payloads \cup {<<>>} /\ others' \in 0..MaxOthers
    BY <1>0, <2>1, ProtocolAssumption DEF RestTypes
  <2> QED BY <2>1, <2>5, <2>7, <2>8, StreamWaitDone
<1>2. CASE WaitTerminated
  <2>1. WaitDone(<<>>, 0) /\ UNCHANGED <<region, others>>
    BY <1>2 DEF WaitTerminated
  <2>2. region' \in Payloads \cup {<<>>} /\ others' \in 0..MaxOthers
    BY <1>0, <2>1 DEF RestTypes
  <2>3. <<>> \in Seq(Byte) /\ Len(<<>>) < 256
    BY ByteConstants
  <2> QED BY <2>1, <2>2, <2>3, StreamWaitDone
<1> QED BY <1>1, <1>2

\* sendData, the ends of the slave and of the application, copies by others.
LEMMA StreamSend ==
  ASSUME StreamInv, Send
  PROVE  StreamInv'
<1>0. /\ WireTypes /\ LibraryTypes /\ SlaveTypes /\ RestTypes /\ Places /\ Framed(req, lpc # "dead")
  BY TypeParts DEF StreamInv
<1>1. /\ spc = "respond" /\ resp' = resp \o answer /\ sends' = sends - 1
      /\ dup' = (dup \/ sends = 2)
      /\ spc' = (IF sends = 2 THEN "respond" ELSE IF last THEN "end" ELSE "recv")
      /\ UNCHANGED <<req, lpc, op, count, rd, result, calls, answer, last, region, killed, others, given, waited>>
  BY DEF Send, library
<1>2. sends \in 1..2
  BY <1>0, <1>1 DEF Places
<1>3. resp' \in Seq(Byte)
  BY <1>0, <1>1, ConcatProperties DEF WireTypes, SlaveTypes
<1>4. dup' \in BOOLEAN
  BY <1>1, Zenon
<1>5. WireTypes' /\ LibraryTypes'
  BY <1>0, <1>1, <1>3 DEF WireTypes, LibraryTypes
<1>6. RestTypes'
  BY <1>0, <1>1, <1>4 DEF RestTypes
<1>7. sends' \in 0..2 /\ (spc' = "respond" => sends' \in 1..2)
  BY <1>1, <1>2
<1>8. SlaveTypes'
  BY <1>0, <1>1, <1>7 DEF SlaveTypes
<1>9. Places'
  BY <1>0, <1>1, <1>7 DEF Places
<1>10. Framed(req', lpc' # "dead")
  BY <1>0, <1>1
<1> QED BY <1>5, <1>6, <1>8, <1>9, <1>10, TypePartsNext DEF StreamInv

LEMMA StreamRest ==
  ASSUME StreamInv, SendPipe \/ Leave \/ \E p \in Payloads : OthersCopy(p)
  PROVE  StreamInv'
<1>0. /\ WireTypes /\ LibraryTypes /\ SlaveTypes /\ RestTypes /\ Places /\ Framed(req, lpc # "dead")
  BY TypeParts DEF StreamInv
<1>1. /\ UNCHANGED <<req, resp, lpc, op, count, rd, result, calls, answer, sends, last, given, dup, waited>>
      /\ spc' = spc \/ spc' = "end"
      /\ killed' = killed \/ killed' = TRUE
      /\ region' = region \/ region' \in Payloads
      /\ others' = others \/ (others < MaxOthers /\ others' = others + 1)
  BY DEF SendPipe, Leave, OthersCopy, library, slave
<1>2. WireTypes' /\ LibraryTypes'
  BY <1>0, <1>1 DEF WireTypes, LibraryTypes
<1>3. SlaveTypes'
  BY <1>0, <1>1 DEF SlaveTypes
<1>4. killed' \in BOOLEAN
  BY <1>0, <1>1, Zenon DEF RestTypes
<1>5. others' \in 0..MaxOthers
  BY <1>0, <1>1, ProtocolAssumption DEF RestTypes
<1>6. RestTypes'
  BY <1>0, <1>1, <1>4, <1>5 DEF RestTypes
<1>7. Places'
  BY <1>0, <1>1 DEF Places
<1>8. Framed(req', lpc' # "dead")
  BY <1>0, <1>1
<1> QED BY <1>2, <1>3, <1>6, <1>7, <1>8, TypePartsNext DEF StreamInv

LEMMA StreamDie ==
  ASSUME StreamInv, NEW k \in 0..DataLen, Die(k)
  PROVE  StreamInv'
<1>0. /\ WireTypes /\ LibraryTypes /\ SlaveTypes /\ RestTypes /\ Places
      /\ Framed(req, lpc # "dead") /\ req \in Seq(Byte) /\ req \in Seq(Nat)
  BY TypeParts, ByteSeq DEF StreamInv, WireTypes
<1>1. /\ lpc' = "dead" /\ k <= Len(req) /\ req' = Take(k, req)
      /\ UNCHANGED <<resp, spc, answer, sends, last, op, count, rd, result, calls, region, killed, others, given, dup, waited>>
  BY DEF Die, slave
<1>2. k \in Nat
  BY DEF DataLen
<1>3. Take(k, req) \in Seq(Byte)
  BY <1>0, <1>1, <1>2, ByteParts
<1>4. Framed(Take(k, req), FALSE)
  BY <1>0, <1>1, <1>2, FramedCut
<1>5. (lpc' # "dead") = FALSE
  BY <1>1
<1>6. Framed(req', lpc' # "dead")
  BY <1>1, <1>4, <1>5
<1>7. WireTypes' /\ LibraryTypes'
  BY <1>0, <1>1, <1>3 DEF WireTypes, LibraryTypes
<1>8. SlaveTypes' /\ RestTypes'
  BY <1>0, <1>1 DEF SlaveTypes, RestTypes
<1>9. Places'
  BY <1>0, <1>1 DEF Places
<1> QED BY <1>6, <1>7, <1>8, <1>9, TypePartsNext DEF StreamInv

THEOREM StreamStep == StreamInv /\ [ProtoNext]_protoVars => StreamInv'
<1> SUFFICES ASSUME StreamInv, [ProtoNext]_protoVars PROVE StreamInv'
  OBVIOUS
<1>1. CASE Call \/ Library
  BY <1>1, StreamCall, StreamLibrary
<1>2. CASE Serve
  BY <1>2, StreamServe, StreamSend, StreamRest DEF Serve, ServeMemory, ServeOther, LeaveAsked
<1>3. ASSUME NEW k \in 0..DataLen, Die(k) PROVE StreamInv'
  BY <1>3, StreamDie
<1>4. ASSUME NEW p \in Payloads, WaitUpdated(p) \/ OthersCopy(p) PROVE StreamInv'
  BY <1>4, StreamWait, StreamRest
<1>5. CASE WaitTerminated \/ Leave
  BY <1>5, StreamWait, StreamRest
<1>6. CASE OthersWait \/ UNCHANGED protoVars
  <2>0. /\ WireTypes /\ LibraryTypes /\ SlaveTypes /\ RestTypes /\ Places /\ Framed(req, lpc # "dead")
    BY TypeParts DEF StreamInv
  <2>1. UNCHANGED <<req, resp, lpc, op, count, rd, result, calls, spc, answer, sends, last, region, killed, others, given, dup>>
    BY <1>6 DEF OthersWait, protoVars, talkVars, library, slave
  <2>5. waited' = TRUE \/ waited' = waited
    BY <1>6 DEF OthersWait, protoVars
  <2>6. waited' \in BOOLEAN
    BY <2>0, <2>5, Zenon DEF RestTypes
  <2>2. WireTypes' /\ LibraryTypes'
    BY <2>0, <2>1 DEF WireTypes, LibraryTypes
  <2>3. SlaveTypes' /\ RestTypes' /\ Places'
    BY <2>0, <2>1, <2>6 DEF SlaveTypes, RestTypes, Places
  <2>4. Framed(req', lpc' # "dead")
    BY <2>0, <2>1
  <2> QED BY <2>2, <2>3, <2>4, TypePartsNext DEF StreamInv
<1> QED BY <1>1, <1>2, <1>3, <1>4, <1>5, <1>6 DEF ProtoNext

\* The stream of requests is made of packets, each of which begins where the slave
\* has read the one before, whatever the library does: also when a response was sent
\* twice, and up to the byte at which the process died.
THEOREM StreamInvariant == ProtoSpec => []StreamInv
<1>1. ProtoInit => StreamInv
  BY StreamStart
<1>2. StreamInv /\ [ProtoNext]_protoVars => StreamInv'
  BY StreamStep
<1> QED BY <1>1, <1>2, PTL DEF ProtoSpec

\* Types, for both streams and both sides, for any payloads of less than 256 bytes.
THEOREM ProtoTypes == ProtoSpec => []ProtoTypeOK
<1>1. StreamInv => ProtoTypeOK
  BY DEF StreamInv
<1> QED BY <1>1, StreamInvariant, PTL
-----------------------------------------------------------------------------
\* No call is given more than its caller has room for, as long as the library and
\* the slave are at the same call.
Fits ==
  /\ lpc = "data" => op # "copy"
  /\ given = None \/ op = "copy" \/ Len(given.data) <= count

FitsInv == dup \/ lpc = "dead" \/ Fits

LEMMA FitsKept ==
  ASSUME Fits, UNCHANGED <<op, count, given>>, lpc' = lpc \/ lpc' # "data"
  PROVE  Fits'
BY DEF Fits

\* What mem_get returns is cut to the room that the request says.
LEMMA FitsServe ==
  ASSUME StreamInv, Talk, Fits,
         \/ \E accepted \in BOOLEAN : ServeCopy(accepted)
         \/ ServePaste \/ ServeWait
         \/ \E p \in Payloads : WaitUpdated(p)
         \/ WaitTerminated
  PROVE  Fits'
<1>1. ASSUME NEW accepted \in BOOLEAN, ServeCopy(accepted) PROVE Fits'
  <2>1. Asked(Request["copy"]) /\ UNCHANGED <<lpc, op>>
    BY <1>1 DEF ServeCopy, library
  <2>2. op = "copy"
    BY <2>1, AskedTalk
  <2> QED BY <2>1, <2>2 DEF Fits
<1>2. ASSUME NEW n \in Nat, NEW d \in Seq(Byte), n = count, given' = [ret |-> Len(AtMost(n, d)), data |-> AtMost(n, d)],
             UNCHANGED <<lpc, op, count>>
      PROVE  Fits'
  <2>1. Len(AtMost(n, d)) <= n
    BY AtMostBytes
  <2>2. Len(given'.data) <= count'
    BY <1>2, <2>1
  <2> QED BY <1>2, <2>2 DEF Fits
<1>3. CASE ServePaste
  <2>1. /\ Asked(Request["paste"]) /\ UNCHANGED <<lpc, op, count>>
        /\ given' = [ret |-> Len(AtMost(SizeField(req), region)), data |-> AtMost(SizeField(req), region)]
    BY <1>3 DEF ServePaste, Respond, library
  <2>2. req = Fetch(Request.paste, count) /\ count \in Nat /\ Request.paste \in Nat
    BY <2>1, AskedTalk DEF IsRequest, Talk, Common, Request
  <2>3. SizeField(req) = count
    BY <2>2, FetchLayout
  <2>4. region \in Seq(Byte)
    BY RegionBytes
  <2>5. given' = [ret |-> Len(AtMost(count, region)), data |-> AtMost(count, region)]
    BY <2>1, <2>3
  <2> QED BY <1>2, <2>1, <2>2, <2>4, <2>5
<1>4. CASE ServeWait
  BY <1>4, FitsKept DEF ServeWait, library
<1>5. ASSUME spc = "wait" PROVE Asking /\ answer = Fetch(Request.wait, count) /\ count \in Nat /\ Request.wait \in Nat
  BY <1>5 DEF Talk, Common, Idle, Closed, Asking, Answering, Answered, Acked, Headed, Reads, ReadAll, Done, Request
<1>6. ASSUME NEW p \in Payloads, WaitUpdated(p) PROVE Fits'
  <2>1. /\ spc = "wait" /\ UNCHANGED <<lpc, op, count>>
        /\ given' = [ret |-> Len(AtMost(SizeField(answer), p)), data |-> AtMost(SizeField(answer), p)]
    BY <1>6 DEF WaitUpdated, WaitDone, Respond, library
  <2>2. answer = Fetch(Request.wait, count) /\ count \in Nat /\ Request.wait \in Nat
    BY <1>5, <2>1
  <2>3. SizeField(answer) = count
    BY <2>2, FetchLayout
  <2>4. p \in Seq(Byte)
    BY ByteConstants
  <2>5. given' = [ret |-> Len(AtMost(count, p)), data |-> AtMost(count, p)]
    BY <2>1, <2>3
  <2> QED BY <1>2, <2>1, <2>2, <2>4, <2>5
<1>7. CASE WaitTerminated
  <2>1. /\ spc = "wait" /\ UNCHANGED <<lpc, op, count>>
        /\ given' = [ret |-> Len(<<>>), data |-> <<>>]
    BY <1>7 DEF WaitTerminated, WaitDone, Respond, library
  <2>2. count \in Nat /\ given'.data = <<>>
    BY <1>5, <2>1
  <2>3. Len(given'.data) <= count'
    BY <2>1, <2>2, ByteConstants
  <2> QED BY <2>1, <2>3 DEF Fits
<1> QED BY <1>1, <1>3, <1>4, <1>6, <1>7

THEOREM FitsStep == StreamInv /\ ProtoIInv /\ FitsInv /\ [ProtoNext]_protoVars => FitsInv'
<1> SUFFICES ASSUME StreamInv, ProtoIInv, FitsInv, [ProtoNext]_protoVars PROVE FitsInv'
  OBVIOUS
<1>0. CASE dup \/ lpc = "dead"
  BY <1>0, ForGood DEF FitsInv
<1>1. CASE ~dup /\ lpc # "dead"
  <2>0. Talk /\ Fits
    BY <1>1 DEF ProtoIInv, FitsInv
  <2>1. CASE Call
    <3>1. ASSUME NEW o, NEW n, NEW first, NEW to \in {"ack", "head"}, Begin(o, n, first, to) PROVE Fits'
      BY <3>1 DEF Begin, Fits
    <3>2. CASE Close
      BY <2>0, <3>2, FitsKept DEF Close, FitsInv
    <3>3. ASSUME NEW d \in Payloads, Copy(d) PROVE Fits'
      BY <3>1, <3>3 DEF Copy
    <3>4. ASSUME NEW n \in Counts, Paste(n) \/ Wait(n) PROVE Fits'
      BY <3>1, <3>4 DEF Paste, Wait, Fetching
    <3> QED BY <2>1, <3>2, <3>3, <3>4 DEF Call, FitsInv
  <2>2. CASE Library
    <3>1. CASE ReadWhole
      BY <2>0, <3>1, FitsKept DEF ReadWhole, FitsInv
    <3>2. ASSUME NEW n, NEW d, Return(n, d) PROVE Fits'
      BY <2>0, <3>2, FitsKept DEF Return
    <3>3. CASE HeadData
      <4>1. lpc = "head" /\ UNCHANGED <<op, count, given>>
        BY <3>3 DEF HeadData, Received
      <4>2. op # "copy"
        BY <2>0, <4>1 DEF Talk, Idle, Closed, Asking, Answering, Answered, Acked, Headed, Reads, ReadAll, Waiting
      <4> QED BY <2>0, <4>1, <4>2 DEF Fits, FitsInv
    <3> QED BY <2>2, <3>1, <3>2, <3>3 DEF Library, ReadEnd, CopyReturn, HeadReturn, DataReturn, FitsInv
  <2>3. CASE Serve
    <3>1. CASE Send
      BY <2>0, <3>1, FitsKept DEF Send, library, FitsInv
    <3>2. CASE SendPipe \/ LeaveAsked
      BY <2>0, <3>2, FitsKept DEF SendPipe, LeaveAsked, Leave, library, FitsInv
    <3> QED BY <2>0, <2>3, <3>1, <3>2, FitsServe DEF Serve, ServeMemory, ServeOther, FitsInv
  <2>4. ASSUME NEW k, Die(k) PROVE FitsInv'
    BY <2>4 DEF Die, FitsInv
  <2>5. ASSUME NEW p \in Payloads, WaitUpdated(p) \/ OthersCopy(p) PROVE FitsInv'
    <3>1. CASE OthersCopy(p)
      BY <2>0, <3>1, FitsKept DEF OthersCopy, library, FitsInv
    <3> QED BY <2>0, <2>5, <3>1, FitsServe DEF FitsInv
  <2>6. CASE WaitTerminated
    BY <2>0, <2>6, FitsServe DEF FitsInv
  <2>7. CASE Leave
    BY <2>0, <2>7, FitsKept DEF Leave, library, FitsInv
  <2>8. CASE OthersWait \/ UNCHANGED protoVars
    BY <2>0, <2>8, FitsKept DEF OthersWait, protoVars, talkVars, library, FitsInv
  <2> QED BY <2>1, <2>2, <2>3, <2>4, <2>5, <2>6, <2>7, <2>8 DEF ProtoNext
<1> QED BY <1>0, <1>1

\* Between two calls nothing is left on the socket, and no more comes than the caller
\* has room for, as long as no response was sent twice (client_api.c:169-191,
\* 218-240); and the slave reads the type of a request where one begins
\* (appif.c:101) whatever was sent twice and wherever the process died.
THEOREM ProtoInStep == ProtoSpec => []InStep
<1>1. StreamInv /\ ProtoIInv /\ FitsInv => InStep
  <2> SUFFICES ASSUME StreamInv, ProtoIInv, FitsInv PROVE InStep
    OBVIOUS
  <2>1. lpc = "idle" /\ ~dup => resp = <<>>
    BY DEF ProtoIInv, Talk, Idle, Closed, Asking, Answering, Answered, Acked, Headed, Reads, ReadAll, Waiting
  <2>2. ASSUME lpc = "data", ~dup PROVE rd.size <= count
    <3>1. Talk /\ Fits
      BY <2>2 DEF ProtoIInv, FitsInv
    <3>2. Reads \/ ReadAll
      BY <2>2, <3>1 DEF Talk, Idle, Closed, Asking, Answering, Answered, Acked, Headed, Waiting
    <3>3. PICK d \in Seq(Nat) : Has(d) /\ rd.size = Len(d)
      BY <3>1, <3>2 DEF Talk, Common, Reads, ReadAll
    <3>4. given # None /\ given.data = d
      BY <3>3, HasAnswer DEF Has
    <3> QED BY <2>2, <3>1, <3>3, <3>4 DEF Fits
  <2>3. ASSUME req # <<>> PROVE req[1] \in {Goodbye} \cup {Request[o] : o \in DOMAIN Request}
    <3>1. req \in Seq(Nat) /\ Framed(req, lpc # "dead")
      BY TypeParts, ByteSeq DEF StreamInv, WireTypes
    <3>2. PICK whole \in BOOLEAN : whole = (lpc # "dead")
      OBVIOUS
    <3>3. Framed(req, whole)
      BY <3>1, <3>2
    <3> QED BY <2>3, <3>1, <3>3, FramedFront
  <2> QED BY <2>1, <2>2, <2>3 DEF InStep
<1>2. ProtoInit => FitsInv
  BY DEF ProtoInit, FitsInv, Fits
<1>3. StreamInv /\ ProtoIInv /\ FitsInv /\ [ProtoNext]_protoVars => FitsInv'
  BY FitsStep
<1>4. ProtoSpec => []FitsInv
  BY <1>2, <1>3, StreamInvariant, ProtoInvariant, PTL DEF ProtoSpec
<1> QED BY <1>1, <1>4, StreamInvariant, ProtoInvariant, PTL
=============================================================================
