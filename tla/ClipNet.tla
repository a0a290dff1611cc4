------------------------------- MODULE ClipNet -------------------------------
(***************************************************************************)
(* The distributed clipboard: a tree of clipboards in which each copy      *)
(* floods from the clipboard of the application that made it.  Every       *)
(* clipboard takes a copy unless it holds a newer one (mem_put), and       *)
(* passes on what it took to all neighbours but the one it came from.      *)
(* Clipboards join below one that runs, and leave at any moment: by the    *)
(* 'q', by a crash, or killed when they write to one that left.            *)
(*                                                                         *)
(* One region.  A clipboard is its memory, its queue and broadcaster, its  *)
(* listener, one slave for each connection and one for each application    *)
(* that copies.  mem_put (module ClMem) and a call of the queue (Queue)    *)
(* are one step; between them everything interleaves.  A TCP connection    *)
(* keeps the order, and loses a suffix of what was sent when the sender    *)
(* leaves.  The clocks are not in agreement (TimeSync), so a time stamp is *)
(* any member of Stamps.                                                   *)
(***************************************************************************)
EXTENDS Naturals, Sequences, FiniteSets

CONSTANTS MaxNodes,   \* clipboards
          MaxCopies,  \* copies that applications make, each with its data
          Stamps,     \* what time_m_now returns
          MaxLeave    \* bound: clipboards that leave without being killed

ASSUME NetAssumption ==
  /\ MaxNodes \in Nat \ {0} /\ MaxCopies \in Nat
  /\ Stamps \subseteq Nat /\ 0 \in Stamps
  /\ MaxLeave \in Nat

\* Clipboards and copies are numbered as they come.
Nodes == 1..MaxNodes
Copies == 1..MaxCopies
None == 0             \* no copy, no connection, -1

VARIABLES
  state,                \* state[n]: not started, running, gone
  conn,                 \* conn[n]: the clipboards in n's connections array
  joining,              \* joining[n]: whom n's listener has greeted and not put in a slot
  val,                  \* val[n]: the copy in the memory of n
  apc, home, recvAt,    \* apc[k]: where the slave of the application that copies k is
  held,                 \* held[a, b]: what the slave of b for a placed and not queued yet
  queue,                \* queue[n]: clipif->broadcasts
  msg, todo,            \* the broadcaster of n: its packet, the connections left
  chan,                 \* chan[a, b]: sent from a to b, not received
  owed                  \* owed[a, b]: placed at a while b was in a slot (for the properties)

members == <<state, conn, joining>>
apps == <<apc, home, recvAt>>
cast == <<msg, todo>>
netVars == <<members, val, apps, held, queue, cast, chan, owed>>

Links == {l \in Nodes \X Nodes : l[1] # l[2]}
Packets == [copy : Copies, from : Nodes \cup {None}]
NoPacket == [copy |-> None, from |-> None]

On(n) == state[n] = "on"

NetTypeOK ==
  /\ state \in [Nodes -> {"off", "on", "gone"}]
  /\ conn \in [Nodes -> SUBSET Nodes] /\ joining \in [Nodes -> Nodes \cup {None}]
  /\ val \in [Nodes -> Copies \cup {None}]
  /\ apc \in [Copies -> {"new", "placed", "end"}]
  /\ home \in [Copies -> Nodes \cup {None}] /\ recvAt \in [Copies -> Stamps]
  /\ held \in [Links -> Copies \cup {None}]
  /\ queue \in [Nodes -> Seq(Packets)]
  /\ msg \in [Nodes -> Packets \cup {NoPacket}]
  /\ todo \in [Nodes -> SUBSET Nodes]
  /\ \A n \in Nodes : todo[n] \subseteq conn[n] /\ (msg[n] = NoPacket => todo[n] = {})
  /\ chan \in [Links -> Seq(Copies)]
  /\ owed \in [Links -> SUBSET Copies]

NetInit ==
  /\ state = [n \in Nodes |-> IF n = 1 THEN "on" ELSE "off"]
  /\ conn = [n \in Nodes |-> {}] /\ joining = [n \in Nodes |-> None]
  /\ val = [n \in Nodes |-> None]
  /\ apc = [k \in Copies |-> "new"]
  /\ home = [k \in Copies |-> None] /\ recvAt = [k \in Copies |-> 0]
  /\ held = [l \in Links |-> None]
  /\ queue = [n \in Nodes |-> <<>>]
  /\ msg = [n \in Nodes |-> NoPacket] /\ todo = [n \in Nodes |-> {}]
  /\ chan = [l \in Links |-> <<>>]
  /\ owed = [l \in Links |-> {}]
-----------------------------------------------------------------------------
(* Joining: clipif_init of the new clipboard, clipif_listen of the other   *)

\* Packets still queued at a that came from a socket that is closed: of a clipboard that
\* left, or of applications that are served.  They pass for packets of b if b gets
\* its descriptor (clipif.c:141).
Orphans(a, b) ==
  {{p \in Packets : p.from = old} : old \in Nodes \ (conn[a] \cup {a, b})}
  \cup {{[copy |-> k, from |-> None] : k \in K} : K \in SUBSET {k \in Copies : apc[k] = "end"}}

Renamed(p, orphans, b) == IF p \in orphans THEN [p EXCEPT !.from = b] ELSE p

\* The listener of a accepts b and greets it with the time, which b waits for in
\* clipif_init; then b starts its threads.  a's data it is not sent.
Join(a, b) ==
  /\ On(a) /\ state[b] = "off" /\ \A c \in 1..b - 1 : state[c] # "off"
  /\ joining[a] = None
  /\ joining' = [joining EXCEPT ![a] = b]
  /\ state' = [state EXCEPT ![b] = "on"]
  /\ conn' = [conn EXCEPT ![b] = {a}]
  /\ \E orphans \in Orphans(a, b) :
       /\ queue' = [queue EXCEPT ![a] = [i \in DOMAIN @ |-> Renamed(@[i], orphans, b)]]
       /\ msg' = [msg EXCEPT ![a] = Renamed(@, orphans, b)]
  /\ UNCHANGED <<val, apps, held, todo, chan, owed>>

\* b's slot is filled: one the broadcaster still has to visit, or not.
Fill(a) ==
  LET b == joining[a] IN
  /\ On(a) /\ b # None
  /\ joining' = [joining EXCEPT ![a] = None]
  /\ conn' = [conn EXCEPT ![a] = @ \cup {b}]
  /\ todo' \in {todo} \cup
       (IF msg[a] # NoPacket /\ msg[a].from # b THEN {[todo EXCEPT ![a] = @ \cup {b}]} ELSE {})
  /\ UNCHANGED <<state, val, apps, held, queue, msg, chan, owed>>
-----------------------------------------------------------------------------
(* mem_put                                                                 *)

\* Mutant: the newest copy does not win, the last one does.
OlderNever(n, t) == FALSE

\* What n holds is newer than the time stamp t.
Older(n, t) == val[n] # None /\ recvAt[val[n]] > t

Put(n, k) ==
  /\ val' = [val EXCEPT ![n] = k]
  /\ owed' = [l \in Links |-> IF l[1] = n /\ l[2] \in conn[n] THEN owed[l] \cup {k} ELSE owed[l]]
-----------------------------------------------------------------------------
(* appif_slave, PACKET_REQUEST_COPY                                        *)

\* An application of n copies k.  The stamp was read some time before mem_put.
AppPlace(k, n, t) ==
  /\ apc[k] = "new" /\ \A j \in 1..k - 1 : apc[j] # "new"
  /\ On(n)
  /\ home' = [home EXCEPT ![k] = n] /\ recvAt' = [recvAt EXCEPT ![k] = t]
  /\ IF Older(n, t) THEN apc' = [apc EXCEPT ![k] = "end"] /\ UNCHANGED <<val, owed>>
     ELSE apc' = [apc EXCEPT ![k] = "placed"] /\ Put(n, k)
  /\ UNCHANGED <<members, held, queue, cast, chan>>

AppQueue(k) ==
  /\ apc[k] = "placed"
  /\ apc' = [apc EXCEPT ![k] = "end"]
  /\ queue' = [queue EXCEPT ![home[k]] = Append(@, [copy |-> k, from |-> None])]
  /\ UNCHANGED <<members, val, home, recvAt, held, cast, chan, owed>>
-----------------------------------------------------------------------------
(* clipif_slave of b for its neighbour a                                   *)

Received(a, b) == On(b) /\ a \in conn[b] /\ held[<<a, b>>] = None /\ chan[<<a, b>>] # <<>>

\* A copy arrives and mem_put refuses it.
SlaveRefused(a, b) ==
  /\ Received(a, b)
  /\ Older(b, recvAt[Head(chan[<<a, b>>])])
  /\ chan' = [chan EXCEPT ![<<a, b>>] = Tail(@)]
  /\ UNCHANGED <<members, val, apps, held, queue, cast, owed>>

SlavePlace(a, b) ==
  /\ Received(a, b)
  /\ ~Older(b, recvAt[Head(chan[<<a, b>>])])
  /\ Put(b, Head(chan[<<a, b>>]))
  /\ held' = [held EXCEPT ![<<a, b>>] = Head(chan[<<a, b>>])]
  /\ chan' = [chan EXCEPT ![<<a, b>>] = Tail(@)]
  /\ UNCHANGED <<members, apps, queue, cast>>

\* Mutant: what came from a neighbour is not passed on.
SlaveQueueNot(a, b) ==
  /\ held[<<a, b>>] # None
  /\ held' = [held EXCEPT ![<<a, b>>] = None]
  /\ UNCHANGED <<members, val, apps, queue, cast, chan, owed>>

SlaveQueue(a, b) ==
  /\ held[<<a, b>>] # None
  /\ queue' = [queue EXCEPT ![b] = Append(@, [copy |-> held[<<a, b>>], from |-> a])]
  /\ held' = [held EXCEPT ![<<a, b>>] = None]
  /\ UNCHANGED <<members, val, apps, cast, chan, owed>>

\* Mutant: the slot of a connection that ended is not freed.
SlaveEndKeepsSlot(a, b) ==
  /\ On(b) /\ a \in conn[b] /\ state[a] = "gone"
  /\ held[<<a, b>>] = None /\ chan[<<a, b>>] = <<>>
  /\ UNCHANGED netVars

\* PACKET_GOODBYE or the end of file: b goes on, as a root if a was its parent.
SlaveEnd(a, b) ==
  /\ On(b) /\ a \in conn[b] /\ state[a] = "gone"
  /\ held[<<a, b>>] = None /\ chan[<<a, b>>] = <<>>
  /\ conn' = [conn EXCEPT ![b] = @ \ {a}]
  /\ todo' = [todo EXCEPT ![b] = @ \ {a}]
  /\ owed' = [owed EXCEPT ![<<b, a>>] = {}]
  /\ UNCHANGED <<state, joining, val, apps, held, queue, msg, chan>>
-----------------------------------------------------------------------------
(* The end of n, as its neighbours see it: of what it had sent they may    *)
(* get any prefix.                                                         *)

Gone(n) ==
  /\ state' = [state EXCEPT ![n] = "gone"]
  /\ conn' = [conn EXCEPT ![n] = {}] /\ joining' = [joining EXCEPT ![n] = None]
  /\ val' = [val EXCEPT ![n] = None]
  /\ apc' = [k \in Copies |-> IF apc[k] = "placed" /\ home[k] = n THEN "end" ELSE apc[k]]
  /\ held' = [l \in Links |-> IF l[2] = n THEN None ELSE held[l]]
  /\ queue' = [queue EXCEPT ![n] = <<>>]
  /\ msg' = [msg EXCEPT ![n] = NoPacket] /\ todo' = [todo EXCEPT ![n] = {}]
  /\ \E got \in [Nodes -> 0..Cardinality(Copies)] :
       /\ \A m \in Nodes \ {n} : got[m] <= Len(chan[<<n, m>>])
       /\ got[n] = 0
       /\ chan' = [l \in Links |-> IF l[1] = n THEN SubSeq(chan[l], 1, got[l[2]])
                                   ELSE IF l[2] = n THEN <<>> ELSE chan[l]]
  /\ owed' = [l \in Links |-> IF n \in {l[1], l[2]} THEN {} ELSE owed[l]]
  /\ UNCHANGED <<home, recvAt>>

\* The end of a clipboard in one step: that its memory is emptied by mem_finish
\* while its threads still run (clipboard.c:198-204) is in ClMem.  Bounded by MaxLeave.
Leave(n) ==
  /\ On(n)
  /\ Cardinality({m \in Nodes : state[m] = "gone"}) < MaxLeave
  /\ Gone(n)
-----------------------------------------------------------------------------
(* clipif_broadcast of n                                                   *)

\* Mutant: a packet is sent back to where it came from.
TargetsAll(n, p) == conn[n]

Targets(n, p) == conn[n] \ {p.from}

BroadcastPop(n) ==
  /\ msg[n] = NoPacket /\ queue[n] # <<>>
  /\ msg' = [msg EXCEPT ![n] = Head(queue[n])]
  /\ todo' = [todo EXCEPT ![n] = Targets(n, Head(queue[n]))]
  /\ queue' = [queue EXCEPT ![n] = Tail(@)]
  /\ UNCHANGED <<members, val, apps, held, chan, owed>>

\* Mutant: the other connections are forgotten after the first one.
BroadcastSendOne(n, m) ==
  /\ m \in todo[n]
  /\ chan' = IF On(m) THEN [chan EXCEPT ![<<n, m>>] = Append(@, msg[n].copy)] ELSE chan
  /\ todo' = [todo EXCEPT ![n] = {}]
  /\ UNCHANGED <<members, val, apps, held, queue, msg, owed>>

BroadcastSend(n, m) ==
  /\ m \in todo[n]
  /\ chan' = IF On(m) THEN [chan EXCEPT ![<<n, m>>] = Append(@, msg[n].copy)] ELSE chan
  /\ todo' = [todo EXCEPT ![n] = @ \ {m}]
  /\ UNCHANGED <<members, val, apps, held, queue, msg, owed>>

\* m has left: SIGPIPE, which nothing in the program handles.
BroadcastKilled(n, m) ==
  /\ m \in todo[n] /\ ~On(m)
  /\ Gone(n)

\* Mutant: the packet is freed at once.
BroadcastDoneEarly(n) ==
  /\ msg[n] # NoPacket
  /\ msg' = [msg EXCEPT ![n] = NoPacket]
  /\ UNCHANGED <<members, val, apps, held, queue, todo, chan, owed>>

BroadcastDone(n) ==
  /\ msg[n] # NoPacket /\ todo[n] = {}
  /\ msg' = [msg EXCEPT ![n] = NoPacket]
  /\ UNCHANGED <<members, val, apps, held, queue, todo, chan, owed>>
-----------------------------------------------------------------------------
Slave(a, b) == SlaveRefused(a, b) \/ SlavePlace(a, b) \/ SlaveQueue(a, b) \/ SlaveEnd(a, b)
Broadcast(n) ==
  \/ BroadcastPop(n)
  \/ \E m \in Nodes : BroadcastSend(n, m) \/ BroadcastKilled(n, m)
  \/ BroadcastDone(n)

NetNext ==
  \/ \E l \in Links : Join(l[1], l[2])
  \/ \E n \in Nodes : Fill(n) \/ Leave(n) \/ Broadcast(n)
  \/ \E k \in Copies : AppQueue(k) \/ \E n \in Nodes, t \in Stamps : AppPlace(k, n, t)
  \/ \E l \in Links : Slave(l[1], l[2])

NetSpec == NetInit /\ [][NetNext]_netVars

\* Every thread that can go on does; nobody need copy, join or leave.  That handling
\* a copy and sending it always end is so only with the applications there are here,
\* which copy, and with peers that read: one that calls mem_wait can keep mem_put
\* waiting for ever (clmem.c:54, 95), and with it the slave of a neighbour
\* (clipif.c:263), a peer that does not read the broadcaster (clipif.c:142), and the
\* listener may keep clipif->lock (clipif.c:388).
NetFairness ==
  /\ \A k \in Copies : WF_netVars(AppQueue(k))
  /\ \A l \in Links : WF_netVars(Slave(l[1], l[2]))
  /\ \A n \in Nodes : WF_netVars(Fill(n)) /\ WF_netVars(Broadcast(n))

FairNetSpec == NetSpec /\ NetFairness
-----------------------------------------------------------------------------
(* Properties.                                                             *)

\* n holds k or something as new.
AsNewAs(n, k) == val[n] # None /\ recvAt[val[n]] >= recvAt[k]

\* k is on its way over the link from a to b, or at a and going to be.
Coming(k, a, b) ==
  \/ apc[k] = "placed" /\ home[k] = a
  \/ \E c \in conn[a] \ {b} : held[<<c, a>>] = k
  \/ \E i \in DOMAIN queue[a] : queue[a][i].copy = k /\ queue[a][i].from # b
  \/ msg[a] # NoPacket /\ msg[a].copy = k /\ b \in todo[a]
  \/ \E i \in DOMAIN chan[<<a, b>>] : chan[<<a, b>>][i] = k

\* What a clipboard places while a neighbour is in one of its slots, the neighbour
\* has or is going to get, or has something as new: although between mem_put and
\* clipif_add_broadcast other slaves place and queue their copies in any order
\* (clipif.c:263-271, appif.c:207-231), the broadcaster may be halfway through the
\* slots when the neighbour gets one, and its descriptor may be that of another
\* connection from which packets are still queued (clipif.c:137-145).
Delivery ==
  \A l \in Links : LET a == l[1] b == l[2] IN
    On(a) /\ On(b) => \A k \in owed[l] : AsNewAs(b, k) \/ Coming(k, a, b)

\* Whatever a neighbour sent, it still has or has replaced by something as new,
\* as long as it runs: the reason why nothing is sent back to where it came from
\* (clipif.c:137-141).
SenderHas ==
  \A l \in Links : LET a == l[1] b == l[2] IN
    \A k \in Copies :
      /\ On(a)
      /\ held[<<a, b>>] = k \/ \E i \in DOMAIN chan[<<a, b>>] : chan[<<a, b>>][i] = k
      => AsNewAs(a, k)

\* No copy comes back to where it was made: a clipboard does not send it to the
\* connection it is from (clipif.c:141), and the connections form a forest, also
\* after clipboards left and others joined.
NoReturn == \A l \in Links : \A i \in DOMAIN chan[l] : home[chan[l][i]] # l[2]

\* Nothing is under way, and nobody is connected with one that left.
Quiet ==
  /\ \A k \in Copies : apc[k] \in {"new", "end"}
  /\ \A l \in Links : held[l] = None /\ chan[l] = <<>>
  /\ \A n \in Nodes : queue[n] = <<>> /\ msg[n] = NoPacket
  /\ \A n \in Nodes : joining[n] = None /\ \A m \in conn[n] : On(m) /\ n \in conn[m]

\* At rest two neighbours that each placed what they hold while connected with the
\* other hold copies of the same time: the same copy, unless two have the same time
\* stamp, when clmem.c:98 takes the later arrival.  (Nothing is said of what was
\* there before: whoever joins is not sent it, clipif.c:365.)
Agreement ==
  Quiet =>
    \A l \in Links : LET a == l[1] b == l[2] IN
      val[a] \in owed[<<a, b>>] /\ val[b] \in owed[<<b, a>>] => recvAt[val[a]] = recvAt[val[b]]

\* The flood dies out, whatever is refused on the way, although each clipboard
\* takes again a copy it already holds (clmem.c:98); and those who left are
\* forgotten.  (As long as nobody calls mem_wait and every peer reads: NetFairness.)
Settles == <>[]Quiet
=============================================================================
