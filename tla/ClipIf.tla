------------------------------- MODULE ClipIf -------------------------------
(***************************************************************************)
(* interfaces/clipif.c: connections of clipboards.  As in AppIf a listener *)
(* starts slave threads in slots and the main thread ends them, but here   *)
(* a broadcaster also walks through the slots, so each slot has a lock of  *)
(* its own, and a clipboard without a parent runs a clock thread.          *)
(*                                                                         *)
(* A connection c is also its slave thread and its socket.  The queue is   *)
(* that of module Queue with each call one step, leaked once a producer    *)
(* was refused and kept its lock.  A send may take any time, or for ever.   *)
(* Cancellation of threads is as in AppIf.                                 *)
(***************************************************************************)
EXTENDS Naturals, Sequences, FiniteSets

CONSTANTS Conns,      \* connections, and their slave threads
          MaxClips,   \* MAX_CLIPBOARDS
          None,       \* no connection, "the lock is free", -1
          MaxPush     \* bound: broadcasts of the whole run, without the goodbye

ASSUME ClipAssumption ==
  /\ IsFiniteSet(Conns)
  /\ MaxClips \in Nat \ {0} /\ MaxPush \in Nat
  /\ None \notin Conns \cup {"listener", "main", "broadcaster"}
  /\ Conns \cap {"listener", "main", "broadcaster"} = {}

Slots == 1..MaxClips

VARIABLES
  lock, slotLock,       \* owners of clipif->lock and of connections[i].lock
  nConnections, sock, thread, parent,   \* sock_fd, recv_thread, parentSock
  pc, index, canCancel, cancelled,      \* of the slaves, as in AppIf
  clock,                \* the clock thread
  queue, terminated, leaked, pushes,    \* the broadcasts
  bpc, bslot, msg,      \* the broadcaster: place, i, msg
  apc, aslot, newConn,  \* the listener: place, *i, new_client_fd
  mpc, scan, woken,     \* the main thread
  bye                   \* connections that were sent PACKET_GOODBYE

slots == <<nConnections, sock, thread>>
slaves == <<pc, index, canCancel>>
queued == <<queue, terminated, leaked, pushes>>
broadcaster == <<bpc, bslot, msg>>
listener == <<apc, aslot, newConn>>
main == <<mpc, scan, woken>>
clipVars == <<lock, slotLock, slots, parent, slaves, cancelled, clock, queued, broadcaster, listener, main, bye>>

Broadcasts == [from : Conns \cup {None}, goodbye : BOOLEAN]

ClipTypeOK ==
  /\ lock \in Conns \cup {"listener", "main", None}
  /\ slotLock \in [Slots -> {"broadcaster", "listener", None}]
  /\ nConnections \in 0..MaxClips
  /\ sock \in [Slots -> Conns \cup {None}] /\ thread \in [Slots -> Conns \cup {None}]
  /\ parent \in Conns \cup {None}
  /\ pc \in [Conns -> {"none", "refused", "recv", "serve", "c_lock", "c_slot", "c_close",
                       "c_count", "c_signal", "end", "killed"}]
  /\ index \in [Conns -> Slots \cup {0}]
  /\ canCancel \in [Conns -> BOOLEAN]
  /\ cancelled \subseteq Conns
  /\ clock \in {"none", "sleep", "push", "end"}
  /\ queue \in Seq(Broadcasts) /\ terminated \in BOOLEAN /\ leaked \in BOOLEAN
  /\ pushes \in 0..MaxPush
  /\ bpc \in {"pop", "b_lock", "b_send", "end"} /\ bslot \in Slots /\ msg \in Broadcasts
  /\ apc \in {"accept", "a_lock", "a_body", "a_try", "a_start", "stopped"} /\ aslot \in 1..MaxClips + 1
  /\ newConn \in Conns \cup {None}
  /\ mpc \in {"run", "f_bye", "f_lock", "f_clock", "f_term", "f_join", "f_test", "f_cancel",
             "f_lock2", "f_count", "f_wait", "freed"}
  /\ scan \in 1..MaxClips + 1 /\ woken \in BOOLEAN
  /\ bye \subseteq Conns

\* clipif_init, connected to the parent p in the slot 1, or as a root.
ClipInit ==
  \E p \in Conns \cup {None} :
    /\ lock = None /\ slotLock = [i \in Slots |-> None]
    /\ nConnections = IF p = None THEN 0 ELSE 1
    /\ sock = [i \in Slots |-> IF i = 1 THEN p ELSE None]
    /\ thread = sock
    /\ parent = p
    /\ pc = [c \in Conns |-> IF c = p THEN "recv" ELSE "none"]
    /\ index = [c \in Conns |-> IF c = p THEN 1 ELSE 0]
    /\ canCancel = [c \in Conns |-> TRUE] /\ cancelled = {}
    /\ clock = IF p = None THEN "sleep" ELSE "none"
    /\ queue = <<>> /\ terminated = FALSE /\ leaked = FALSE /\ pushes = 0
    /\ bpc = "pop" /\ bslot = 1 /\ msg = [from |-> None, goodbye |-> FALSE]
    /\ apc = "accept" /\ aslot = 1 /\ newConn = None
    /\ mpc = "run" /\ scan = 1 /\ woken = FALSE
    /\ bye = {}

Goto(c, from, to) == pc[c] = from /\ pc' = [pc EXCEPT ![c] = to]
-----------------------------------------------------------------------------
(* clipif_add_broadcast, by the clock, the slaves, the slaves of AppIf.    *)

\* After queue_terminate the caller is refused and keeps the lock of the queue.
Push(m) ==
  /\ ~leaked
  /\ queue' = IF terminated THEN queue ELSE Append(queue, m)
  /\ leaked' = terminated
  /\ UNCHANGED terminated

\* Bounded by MaxPush.
PushFrom(c) ==
  /\ pushes < MaxPush
  /\ pushes' = pushes + 1
  /\ Push([from |-> c, goodbye |-> FALSE])

AppPush ==
  /\ mpc = "run"
  /\ PushFrom(None)
  /\ UNCHANGED <<lock, slotLock, slots, parent, slaves, cancelled, clock, broadcaster, listener, main, bye>>

\* clipif_clock_man: sleep is where it can be cancelled.
ClockTick ==
  /\ clock = "sleep" /\ clock' = "push"
  /\ pushes < MaxPush
  /\ UNCHANGED <<lock, slotLock, slots, parent, slaves, cancelled, queued, broadcaster, listener, main, bye>>

ClockPush ==
  /\ clock = "push" /\ clock' = "sleep"
  /\ IF pushes < MaxPush THEN PushFrom(None) ELSE UNCHANGED queued
  /\ UNCHANGED <<lock, slotLock, slots, parent, slaves, cancelled, broadcaster, listener, main, bye>>
-----------------------------------------------------------------------------
(* clipif_broadcast                                                        *)

BroadcastPop ==
  /\ bpc = "pop" /\ bpc' = "b_lock"
  /\ ~leaked /\ queue # <<>>
  /\ msg' = Head(queue)
  /\ queue' = Tail(queue)
  /\ bslot' = 1
  /\ UNCHANGED <<lock, slotLock, slots, parent, slaves, cancelled, clock, terminated, leaked, pushes, listener, main, bye>>

BroadcastEnd ==
  /\ bpc = "pop" /\ bpc' = "end"
  /\ ~leaked /\ queue = <<>> /\ terminated
  /\ UNCHANGED <<lock, slotLock, slots, parent, slaves, cancelled, clock, queued, bslot, msg, listener, main, bye>>

BroadcastLock ==
  /\ bpc = "b_lock" /\ bpc' = "b_send"
  /\ slotLock[bslot] = None
  /\ slotLock' = [slotLock EXCEPT ![bslot] = "broadcaster"]
  /\ UNCHANGED <<lock, slots, parent, slaves, cancelled, clock, queued, bslot, msg, listener, main, bye>>

Target == sock[bslot] # None /\ sock[bslot] # msg.from

\* Mutant: the last slot gets nothing.
NextSlotShort ==
  IF bslot + 1 >= MaxClips THEN bpc' = "pop" /\ UNCHANGED bslot ELSE bpc' = "b_lock" /\ bslot' = bslot + 1

NextSlot ==
  IF bslot = MaxClips THEN bpc' = "pop" /\ UNCHANGED bslot ELSE bpc' = "b_lock" /\ bslot' = bslot + 1

BroadcastSend ==
  /\ bpc = "b_send"
  /\ bye' = IF Target /\ msg.goodbye THEN bye \cup {sock[bslot]} ELSE bye
  /\ slotLock' = [slotLock EXCEPT ![bslot] = None]
  /\ NextSlot
  /\ UNCHANGED <<lock, slots, parent, slaves, cancelled, clock, queued, msg, listener, main>>
-----------------------------------------------------------------------------
(* clipif_listen                                                           *)

Accept(c) ==
  /\ apc = "accept" /\ apc' = "a_lock"
  /\ c # None => pc[c] = "none"
  /\ newConn' = c
  /\ UNCHANGED <<lock, slotLock, slots, parent, slaves, cancelled, clock, queued, broadcaster, aslot, main, bye>>

ListenLock ==
  /\ apc = "a_lock" /\ apc' = "a_body"
  /\ lock = None
  /\ lock' = "listener"
  /\ UNCHANGED <<slotLock, slots, parent, slaves, cancelled, clock, queued, broadcaster, aslot, newConn, main, bye>>

Full == nConnections >= MaxClips

\* accept failed, every slot is taken, or the hello could not be sent.
ListenRefuse ==
  /\ apc = "a_body" /\ apc' = "accept"
  /\ lock' = None
  /\ pc' = IF newConn = None THEN pc ELSE [pc EXCEPT ![newConn] = "refused"]
  /\ newConn' = None
  /\ UNCHANGED <<slotLock, slots, parent, index, canCancel, cancelled, clock, queued, broadcaster, aslot, main, bye>>

ListenHello ==
  /\ apc = "a_body" /\ apc' = "a_try"
  /\ newConn # None /\ ~Full
  /\ aslot' = 1
  /\ UNCHANGED <<lock, slotLock, slots, parent, slaves, cancelled, clock, queued, broadcaster, newConn, main, bye>>

\* Mutant: a slot in use is taken as well.
FreeSlotAny(i) == slotLock[i] = None

FreeSlot(i) == slotLock[i] = None /\ sock[i] = None

\* trylock: a slot whose lock is taken at this moment is passed over.  Past the
\* last slot the connection is closed and the lock kept (clipif.c:383-388).
ListenTry ==
  /\ apc = "a_try"
  /\ IF aslot > MaxClips
     THEN /\ apc' = "accept"
          /\ pc' = [pc EXCEPT ![newConn] = "refused"]
          /\ newConn' = None
          /\ UNCHANGED <<aslot, slotLock>>
     ELSE IF FreeSlot(aslot)
     THEN apc' = "a_start" /\ slotLock' = [slotLock EXCEPT ![aslot] = "listener"] /\ UNCHANGED <<aslot, newConn, pc>>
     ELSE aslot' = aslot + 1 /\ UNCHANGED <<apc, slotLock, newConn, pc>>
  /\ UNCHANGED <<lock, slots, parent, index, canCancel, cancelled, clock, queued, broadcaster, main, bye>>

\* Mutant: the new connection is not counted.
ListenStartLost ==
  /\ apc = "a_start" /\ apc' = "accept"
  /\ sock' = [sock EXCEPT ![aslot] = newConn]
  /\ thread' = [thread EXCEPT ![aslot] = newConn]
  /\ slotLock' = [slotLock EXCEPT ![aslot] = None]
  /\ index' = [index EXCEPT ![newConn] = aslot]
  /\ pc' = [pc EXCEPT ![newConn] = "recv"]
  /\ newConn' = None
  /\ lock' = None
  /\ UNCHANGED <<nConnections, parent, canCancel, cancelled, clock, queued, broadcaster, aslot, main, bye>>

ListenStart ==
  /\ apc = "a_start" /\ apc' = "accept"
  /\ nConnections' = nConnections + 1
  /\ sock' = [sock EXCEPT ![aslot] = newConn]
  /\ thread' = [thread EXCEPT ![aslot] = newConn]
  /\ slotLock' = [slotLock EXCEPT ![aslot] = None]
  /\ index' = [index EXCEPT ![newConn] = aslot]
  /\ pc' = [pc EXCEPT ![newConn] = "recv"]
  /\ newConn' = None
  /\ lock' = None
  /\ UNCHANGED <<parent, canCancel, cancelled, clock, queued, broadcaster, aslot, main, bye>>
-----------------------------------------------------------------------------
(* clipif_slave and clipif_close_conn                                      *)

\* A packet arrives: cancellation is disabled while it is handled.
Recv(c) ==
  /\ Goto(c, "recv", "serve")
  /\ c \notin cancelled
  /\ canCancel' = [canCancel EXCEPT ![c] = FALSE]
  /\ UNCHANGED <<lock, slotLock, slots, parent, index, cancelled, clock, queued, broadcaster, listener, main, bye>>

\* End of file or an error: cancellation stays enabled.
RecvEnd(c) ==
  /\ Goto(c, "recv", "c_lock")
  /\ c \notin cancelled
  /\ UNCHANGED <<lock, slotLock, slots, parent, index, canCancel, cancelled, clock, queued, broadcaster, listener, main, bye>>

\* Cancelled in recv: the clean-up handler runs, further cancellation is ignored.
RecvCancelled(c) ==
  /\ Goto(c, "recv", "c_lock")
  /\ c \in cancelled
  /\ canCancel' = [canCancel EXCEPT ![c] = FALSE]
  /\ UNCHANGED <<lock, slotLock, slots, parent, index, cancelled, clock, queued, broadcaster, listener, main, bye>>

\* A copy that was placed in memory, or a clock sync of the parent, is passed on.
ServePush(c) ==
  /\ Goto(c, "serve", "recv")
  /\ canCancel' = [canCancel EXCEPT ![c] = TRUE]
  /\ PushFrom(c)
  /\ UNCHANGED <<lock, slotLock, slots, parent, index, cancelled, clock, broadcaster, listener, main, bye>>

\* A copy that is older than the region, or a sync that is not of the parent.
ServeDrop(c) ==
  /\ Goto(c, "serve", "recv")
  /\ canCancel' = [canCancel EXCEPT ![c] = TRUE]
  /\ UNCHANGED <<lock, slotLock, slots, parent, index, cancelled, clock, queued, broadcaster, listener, main, bye>>

\* PACKET_GOODBYE, an unknown packet, or one cut short.
ServeLast(c) ==
  /\ Goto(c, "serve", "c_lock")
  /\ UNCHANGED <<lock, slotLock, slots, parent, index, canCancel, cancelled, clock, queued, broadcaster, listener, main, bye>>

CloseLock(c) ==
  /\ Goto(c, "c_lock", "c_slot")
  /\ lock = None
  /\ lock' = c
  /\ UNCHANGED <<slotLock, slots, parent, index, canCancel, cancelled, clock, queued, broadcaster, listener, main, bye>>

\* Mutant: the slot is cleared without its lock.
CloseSlotNoLock(c) ==
  /\ Goto(c, "c_slot", "c_close")
  /\ sock' = [sock EXCEPT ![index[c]] = None]
  /\ UNCHANGED <<lock, slotLock, nConnections, thread, parent, index, canCancel, cancelled, clock, queued, broadcaster, listener, main, bye>>

\* Lock the slot, clear it, unlock it.
CloseSlot(c) ==
  /\ Goto(c, "c_slot", "c_close")
  /\ slotLock[index[c]] = None
  /\ sock' = [sock EXCEPT ![index[c]] = None]
  /\ UNCHANGED <<lock, slotLock, nConnections, thread, parent, index, canCancel, cancelled, clock, queued, broadcaster, listener, main, bye>>

\* CLOSE, or the end of the thread if it is cancelled there.
CloseSocket(c) ==
  /\ Goto(c, "c_close", IF canCancel[c] /\ c \in cancelled THEN "killed" ELSE "c_count")
  /\ UNCHANGED <<lock, slotLock, slots, parent, index, canCancel, cancelled, clock, queued, broadcaster, listener, main, bye>>

\* Without its parent the clipboard becomes a root and starts a clock.
BecomeRoot(c) ==
  IF parent = c THEN parent' = None /\ clock' = "sleep" ELSE UNCHANGED <<parent, clock>>

CloseCount(c) ==
  /\ Goto(c, "c_count", "c_signal")
  /\ BecomeRoot(c)
  /\ nConnections' = nConnections - 1
  /\ lock' = None
  /\ UNCHANGED <<slotLock, sock, thread, index, canCancel, cancelled, queued, broadcaster, listener, main, bye>>

\* Mutant: the main thread is not told.
CloseSilent(c) ==
  /\ Goto(c, "c_signal", "end")
  /\ UNCHANGED <<lock, slotLock, slots, parent, index, canCancel, cancelled, clock, queued, broadcaster, listener, main, bye>>

CloseSignal(c) ==
  /\ Goto(c, "c_signal", "end")
  /\ woken' = (woken \/ mpc = "f_wait")
  /\ UNCHANGED <<lock, slotLock, slots, parent, index, canCancel, cancelled, clock, queued, broadcaster, listener, mpc, scan, bye>>
-----------------------------------------------------------------------------
(* The main thread: the listener is cancelled in accept, then              *)
(* clipif_finalize.                                                        *)

Main(from, to) == mpc = from /\ mpc' = to

StopListening ==
  /\ Main("run", "f_bye")
  /\ apc = "accept" /\ apc' = "stopped"
  /\ UNCHANGED <<lock, slotLock, slots, parent, slaves, cancelled, clock, queued, broadcaster, aslot, newConn, scan, woken, bye>>

FinalizeBye ==
  /\ Main("f_bye", "f_lock")
  /\ Push([from |-> None, goodbye |-> TRUE])
  /\ UNCHANGED <<lock, slotLock, slots, parent, slaves, cancelled, clock, pushes, broadcaster, listener, scan, woken, bye>>

FinalizeLock ==
  /\ Main("f_lock", "f_clock")
  /\ lock = None
  /\ lock' = "main"
  /\ UNCHANGED <<slotLock, slots, parent, slaves, cancelled, clock, queued, broadcaster, listener, scan, woken, bye>>

\* Mutant: the link to the parent is left as it is.
FinalizeClockKeepParent ==
  /\ Main("f_clock", "f_term")
  /\ IF parent = None THEN clock = "sleep" /\ clock' = "end" ELSE UNCHANGED clock
  /\ lock' = None
  /\ UNCHANGED <<slotLock, slots, parent, slaves, cancelled, queued, broadcaster, listener, scan, woken, bye>>

\* A root cancels and joins its clock; a child gives up its parent, so that the
\* slave that closes that connection will not start a clock.
FinalizeClock ==
  /\ Main("f_clock", "f_term")
  /\ IF parent = None THEN clock = "sleep" /\ clock' = "end" ELSE UNCHANGED clock
  /\ parent' = None
  /\ lock' = None
  /\ UNCHANGED <<slotLock, slots, slaves, cancelled, queued, broadcaster, listener, scan, woken, bye>>

FinalizeTerminate ==
  /\ Main("f_term", "f_join")
  /\ terminated' = TRUE
  /\ UNCHANGED <<lock, slotLock, slots, parent, slaves, cancelled, clock, queue, leaked, pushes, broadcaster, listener, scan, woken, bye>>

FinalizeJoin ==
  /\ Main("f_join", "f_test")
  /\ bpc = "end"
  /\ UNCHANGED <<lock, slotLock, slots, parent, slaves, cancelled, clock, queued, broadcaster, listener, scan, woken, bye>>

\* The slot is looked at with its lock, its thread is cancelled without it.
FinalizeTest ==
  /\ IF scan > MaxClips THEN Main("f_test", "f_lock2") /\ UNCHANGED scan
     ELSE IF sock[scan] # None THEN Main("f_test", "f_cancel") /\ UNCHANGED scan
     ELSE Main("f_test", "f_test") /\ scan' = scan + 1
  /\ scan \in Slots => slotLock[scan] = None
  /\ UNCHANGED <<lock, slotLock, slots, parent, slaves, cancelled, clock, queued, broadcaster, listener, woken, bye>>

FinalizeCancel ==
  /\ Main("f_cancel", "f_test")
  /\ cancelled' = cancelled \cup {thread[scan]}
  /\ scan' = scan + 1
  /\ UNCHANGED <<lock, slotLock, slots, parent, slaves, clock, queued, broadcaster, listener, woken, bye>>

FinalizeLockAgain ==
  /\ Main("f_lock2", "f_count")
  /\ lock = None
  /\ lock' = "main"
  /\ UNCHANGED <<slotLock, slots, parent, slaves, cancelled, clock, queued, broadcaster, listener, scan, woken, bye>>

FinalizeWait ==
  /\ Main("f_count", "f_wait")
  /\ nConnections > 0
  /\ woken' = FALSE
  /\ lock' = None
  /\ UNCHANGED <<slotLock, slots, parent, slaves, cancelled, clock, queued, broadcaster, listener, scan, bye>>

FinalizeWake ==
  /\ Main("f_wait", "f_lock2")
  /\ woken' = FALSE
  /\ UNCHANGED <<lock, slotLock, slots, parent, slaves, cancelled, clock, queued, broadcaster, listener, scan, bye>>

\* The locks are destroyed, the queue and clipif are freed.
FinalizeFree ==
  /\ Main("f_count", "freed")
  /\ nConnections = 0
  /\ lock' = None
  /\ UNCHANGED <<slotLock, slots, parent, slaves, cancelled, clock, queued, broadcaster, listener, scan, woken, bye>>
-----------------------------------------------------------------------------
Broadcaster == BroadcastPop \/ BroadcastEnd \/ BroadcastLock \/ BroadcastSend

Listen == ListenLock \/ ListenRefuse \/ ListenHello \/ ListenTry \/ ListenStart

Close(c) == CloseLock(c) \/ CloseSlot(c) \/ CloseSocket(c) \/ CloseCount(c) \/ CloseSignal(c)

Serve(c) == ServePush(c) \/ ServeDrop(c) \/ ServeLast(c)

Finalize == \/ FinalizeBye \/ FinalizeLock \/ FinalizeClock \/ FinalizeTerminate \/ FinalizeJoin
            \/ FinalizeTest \/ FinalizeCancel \/ FinalizeLockAgain \/ FinalizeWait
            \/ (woken /\ FinalizeWake) \/ FinalizeFree

ClipNext ==
  \/ AppPush \/ ClockTick \/ ClockPush \/ Broadcaster
  \/ \E c \in Conns \cup {None} : Accept(c)
  \/ Listen
  \/ \E c \in Conns : Recv(c) \/ RecvEnd(c) \/ RecvCancelled(c) \/ Serve(c) \/ Close(c)
  \/ StopListening \/ Finalize \/ FinalizeWake

ClipSpec == ClipInit /\ [][ClipNext]_clipVars

\* A thread that can run again and again runs: no thread is kept for ever from a
\* lock that others take and give back.  Peers need not send anything, nor read:
\* sendData may block (clipif.c:142).  A packet need not be handled in the end: the
\* rest of it may not come (clipif.c:211, 238, 254), mem_put may wait behind a read
\* lock that mem_wait keeps (clmem.c:54, 95; clipif.c:263), and queue_push when the
\* lock of the queue is leaked.
ClipFairness ==
  /\ SF_clipVars(BroadcastPop \/ BroadcastEnd \/ BroadcastLock \/ (~Target /\ BroadcastSend))
  /\ SF_clipVars(Finalize)
  /\ WF_clipVars(Listen) /\ WF_clipVars(ClockPush)
  /\ \A c \in Conns : SF_clipVars(RecvCancelled(c) \/ Close(c))

FairClipSpec == ClipSpec /\ ClipFairness
-----------------------------------------------------------------------------
(* Properties.                                                             *)

\* n_connections counts the slots in use and the slave that has cleared its
\* slot and not counted itself out yet (clipif.c:79-106); a slot in use belongs
\* to the one slave that was given its index.
InSlot(c) == pc[c] \in {"recv", "serve", "c_lock", "c_slot"}
Used == {i \in Slots : sock[i] # None}
Leaving == {c \in Conns : pc[c] \in {"c_close", "c_count", "killed"}}
SlotAccounting ==
  /\ nConnections = Cardinality(Used) + Cardinality(Leaving)
  /\ \A i \in Slots, c \in Conns : sock[i] = c <=> InSlot(c) /\ index[c] = i

\* clipif.c:139 "Ensure that the socket descriptor in index i does not change":
\* between the test of the slot and the end of sendData its socket is open.
\* The broadcaster sends to whom it saw, whatever slaves and listener do.
SendStable == [][bpc = "b_send" => sock'[bslot] = sock[bslot]]_clipVars

\* A clipboard without a parent has one clock thread, one with a parent none
\* (clipif.c:95-101, 447-495), and finalize leaves none behind, although the
\* parent may hang up meanwhile (clipif.c:519-532).
Finalizing == mpc \notin {"run", "f_bye", "f_lock", "f_clock"}
OneClock ==
  IF Finalizing THEN clock \in {"none", "end"} ELSE parent = None <=> clock \in {"sleep", "push"}

\* Whoever is connected when the broadcaster ends was sent PACKET_GOODBYE
\* (clipif.c:509-540), unless it was the broadcaster that could not go on.
GoodbyeSent == bpc = "end" => \A i \in Slots : sock[i] # None => sock[i] \in bye

\* If no slave is stuck in a packet and the broadcaster not in a send, clipif_finalize
\* ends, unless a lock was lost on the way: by a slave that was cancelled in close,
\* by one that was refused by the queue, or by the listener.
PacketsEnd == \A c \in Conns : []<>(pc[c] # "serve")
SendsEnd == []<>(bpc # "b_send")
LockLost == leaked \/ (lock = "listener" /\ apc \in {"accept", "a_lock", "stopped"})
FinalizeEnds ==
  PacketsEnd /\ SendsEnd =>
    (mpc = "f_bye" ~> mpc = "freed" \/ LockLost \/ \E c \in Conns : pc[c] = "killed")

\* clipif.c:558 "Wait for all slaves to finish": when clipif is freed no slave,
\* and not the broadcaster, will lock it or change it any more.  (A slave may
\* still be about to signal slaveFinished, clipif.c:107-108.)
FreedUnused ==
  mpc = "freed" => /\ bpc = "end"
                   /\ \A c \in Conns : pc[c] \in {"none", "refused", "c_signal", "end"}
=============================================================================
