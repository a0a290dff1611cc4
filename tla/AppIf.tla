-------------------------------- MODULE AppIf --------------------------------
(***************************************************************************)
(* interfaces/appif.c: connections of applications.  The listener accepts  *)
(* a connection, takes a free slot and starts a slave thread; the slave    *)
(* serves requests and, at the end, gives the slot back; the main thread   *)
(* stops the listener (clipboard.c:183-188) and runs appif_finalize, which *)
(* cancels the slaves and waits until nobody is connected.                 *)
(*                                                                         *)
(* A connection c is also its slave thread and its socket: it is used      *)
(* once, so Conns bounds how many applications ever connect.  pc[c] is     *)
(* where the slave is, mpc where the main thread is, apc the listener.     *)
(* Serving a request is one step here: ClMem and Queue are inside it.      *)
(* Thread cancellation is deferred: a cancelled thread ends at its next    *)
(* cancellation point (recv, accept, close) unless it disabled that.       *)
(***************************************************************************)
EXTENDS Naturals, FiniteSets

CONSTANTS Conns,      \* connections, and their slave threads
          MaxApps,    \* MAX_APPS
          None        \* no connection, "the lock is free"

ASSUME AppAssumption ==
  /\ IsFiniteSet(Conns)
  /\ MaxApps \in Nat
  /\ None \notin Conns /\ "listener" \notin Conns /\ "main" \notin Conns
  /\ None \notin {"listener", "main"}

Slots == 1..MaxApps

VARIABLES
  lock,          \* owner of appif->lock
  nConnections,  \* n_connections
  sock,          \* sock[i]: sock_fd of the slot i, None when it is 0
  thread,        \* thread[i]: comm_thread of the slot i
  pc, index,     \* of the slaves: place, and the slot passed to the thread
  canCancel,     \* canCancel[c]: cancellation is enabled in the slave c
  cancelled,     \* slaves that pthread_cancel was called on
  apc, newConn,  \* of the listener: place, and new_client_fd
  mpc, scan,     \* of the main thread: place, and i in appif_finalize
  woken          \* the main thread was signalled on slaveFinished

slaveVars == <<pc, index, canCancel>>
listenVars == <<apc, newConn>>
mainVars == <<mpc, scan>>
appVars == <<lock, nConnections, sock, thread, slaveVars, cancelled, listenVars, mainVars, woken>>

SlavePlaces == {"none", "refused", "recv", "serve", "leave", "c_lock", "c_count", "c_close",
                "c_slot", "c_unlock", "c_signal", "end", "killed"}

AppTypeOK ==
  /\ lock \in Conns \cup {"listener", "main", None}
  /\ nConnections \in 0..MaxApps
  /\ sock \in [Slots -> Conns \cup {None}]
  /\ thread \in [Slots -> Conns \cup {None}]
  /\ pc \in [Conns -> SlavePlaces]
  /\ index \in [Conns -> Slots \cup {0}]
  /\ canCancel \in [Conns -> BOOLEAN]
  /\ cancelled \subseteq Conns
  /\ apc \in {"accept", "a_lock", "a_body", "dead", "stopped"}
  /\ newConn \in Conns \cup {None}
  /\ mpc \in {"run", "f_test", "f_cancel", "f_lock", "f_count", "f_wait", "f_free", "freed"}
  /\ scan \in 1..MaxApps + 1
  /\ woken \in BOOLEAN

\* appif_init
AppInit ==
  /\ lock = None /\ nConnections = 0
  /\ sock = [i \in Slots |-> None] /\ thread = [i \in Slots |-> None]
  /\ pc = [c \in Conns |-> "none"] /\ index = [c \in Conns |-> 0]
  /\ canCancel = [c \in Conns |-> TRUE]
  /\ cancelled = {}
  /\ apc = "accept" /\ newConn = None
  /\ mpc = "run" /\ scan = 1
  /\ woken = FALSE

Goto(c, from, to) == pc[c] = from /\ pc' = [pc EXCEPT ![c] = to]
-----------------------------------------------------------------------------
(* The listener.  It can be cancelled in accept only.                      *)

\* accept brings a connection that is not served yet, or fails (None).
Accept(c) ==
  /\ apc = "accept" /\ apc' = "a_lock"
  /\ c # None => pc[c] = "none"
  /\ newConn' = c
  /\ UNCHANGED <<lock, nConnections, sock, thread, slaveVars, cancelled, mainVars, woken>>

ListenLock ==
  /\ apc = "a_lock" /\ apc' = "a_body"
  /\ lock = None
  /\ lock' = "listener"
  /\ UNCHANGED <<nConnections, sock, thread, slaveVars, cancelled, newConn, mainVars, woken>>

Full == nConnections >= MaxApps
Free == {i \in Slots : sock[i] = None}

\* A failed accept, or every slot taken: the new socket is closed.
ListenRefuse ==
  /\ apc = "a_body" /\ apc' = "accept"
  /\ newConn = None \/ Full
  /\ lock' = None
  /\ pc' = IF newConn = None THEN pc ELSE [pc EXCEPT ![newConn] = "refused"]
  /\ newConn' = None
  /\ UNCHANGED <<nConnections, sock, thread, index, canCancel, cancelled, mainVars, woken>>

\* The slave is started in the first free slot.  "This wont happen" (line 309):
\* with no free slot the listener would end, and keep the lock.
ListenStart ==
  /\ apc = "a_body" /\ newConn # None /\ ~Full
  /\ IF Free = {}
     THEN apc' = "dead" /\ UNCHANGED <<lock, nConnections, sock, thread, pc, index, newConn>>
     ELSE \E i \in Free :
             /\ \A j \in Free : i <= j
             /\ sock' = [sock EXCEPT ![i] = newConn]
             /\ thread' = [thread EXCEPT ![i] = newConn]
             /\ index' = [index EXCEPT ![newConn] = i]
             /\ nConnections' = nConnections + 1
             /\ pc' = [pc EXCEPT ![newConn] = "recv"]
             /\ newConn' = None
             /\ lock' = None
             /\ apc' = "accept"
  /\ UNCHANGED <<canCancel, cancelled, mainVars, woken>>
-----------------------------------------------------------------------------
(* A slave.                                                                *)

\* A request arrives: cancellation is disabled while it is served.
Recv(c) ==
  /\ Goto(c, "recv", "serve")
  /\ c \notin cancelled
  /\ canCancel' = [canCancel EXCEPT ![c] = FALSE]
  /\ UNCHANGED <<lock, nConnections, sock, thread, index, cancelled, listenVars, mainVars, woken>>

\* End of file or an error: the loop ends with cancellation still enabled.
RecvEnd(c) ==
  /\ Goto(c, "recv", "c_lock")
  /\ c \notin cancelled
  /\ UNCHANGED <<lock, nConnections, sock, thread, index, canCancel, cancelled, listenVars, mainVars, woken>>

\* Cancelled in recv: the clean-up handler is appif_close_conn, run by a thread
\* that ignores further cancellation.
RecvCancelled(c) ==
  /\ Goto(c, "recv", "c_lock")
  /\ c \in cancelled
  /\ canCancel' = [canCancel EXCEPT ![c] = FALSE]
  /\ UNCHANGED <<lock, nConnections, sock, thread, index, cancelled, listenVars, mainVars, woken>>

\* The request was served, with a response that could be sent.
Served(c) ==
  /\ Goto(c, "serve", "recv")
  /\ canCancel' = [canCancel EXCEPT ![c] = TRUE]
  /\ UNCHANGED <<lock, nConnections, sock, thread, index, cancelled, listenVars, mainVars, woken>>

\* PACKET_GOODBYE, a request cut short, or a response that could not be sent.
ServedLast(c) ==
  /\ Goto(c, "serve", "c_lock")
  /\ UNCHANGED <<lock, nConnections, sock, thread, index, canCancel, cancelled, listenVars, mainVars, woken>>

(* appif_close_conn *)

CloseLock(c) ==
  /\ Goto(c, "c_lock", "c_count")
  /\ lock = None
  /\ lock' = c
  /\ UNCHANGED <<nConnections, sock, thread, index, canCancel, cancelled, listenVars, mainVars, woken>>

CloseCount(c) ==
  /\ Goto(c, "c_count", "c_close")
  /\ nConnections' = nConnections - 1
  /\ UNCHANGED <<lock, sock, thread, index, canCancel, cancelled, listenVars, mainVars, woken>>

\* CLOSE: close is a cancellation point.
CloseSocket(c) ==
  /\ Goto(c, "c_close", "c_slot")
  /\ ~(canCancel[c] /\ c \in cancelled)
  /\ UNCHANGED <<lock, nConnections, sock, thread, index, canCancel, cancelled, listenVars, mainVars, woken>>

\* The handler is not installed any more: the thread just ends, with the lock.
CloseCancelled(c) ==
  /\ Goto(c, "c_close", "killed")
  /\ canCancel[c] /\ c \in cancelled
  /\ UNCHANGED <<lock, nConnections, sock, thread, index, canCancel, cancelled, listenVars, mainVars, woken>>

\* Mutant: the slave does not free its slot.
CloseSlotKept(c) ==
  /\ Goto(c, "c_slot", "c_unlock")
  /\ UNCHANGED <<lock, nConnections, sock, thread, index, canCancel, cancelled, listenVars, mainVars, woken>>

\* Mutant: the connection is counted out twice.
CloseSlotTwice(c) ==
  /\ Goto(c, "c_slot", "c_unlock")
  /\ sock' = [sock EXCEPT ![index[c]] = None]
  /\ nConnections' = nConnections - 1
  /\ UNCHANGED <<lock, thread, index, canCancel, cancelled, listenVars, mainVars, woken>>

CloseSlot(c) ==
  /\ Goto(c, "c_slot", "c_unlock")
  /\ sock' = [sock EXCEPT ![index[c]] = None]
  /\ UNCHANGED <<lock, nConnections, thread, index, canCancel, cancelled, listenVars, mainVars, woken>>

\* Mutant: the lock is kept.
CloseUnlockLost(c) ==
  /\ Goto(c, "c_unlock", "c_signal")
  /\ UNCHANGED <<lock, nConnections, sock, thread, index, canCancel, cancelled, listenVars, mainVars, woken>>

CloseUnlock(c) ==
  /\ Goto(c, "c_unlock", "c_signal")
  /\ lock' = None
  /\ UNCHANGED <<nConnections, sock, thread, index, canCancel, cancelled, listenVars, mainVars, woken>>

\* Mutant: the main thread is not told.
CloseSilent(c) ==
  /\ Goto(c, "c_signal", "end")
  /\ UNCHANGED <<lock, nConnections, sock, thread, index, canCancel, cancelled, listenVars, mainVars, woken>>

CloseSignal(c) ==
  /\ Goto(c, "c_signal", "end")
  /\ woken' = (woken \/ mpc = "f_wait")
  /\ UNCHANGED <<lock, nConnections, sock, thread, index, canCancel, cancelled, listenVars, mainVars>>

-----------------------------------------------------------------------------
(* The main thread.                                                        *)

\* pthread_cancel and pthread_join of the listener, which is in accept.
StopListening ==
  /\ mpc = "run" /\ mpc' = "f_test"
  /\ apc \in {"accept", "dead"} /\ apc' = "stopped"
  /\ UNCHANGED <<lock, nConnections, sock, thread, slaveVars, cancelled, newConn, scan, woken>>

\* for(i ...) if(sock_fd > 0), without the lock.
FinalizeTest ==
  /\ mpc = "f_test"
  /\ IF scan > MaxApps THEN mpc' = "f_lock" /\ UNCHANGED scan
     ELSE IF sock[scan] # None THEN mpc' = "f_cancel" /\ UNCHANGED scan
     ELSE scan' = scan + 1 /\ UNCHANGED mpc
  /\ UNCHANGED <<lock, nConnections, sock, thread, slaveVars, cancelled, listenVars, woken>>

\* The thread may have ended since the test (the slot is tested without the
\* lock): then nobody is cancelled, as no thread starts any more.
FinalizeCancel ==
  /\ mpc = "f_cancel" /\ mpc' = "f_test"
  /\ scan' = scan + 1
  /\ cancelled' = cancelled \cup {thread[scan]}
  /\ UNCHANGED <<lock, nConnections, sock, thread, slaveVars, listenVars, woken>>

FinalizeLock ==
  /\ mpc = "f_lock" /\ mpc' = "f_count"
  /\ lock = None
  /\ lock' = "main"
  /\ UNCHANGED <<nConnections, sock, thread, slaveVars, cancelled, listenVars, scan, woken>>

\* while(n_connections > 0) pthread_cond_wait(...)
FinalizeWait ==
  /\ mpc = "f_count" /\ mpc' = "f_wait"
  /\ nConnections > 0
  /\ lock' = None
  /\ woken' = FALSE
  /\ UNCHANGED <<nConnections, sock, thread, slaveVars, cancelled, listenVars, scan>>

FinalizeWake ==
  /\ mpc = "f_wait" /\ mpc' = "f_lock"
  /\ woken' = FALSE
  /\ UNCHANGED <<lock, nConnections, sock, thread, slaveVars, cancelled, listenVars, scan>>

FinalizeUnlock ==
  /\ mpc = "f_count" /\ mpc' = "f_free"
  /\ nConnections = 0
  /\ lock' = None
  /\ UNCHANGED <<nConnections, sock, thread, slaveVars, cancelled, listenVars, scan, woken>>

\* The condition and the mutex are destroyed, appif is freed.
FinalizeFree ==
  /\ mpc = "f_free" /\ mpc' = "freed"
  /\ UNCHANGED <<lock, nConnections, sock, thread, slaveVars, cancelled, listenVars, scan, woken>>
-----------------------------------------------------------------------------
Listen == ListenLock \/ ListenRefuse \/ ListenStart

Close(c) == \/ CloseLock(c) \/ CloseCount(c) \/ CloseSocket(c) \/ CloseCancelled(c)
            \/ CloseSlot(c) \/ CloseUnlock(c) \/ CloseSignal(c)

Slave(c) == Recv(c) \/ RecvEnd(c) \/ RecvCancelled(c) \/ Served(c) \/ ServedLast(c) \/ Close(c)

Finalize == \/ FinalizeTest \/ FinalizeCancel \/ FinalizeLock \/ FinalizeWait
            \/ (woken /\ FinalizeWake) \/ FinalizeUnlock \/ FinalizeFree

AppNext ==
  \/ \E c \in Conns \cup {None} : Accept(c)
  \/ Listen
  \/ \E c \in Conns : Slave(c)
  \/ StopListening \/ Finalize \/ FinalizeWake

AppSpec == AppInit /\ [][AppNext]_appVars

\* Threads that can run do, and a mutex is not withheld for ever from a slave
\* while others come and go.  An application need not send or hang up, and a request
\* need not be served: the rest of it may not come, with cancellation disabled
\* (appif.c:113, 145, 182, 198), mem_wait may wait for ever (appif.c:166), mem_put
\* behind a read lock that mem_wait keeps (clmem.c:54, 95), and sendData for an
\* application that does not read (appif.c:246).
AppFairness ==
  /\ WF_appVars(Listen)
  /\ WF_appVars(Finalize)
  /\ \A c \in Conns : /\ WF_appVars(RecvCancelled(c) \/ Close(c))
                      /\ SF_appVars(CloseLock(c))

FairAppSpec == AppSpec /\ AppFairness
-----------------------------------------------------------------------------
(* Properties.                                                             *)

\* The critical sections of appif->lock (appif.c:54-67, 291-322, 369-373): who
\* is inside owns the lock, and nobody else.
HoldsLock == {"c_count", "c_close", "c_slot", "c_unlock", "killed"}
LockOwner ==
  /\ \A c \in Conns : pc[c] \in HoldsLock <=> lock = c
  /\ apc = "a_body" <=> lock = "listener"
  /\ mpc = "f_count" <=> lock = "main"

\* n_connections is the number of slots in use, but for the slave that is
\* between the decrement and the clearing of its slot (appif.c:59-66), and a
\* slot belongs to the slave that was given its index.
Alive(c) == pc[c] \notin {"none", "refused", "c_unlock", "c_signal", "end"}
Used == {i \in Slots : sock[i] # None}
Leaving == {c \in Conns : pc[c] \in {"c_close", "c_slot", "killed"}}
SlotAccounting ==
  /\ nConnections + Cardinality(Leaving) = Cardinality(Used)
  /\ \A i \in Slots, c \in Conns : sock[i] = c <=> Alive(c) /\ index[c] = i
  /\ \A i \in Slots : sock[i] # None => thread[i] = sock[i]

\* appif.c:309 "This wont happen": a listener that finds the counter below the
\* maximum finds a free slot, although slots are taken and given back by many
\* threads.
NoZombie == apc = "a_body" /\ nConnections < MaxApps => Free # {}

\* If no slave is stuck in a request, appif_finalize ends unless a slave died with
\* the lock (appif.c:353-383): no slave is overlooked by the scan made without the
\* lock, and no wake-up on slaveFinished, signalled after the unlock, is lost.
RequestsEnd == \A c \in Conns : []<>(pc[c] # "serve")
FinalizeEnds == RequestsEnd => (mpc = "f_test" ~> mpc = "freed" \/ \E c \in Conns : pc[c] = "killed")

\* appif.c:366 "Wait for all slaves to finish": when appif is freed no slave
\* will lock it or change it any more.  (One may still be about to signal
\* slaveFinished, appif.c:70, which it does after it has counted itself out.)
FreedUnused == mpc = "freed" => \A c \in Conns : pc[c] \in {"none", "refused", "c_signal", "end"}
=============================================================================
