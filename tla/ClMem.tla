-------------------------------- MODULE ClMem --------------------------------
(***************************************************************************)
(* mem/clmem.c: one region of the clipboard memory, shared by the slave    *)
(* threads of the two interfaces (mem_put, mem_get, mem_wait) and the main *)
(* thread (mem_finish, mem_destroy), which do not all have finished when   *)
(* mem_finish runs (clipboard.c:198).  The ten regions do not interact.    *)
(*                                                                         *)
(* pc[t] is the place of t in clmem.c.  The loads and stores of the region *)
(* are steps of their own, taken when the lock code of RwLock has returned *)
(* (lpc[t] = "out"); only the last two stores of mem_put, and those of     *)
(* mem_finish, are made together, with the beginning of the unlock that    *)
(* follows.  A payload is known by its size; heap[b] is what the buffer b  *)
(* holds, 0 once it is free.  ops bounds the calls of a slave.             *)
(***************************************************************************)
EXTENDS RwLock

CONSTANTS Main,       \* the main thread
          Waiters,    \* slaves that may call mem_wait
          Sizes,      \* payloads that are copied
          Caps,       \* room the callers of mem_get and mem_wait have
          Stamps,     \* values of the network clock
          Buffers,    \* what malloc can return
          Null,       \* the NULL pointer
          MaxOps      \* bound: calls made by each slave

Slaves == Threads \ {Main}

ASSUME MemAssumption ==
  /\ Main \in Threads /\ Waiters \subseteq Slaves
  /\ Sizes \subseteq Nat \ {0}
  /\ Caps \subseteq Nat
  /\ Stamps \subseteq Nat /\ 0 \in Stamps
  /\ IsFiniteSet(Buffers) /\ Cardinality(Buffers) > Cardinality(Slaves)
  /\ Null \notin Buffers
  /\ MaxOps \in Nat

VARIABLES
  data, size, updateCond, terminate,    \* the region
  heap,       \* heap[b]: payload in the buffer b, 0: free
  pc,         \* where a thread is in clmem.c
  buf,        \* buf[s]: mem_cpy in mem_put
  arg,        \* arg[s]: size and update_cond in mem_put, size in the others
  cpSize,     \* cpSize[s]: cp_size
  aux,        \* aux[s]: aux in mem_wait
  res,        \* res[s]: payload and bytes the last copy or paste brought
  ops,        \* ops[s]: calls so far
  crashed     \* the process was killed

zoneVars == <<data, size, updateCond, terminate>>
localVars == <<buf, arg, cpSize, aux, ops>>
memVars == <<lockVars, zoneVars, heap, pc, localVars, res, crashed>>

MemTypeOK ==
  /\ LockTypeOK
  /\ data \in Buffers \cup {Null}
  /\ size \in Sizes \cup {0}
  /\ updateCond \in Stamps
  /\ terminate \in BOOLEAN
  /\ heap \in [Buffers -> Sizes \cup {0}]
  /\ buf \in [Slaves -> Buffers \cup {Null}]
  /\ cpSize \in [Slaves -> Nat]
  /\ aux \in [Slaves -> Stamps]
  /\ ops \in [Slaves -> 0..MaxOps]
  /\ crashed \in BOOLEAN

\* mem_init
MemInit ==
  /\ LockInit
  /\ data = Null /\ size = 0 /\ updateCond = 0 /\ terminate = FALSE
  /\ heap = [b \in Buffers |-> 0]
  /\ pc = [t \in Threads |-> IF t = Main THEN "m_run" ELSE "idle"]
  /\ buf = [s \in Slaves |-> Null]
  /\ arg = [s \in Slaves |-> [size |-> 0, stamp |-> 0]]
  /\ cpSize = [s \in Slaves |-> 0]
  /\ aux = [s \in Slaves |-> 0]
  /\ res = [s \in Slaves |-> <<0, 0>>]
  /\ ops = [s \in Slaves |-> 0]
  /\ crashed = FALSE

At(t, label) == ~crashed /\ pc[t] = label /\ lpc[t] = "out"
Jump(t, label) == pc' = [pc EXCEPT ![t] = label]
Result(s, v, bytes) == res' = [res EXCEPT ![s] = <<v, bytes>>]

AtMost(cap, v) == IF cap > v THEN v ELSE cap

Begin(s, n, stamp) ==
  /\ At(s, "idle")
  /\ ops[s] < MaxOps
  /\ ops' = [ops EXCEPT ![s] = @ + 1]
  /\ arg' = [arg EXCEPT ![s] = [size |-> n, stamp |-> stamp]]
-----------------------------------------------------------------------------
(* mem_put                                                                 *)

\* malloc and memcpy into a private buffer, then ask for the lock.
PutCall(s, v, stamp, b) ==
  /\ Begin(s, v, stamp)
  /\ heap[b] = 0
  /\ heap' = [heap EXCEPT ![b] = v]
  /\ buf' = [buf EXCEPT ![s] = b]
  /\ Jump(s, "p_check")
  /\ Wlock(s)
  /\ UNCHANGED <<zoneVars, cpSize, aux, res, crashed>>

\* Mutant: a copy with the same time stamp is refused.
PutOlderStrict(s) == data # Null /\ updateCond >= arg[s].stamp

PutOlder(s) == data # Null /\ updateCond > arg[s].stamp

PutRefuse(s) ==
  /\ At(s, "p_check") /\ PutOlder(s)
  /\ Jump(s, "p_dispose")
  /\ Result(s, 0, 0)
  /\ Wunlock(s)
  /\ UNCHANGED <<zoneVars, heap, localVars, crashed>>

\* Mutant: the private buffer of a refused copy is kept.
PutDisposeKeep(s) ==
  /\ At(s, "p_dispose")
  /\ buf' = [buf EXCEPT ![s] = Null]
  /\ Jump(s, "idle")
  /\ UNCHANGED <<lockVars, zoneVars, heap, arg, cpSize, aux, ops, res, crashed>>

PutDispose(s) ==
  /\ At(s, "p_dispose")
  /\ heap' = [heap EXCEPT ![buf[s]] = 0]
  /\ buf' = [buf EXCEPT ![s] = Null]
  /\ Jump(s, "idle")
  /\ UNCHANGED <<lockVars, zoneVars, arg, cpSize, aux, ops, res, crashed>>

PutAccept(s) ==
  /\ At(s, "p_check") /\ ~PutOlder(s)
  /\ heap' = IF data = Null THEN heap ELSE [heap EXCEPT ![data] = 0]
  /\ Result(s, arg[s].size, arg[s].size)
  /\ Jump(s, "p_data")
  /\ UNCHANGED <<lockVars, zoneVars, localVars, crashed>>

PutData(s) ==
  /\ At(s, "p_data")
  /\ data' = buf[s]
  /\ buf' = [buf EXCEPT ![s] = Null]
  /\ Jump(s, "p_size")
  /\ UNCHANGED <<lockVars, size, updateCond, terminate, heap, arg, cpSize, aux, ops, res, crashed>>

\* Mutant: the size and the time stamp change places.
PutSizeSwapped(s) ==
  /\ At(s, "p_size")
  /\ size' = arg[s].stamp
  /\ updateCond' = arg[s].size
  /\ Jump(s, "done")
  /\ Wunlock(s)
  /\ UNCHANGED <<data, terminate, heap, localVars, res, crashed>>

\* Both are stored under the write lock.
PutSize(s) ==
  /\ At(s, "p_size")
  /\ size' = arg[s].size
  /\ updateCond' = arg[s].stamp
  /\ Jump(s, "done")
  /\ Wunlock(s)
  /\ UNCHANGED <<data, terminate, heap, localVars, res, crashed>>
-----------------------------------------------------------------------------
(* mem_get, and the end of mem_wait                                        *)

GetCall(s, cap) ==
  /\ Begin(s, cap, 0)
  /\ Jump(s, "g_size")
  /\ Rlock(s)
  /\ UNCHANGED <<zoneVars, heap, buf, cpSize, aux, res, crashed>>

GetSize(s) ==
  /\ At(s, "g_size")
  /\ cpSize' = [cpSize EXCEPT ![s] = AtMost(arg[s].size, size)]
  /\ Jump(s, "g_copy")
  /\ UNCHANGED <<lockVars, zoneVars, heap, buf, arg, aux, ops, res, crashed>>

\* Mutant: the read lock is not given back.
GetCopyLocked(s) ==
  /\ At(s, "g_copy")
  /\ cpSize[s] > 0 => data # Null
  /\ IF cpSize[s] = 0 THEN Result(s, 0, 0) ELSE Result(s, heap[data], cpSize[s])
  /\ Jump(s, "done")
  /\ UNCHANGED <<lockVars, zoneVars, heap, localVars, crashed>>

GetCopy(s) ==
  /\ At(s, "g_copy")
  /\ cpSize[s] > 0 => data # Null
  /\ IF cpSize[s] = 0 THEN Result(s, 0, 0) ELSE Result(s, heap[data], cpSize[s])
  /\ Jump(s, "done")
  /\ Runlock(s)
  /\ UNCHANGED <<zoneVars, heap, localVars, crashed>>

\* memcpy from NULL: mem_finish frees the data and keeps the size.
GetCrash(s) ==
  /\ At(s, "g_copy") /\ cpSize[s] > 0 /\ data = Null
  /\ crashed' = TRUE
  /\ UNCHANGED <<lockVars, zoneVars, heap, pc, localVars, res>>

Return(s) ==
  /\ At(s, "done")
  /\ Jump(s, "idle")
  /\ UNCHANGED <<lockVars, zoneVars, heap, localVars, res, crashed>>
-----------------------------------------------------------------------------
(* mem_wait                                                                *)

WaitCall(s, cap) ==
  /\ s \in Waiters
  /\ Begin(s, cap, 0)
  /\ Jump(s, "a_aux")
  /\ Rlock(s)
  /\ UNCHANGED <<zoneVars, heap, buf, cpSize, aux, res, crashed>>

WaitAux(s) ==
  /\ At(s, "a_aux")
  /\ aux' = [aux EXCEPT ![s] = updateCond]
  /\ Jump(s, "a_test")
  /\ UNCHANGED <<lockVars, zoneVars, heap, buf, arg, cpSize, ops, res, crashed>>

WaitPark(s) ==
  /\ At(s, "a_test") /\ aux[s] = updateCond /\ ~terminate
  /\ WaitUpdate(s)
  /\ UNCHANGED <<zoneVars, heap, pc, localVars, res, crashed>>

\* The loop ends.  On termination mem_wait returns 0 without rw_lock_runlock and
\* the slave closes its connection.
WaitLeave(s) ==
  /\ At(s, "a_test") /\ (aux[s] # updateCond \/ terminate)
  /\ Jump(s, IF terminate THEN "exited" ELSE "g_size")
  /\ UNCHANGED <<lockVars, zoneVars, heap, localVars, res, crashed>>
-----------------------------------------------------------------------------
(* The end of the program: mem_finish, the two finalize functions, and     *)
(* mem_destroy.                                                            *)

FinishCall ==
  /\ At(Main, "m_run")
  /\ Jump(Main, "m_clear")
  /\ Wlock(Main)
  /\ UNCHANGED <<zoneVars, heap, localVars, res, crashed>>

\* Mutant: mem_finish forgets to give the lock back.
FinishKeepsLock ==
  /\ At(Main, "m_clear")
  /\ terminate' = TRUE
  /\ heap' = IF data = Null THEN heap ELSE [heap EXCEPT ![data] = 0]
  /\ data' = Null
  /\ Jump(Main, "m_join")
  /\ UNCHANGED <<lockVars, size, updateCond, localVars, res, crashed>>

Finish ==
  /\ At(Main, "m_clear")
  /\ terminate' = TRUE
  /\ heap' = IF data = Null THEN heap ELSE [heap EXCEPT ![data] = 0]
  /\ data' = Null
  /\ Jump(Main, "m_join")
  /\ Wunlock(Main)
  /\ UNCHANGED <<size, updateCond, localVars, res, crashed>>

\* A slave ends between two requests: its peer hung up, or the finalize
\* functions cancelled it in recv (appif.c:98-104, clipif.c:191-199).
Exit(s) ==
  /\ At(s, "idle")
  /\ Jump(s, "exited")
  /\ UNCHANGED <<lockVars, zoneVars, heap, localVars, res, crashed>>

DestroyCall ==
  /\ At(Main, "m_join")
  /\ \A s \in Slaves : pc[s] = "exited"
  /\ Jump(Main, "m_destroy")
  /\ Wlock(Main)
  /\ UNCHANGED <<zoneVars, heap, localVars, res, crashed>>

Destroy ==
  /\ At(Main, "m_destroy")
  /\ Jump(Main, "m_end")
  /\ Wunlock(Main)
  /\ UNCHANGED <<zoneVars, heap, localVars, res, crashed>>
-----------------------------------------------------------------------------
\* A step inside the lock functions.
Locking(t) ==
  /\ ~crashed
  /\ LockStep(t) \/ CondWait(t)
  /\ UNCHANGED <<zoneVars, heap, pc, localVars, res, crashed>>

CallPut(s) == \E v \in Sizes, st \in Stamps, b \in Buffers : PutCall(s, v, st, b)
CallGet(s) == \E cap \in Caps : GetCall(s, cap)
CallWait(s) == \E cap \in Caps : WaitCall(s, cap)

\* What a slave does once it has called.
SlaveStep(s) ==
  \/ PutRefuse(s) \/ PutDispose(s) \/ PutAccept(s) \/ PutData(s) \/ PutSize(s)
  \/ GetSize(s) \/ GetCopy(s) \/ GetCrash(s) \/ Return(s)
  \/ WaitAux(s) \/ WaitPark(s) \/ WaitLeave(s)

MainStep == Finish \/ DestroyCall \/ Destroy

MemNext ==
  \/ \E s \in Slaves : CallPut(s) \/ CallGet(s) \/ CallWait(s) \/ SlaveStep(s) \/ Exit(s)
  \/ FinishCall \/ MainStep
  \/ \E t \in Threads : Locking(t)

MemSpec == MemInit /\ [][MemNext]_memVars

\* The scheduler runs every thread that can run; a slave between two requests
\* ends at the latest when the program does.  (That the finalize functions cancel
\* every slave is FinalizeEnds of AppIf and of ClipIf.)
MemFairness ==
  /\ \A t \in Threads : WF_memVars(Locking(t))
  /\ \A s \in Slaves : WF_memVars(SlaveStep(s)) /\ WF_memVars(pc[Main] = "m_join" /\ Exit(s))
  /\ WF_memVars(MainStep)

FairMemSpec == MemSpec /\ MemFairness
-----------------------------------------------------------------------------
(* Properties.                                                             *)

\* mem_put and mem_finish free what they replace, and nothing that is in use
\* (clmem.c:92-111, 122-126): the buffers in use are the one of the region,
\* unless mem_put has just freed it, and the private ones of mem_put, all of
\* them different.
Replacing == \E s \in Slaves : pc[s] = "p_data"
Private == {s \in Slaves : buf[s] # Null}
HeapOwnership ==
  /\ {b \in Buffers : heap[b] # 0} =
       {buf[s] : s \in Private} \cup (IF data = Null \/ Replacing THEN {} ELSE {data})
  /\ \A s, u \in Private : buf[s] = buf[u] => s = u
  /\ ~Replacing /\ data # Null => data \notin {buf[s] : s \in Private}

\* A region is a register where the latest copy wins, although its data, size
\* and time stamp are read and written one by one (clmem.c:68-116).  A copy
\* takes effect when it has found that it is not older than what is there.
Writer == CHOOSE s \in Slaves : pc[s] \in {"p_data", "p_size"}
SomeWriter == \E s \in Slaves : pc[s] \in {"p_data", "p_size"}
Val == IF SomeWriter THEN arg[Writer].size ELSE IF data = Null THEN 0 ELSE heap[data]
Stamp == IF SomeWriter THEN arg[Writer].stamp ELSE updateCond
Register == INSTANCE LwwRegister WITH Clients <- Slaves, val <- Val, stamp <- Stamp
IsRegister == Register!Spec

\* No call hangs, and the main thread gets the lock in mem_finish and in
\* mem_destroy (clmem.c:118-142), unless a thread in mem_wait has the read lock,
\* which it keeps while it waits, and for good when the program ends (clmem.c:47-55):
\* then copies hang, and the main thread.  Pastes return even so.
LockKept == \E s \in Waiters : held[s] = "read" /\ pc[s] \in {"a_test", "exited"}
Blocked(s) == LockKept /\ pc[s] \in {"a_test", "p_check"}
CallsReturn ==
  \A s \in Slaves : pc[s] # "idle" ~> crashed \/ pc[s] \in {"idle", "exited"} \/ Blocked(s)
ShutdownEnds == pc[Main] = "m_clear" ~> crashed \/ pc[Main] = "m_end" \/ LockKept
=============================================================================
