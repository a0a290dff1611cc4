-------------------------------- MODULE Queue --------------------------------
(***************************************************************************)
(* thread/queue.c: a linked list under a mutex and a condition variable.   *)
(* The slave threads and the clock push broadcasts (Producers), the        *)
(* broadcaster pops them (Consumer, the only one), clipif_finalize ends    *)
(* the queue (Terminator).                                                 *)
(*                                                                         *)
(* pc[t] is the place of t in queue.c, "out" outside.  The list is touched *)
(* with q->lock held only, so what a function does between lock and unlock *)
(* is one step, taken when the lock is free.  The exception is the refused *)
(* producer, which returns with the lock: lock is then that producer.      *)
(***************************************************************************)
EXTENDS Naturals, FiniteSets, Sequences, Functions

CONSTANTS Producers, Consumer, Terminator,
          Nodes,      \* what malloc can return
          Messages,   \* what is queued
          Null,       \* the NULL pointer, and "the lock is free"
          MaxPush     \* bound: MaxPush[p] messages are pushed by p

Users == Producers \cup {Consumer, Terminator}

ASSUME QueueAssumption ==
  /\ IsFiniteSet(Producers) /\ IsFiniteSet(Nodes)
  /\ Consumer \notin Producers /\ Terminator \notin Producers /\ Consumer # Terminator
  /\ Null \notin Nodes \cup Messages \cup Users
  /\ MaxPush \in [Producers -> Nat]

VARIABLES
  first, last, nElements,   \* the list
  next, load,     \* next[n], load[n]: the node n
  used,           \* nodes between malloc and free
  terminate, lock,
  pc,             \* where a user is in queue.c
  node,           \* node[t]: new in queue_push, aux in queue_pop
  woken,          \* the consumer waits on q->trigger and was signalled
  pushed,         \* pushed[p]: calls of queue_push so far
  ret,            \* ret[t]: what the last call returned
  out             \* messages that queue_pop has returned, in order

list == <<first, last, nElements, next>>
nodes == <<load, used, node>>
history == <<pushed, ret, out>>
queueVars == <<list, nodes, terminate, lock, pc, woken, history>>

QueueTypeOK ==
  /\ first \in Nodes \cup {Null} /\ last \in Nodes \cup {Null}
  /\ nElements \in 0..Cardinality(Nodes)
  /\ next \in [Nodes -> Nodes \cup {Null}] /\ load \in [Nodes -> Messages \cup {Null}]
  /\ used \subseteq Nodes
  /\ terminate \in BOOLEAN /\ lock \in Producers \cup {Null}
  /\ node \in [Users -> Nodes \cup {Null}]
  /\ woken \in BOOLEAN
  /\ pushed \in [Producers -> Nat] /\ \A p \in Producers : pushed[p] <= MaxPush[p]
  /\ ret \in [Users -> Messages \cup {Null, "none", "ok", "refused"}]
  /\ out \in Seq(Messages)

\* queue_create
QueueInit ==
  /\ first = Null /\ last = Null /\ nElements = 0
  /\ next = [n \in Nodes |-> Null] /\ load = [n \in Nodes |-> Null] /\ used = {}
  /\ terminate = FALSE /\ lock = Null
  /\ pc = [t \in Users |-> "out"] /\ node = [t \in Users |-> Null] /\ woken = FALSE
  /\ pushed = [p \in Producers |-> 0] /\ ret = [t \in Users |-> "none"] /\ out = <<>>

Goto(t, from, to) == pc[t] = from /\ pc' = [pc EXCEPT ![t] = to]

\* pthread_cond_signal: wakes the consumer if it is waiting, else nothing.
Signal == woken' = (woken \/ pc[Consumer] = "c_wait")
-----------------------------------------------------------------------------
(* queue_push                                                              *)

PushCall(p, m, n) ==
  /\ Goto(p, "out", "p_lock")
  /\ pushed[p] < MaxPush[p] /\ pushed' = [pushed EXCEPT ![p] = @ + 1]
  /\ n \notin used /\ used' = used \cup {n}
  /\ next' = [next EXCEPT ![n] = Null]
  /\ load' = [load EXCEPT ![n] = m]
  /\ node' = [node EXCEPT ![p] = n]
  /\ UNCHANGED <<first, last, nElements, terminate, lock, woken, ret, out>>

\* The early return after termination keeps q->lock.
PushRefuse(p) ==
  /\ Goto(p, "p_lock", "out")
  /\ lock = Null /\ terminate
  /\ lock' = p
  /\ used' = used \ {node[p]}
  /\ ret' = [ret EXCEPT ![p] = "refused"]
  /\ UNCHANGED <<list, load, node, terminate, woken, pushed, out>>

\* Mutant: the new node is linked to the first one.
LinkFirst(n) == next' = IF first = Null THEN next ELSE [next EXCEPT ![first] = n]

Link(n) == next' = IF last = Null THEN next ELSE [next EXCEPT ![last] = n]

PushLink(p) ==
  /\ Goto(p, "p_lock", "p_signal")
  /\ lock = Null /\ ~terminate
  /\ Link(node[p])
  /\ last' = node[p]
  /\ first' = IF first = Null THEN node[p] ELSE first
  /\ nElements' = nElements + 1
  /\ UNCHANGED <<nodes, terminate, lock, woken, history>>

\* Mutant: nobody is told.
PushNoSignal(p) ==
  /\ Goto(p, "p_signal", "out")
  /\ ret' = [ret EXCEPT ![p] = "ok"]
  /\ UNCHANGED <<list, nodes, terminate, lock, woken, pushed, out>>

PushSignal(p) ==
  /\ Goto(p, "p_signal", "out")
  /\ Signal
  /\ ret' = [ret EXCEPT ![p] = "ok"]
  /\ UNCHANGED <<list, nodes, terminate, lock, pushed, out>>
-----------------------------------------------------------------------------
(* queue_pop.  The broadcaster calls it until it returns NULL.             *)

PopCall ==
  /\ Goto(Consumer, "out", "c_lock")
  /\ ret[Consumer] # Null
  /\ UNCHANGED <<list, nodes, terminate, lock, woken, history>>

PopWait ==
  /\ Goto(Consumer, "c_lock", "c_wait")
  /\ lock = Null /\ nElements = 0 /\ ~terminate
  /\ woken' = FALSE
  /\ UNCHANGED <<list, nodes, terminate, lock, history>>

\* Signalled, or woken for no reason, as POSIX allows: lock again, test again.
PopWake ==
  /\ Goto(Consumer, "c_wait", "c_lock")
  /\ woken' = FALSE
  /\ UNCHANGED <<list, nodes, terminate, lock, history>>

PopNull ==
  /\ Goto(Consumer, "c_lock", "out")
  /\ lock = Null /\ nElements = 0 /\ terminate
  /\ ret' = [ret EXCEPT ![Consumer] = Null]
  /\ UNCHANGED <<list, nodes, terminate, lock, woken, pushed, out>>

\* Mutant: last still points to the node that leaves.
LastAfterPopKept == last

LastAfterPop == IF first = last THEN next[first] ELSE last

PopTake ==
  /\ Goto(Consumer, "c_lock", "c_free")
  /\ lock = Null /\ nElements # 0
  /\ node' = [node EXCEPT ![Consumer] = first]
  /\ first' = next[first]
  /\ last' = LastAfterPop
  /\ nElements' = nElements - 1
  /\ UNCHANGED <<next, load, used, terminate, lock, woken, history>>

\* Mutant: the node is returned, not what it carries.
PoppedNode == node[Consumer]

Popped == load[node[Consumer]]

PopFree ==
  /\ Goto(Consumer, "c_free", "out")
  /\ ret' = [ret EXCEPT ![Consumer] = Popped]
  /\ out' = Append(out, Popped)
  /\ used' = used \ {node[Consumer]}
  /\ UNCHANGED <<list, load, node, terminate, lock, woken, pushed>>
-----------------------------------------------------------------------------
(* queue_terminate, called once                                            *)

TermSet ==
  /\ Goto(Terminator, "out", "t_signal")
  /\ lock = Null
  /\ terminate' = TRUE
  /\ UNCHANGED <<list, nodes, lock, woken, history>>

TermSignal ==
  /\ Goto(Terminator, "t_signal", "t_end")
  /\ Signal
  /\ UNCHANGED <<list, nodes, terminate, lock, history>>
-----------------------------------------------------------------------------
Produce(p) == PushRefuse(p) \/ PushLink(p) \/ PushSignal(p)

\* The broadcaster, apart from a wake-up nobody asked for.
Consume == PopCall \/ PopWait \/ (woken /\ PopWake) \/ PopNull \/ PopTake \/ PopFree

QueueNext ==
  \/ \E p \in Producers : Produce(p) \/ \E m \in Messages, n \in Nodes : PushCall(p, m, n)
  \/ Consume \/ PopWake
  \/ TermSet \/ TermSignal

QueueSpec == QueueInit /\ [][QueueNext]_queueVars

\* Every thread that can run runs; spurious wake-ups are not relied on, nor is
\* the end of the program.
QueueFairness ==
  /\ WF_queueVars(Consume)
  /\ \A p \in Producers : WF_queueVars(Produce(p))
  /\ WF_queueVars(TermSignal)

FairQueueSpec == QueueSpec /\ QueueFairness
-----------------------------------------------------------------------------
(* Properties.                                                             *)

\* The nodes reachable from first, in order (not more than there are nodes, should the
\* list have a cycle), and what they carry.
IsChain(f, nx, s) ==
  /\ \A i \in DOMAIN s : s[i] = IF i = 1 THEN f ELSE nx[s[i - 1]]
  /\ Len(s) = Cardinality(Nodes) \/ (IF s = <<>> THEN f ELSE nx[s[Len(s)]]) = Null
Chains == UNION {[1..k -> Nodes] : k \in 0..Cardinality(Nodes)}
List == CHOOSE s \in Chains : IsChain(first, next, s)
Contents == LET s == List IN [i \in DOMAIN s |-> load[s[i]]]

\* The list is sound whenever nobody changes it (queue.c:82-90, 119-124): it
\* has n_elements different nodes, all of them allocated, the last one is last,
\* and no node is lost: the others in use are private to a caller.
ListInv ==
  /\ QueueTypeOK
  /\ LET s == List IN
       /\ nElements = Len(s)
       /\ IsInjective(s)
       /\ last = IF s = <<>> THEN Null ELSE s[Len(s)]
       /\ used = Range(s) \cup {node[t] : t \in {u \in Users : pc[u] \in {"p_lock", "c_free"}}}

\* queue.c implements a FIFO queue: the consumer gets every accepted message
\* once, in the order of acceptance.  A message is out when queue_pop has
\* unlinked it.
Taken == IF pc[Consumer] = "c_free" THEN Append(out, load[node[Consumer]]) ELSE out
Fifo == INSTANCE FifoQueue WITH items <- Contents, out <- Taken
IsFifo == Fifo!Spec

\* No wake-up is lost (queue.c:108-110, 93-94, 30-31): a message that was accepted
\* is taken in the end, and after queue_terminate queue_pop returns NULL ("or the
\* queue terminates (NULL)", clipif.c:117), unless a producer that was refused
\* after termination took the lock with it (queue.c:75-80).
LockLost == lock # Null
Drained ==
  /\ first # Null ~> LockLost \/ first = Null
  /\ pc[Terminator] = "t_end" ~> LockLost \/ ret[Consumer] = Null
=============================================================================
