# Distributed clipboard: specifications and proofs

TLA+ modules for the program in `src/`: a clipboard daemon (`src/src`) that the applications of a machine
share through a Unix socket and that replicates what is copied over a tree of daemons connected by TCP; and
the library applications link with (`src/Library`). Line numbers below refer to the files of that directory.
Parse with `tlasany M.tla`, check with `tlc -config X.cfg MCM.tla` (`Daemon.tla` is its own MC module), prove
with `tlapm M.tla`. `PROJECT.json` lists the runs, the lines each definition models, the mutants that show
that every property can fail, the hazards and the theorems.

## The system

| part | state | operations | talks to |
| --- | --- | --- | --- |
| readers/writer lock `thread/rwlock.c` | `m_lock`, `update`, `sem`, `n_readers` | rlock, runlock, wlock, wunlock, wait_update | one per memory region, one for the clock |
| memory `mem/clmem.c` | per region: data, size, update_cond (a time stamp), terminate | put, get, wait, finish, destroy | slave threads, main thread |
| queue `thread/queue.c` | linked list, n_elements, terminate, lock, trigger | push, pop, terminate | slaves and clock push, broadcaster pops |
| applications interface `interfaces/appif.c` | slots with a socket and a thread, n_connections, lock, slaveFinished | listen, a slave per application, close, finalize | memory, queue, clock |
| clipboards interface `interfaces/clipif.c` | slots with a lock each, n_connections, parentSock, lock, queue, clock and broadcaster threads | listen, a slave per neighbour, broadcast, clock, close, finalize | memory, queue, clock, other daemons |
| network clock `utils/time.c` | time_started | now, sync | interfaces |
| packets `utils/packet.c` | none | recvData, sendData | sockets |
| main `clipboard.c` | the sockets, the name `CLIPBOARD_SOCKET` | start, wait for `q`, end | everything |
| library `Library/client_api.c` | none (one socket) | connect, copy, paste, wait, close | one slave of appif |

What makes it hard: up to forty slave threads and five others share the memory, the queue and the two slot
tables; three kinds of lock are combined by hand; threads are cancelled while they hold some of them; packets
carry no identifier; time stamps have a resolution of a second and clocks are not in agreement; daemons come
and go at any time; the program ends while threads still run; two programs can share a directory.

What makes each part correct: the lock excludes and never gives its semaphore back twice; a region is a
register in which the newest copy wins, each buffer is freed once, every call returns; the queue is a FIFO
that loses no message and no wake-up; the counter of each interface agrees with its slots, a slot belongs to
one slave, the end of the program is reached; an application gets its own answers; the broadcaster never
writes to a socket that changes hands, there is one clock, in the root of a tree, everybody gets a goodbye;
what one clipboard holds its neighbours get, or something as new, and the flood of copies dies out; network
times differ by no more than the delays; a running daemon is reached, and leaves nothing behind.

## Modules

* `RwLock` — the lock, one step per access to its mutex, counter and semaphore. `n_readers++` is a load and a
  store, because `rw_lock_wait_update` lets two threads into the section of `m_lock`. On Linux, where
  `sem_init(..., 1)` makes a binary semaphore.
* `ClMem` extends `RwLock`: one region, its slaves and the main thread. Loads and stores of the region are steps of their
  own, but for the last two stores of `mem_put` and those of `mem_finish`, which are made with the unlock that
  follows. It implements `LwwRegister`, a register that is read and written in one piece.
* `Queue` — the linked list; a section under the lock is a step, as nothing else reads the list. The refused
  producer is the exception: it keeps the lock. It implements `FifoQueue`.
* `AppIf` — listener, slaves, main thread, deferred cancellation. Serving a request is a step.
* `AppProtocol` — what that step does: the library on one side, the body of a slave on the other, and between
  them two streams of bytes with the packets as `packet.h` lays them out. `waited` says that some application has called
  `clipboard_wait` on the region, from when on `mem_put` and `mem_get` may not return.
* `ClipIf` — the clipboards interface, with the locks of the slots, the broadcaster, the clock, the parent, and
  the queue with each call as a step.
* `ClipNet` — a tree of daemons that grows (`Join`, `Fill`) and falls apart (`Leave`, `BroadcastKilled`); each is its
  region, its queue, its broadcaster, its listener, a slave per neighbour and per copying application. `mem_put` and
  `clipif_add_broadcast` are two steps, as in the code. It takes from `ClMem` that `mem_put` is atomic
  (`IsRegister`), from `Queue` that the queue is FIFO (`IsFifo`), from `ClipIf` that a slot keeps its socket while the
  broadcaster sends (`SendStable`). A queued packet that carries the descriptor of a connection that ended may be
  taken for one of the next connection (`Orphans`).
* `TimeSync` — the network clocks of a tree: `time_started` in unsigned arithmetic, the delay measured at the start,
  the clock thread, forwarding by the slave of the parent, machines whose clock is set. `Modulus` stands for 2^32.
* `Daemon` — the steps of `main` for several processes in one directory, their failures, and the name
  `CLIPBOARD_SOCKET` in it.
* `MC*` — model-checking instances: symmetry where only safety is checked, payloads, parents and clocks.
  `*Proofs` — the theorems.

The state variables keep the names of the fields of the code (`nConnections` for `n_connections`); a program
counter per thread says where it is, its labels are explained in the module. One action per step of a handler,
named after it. Each module ends with its properties; a definition headed *Mutant* is a faulty variant of the
definition below it, and not part of the model.

How they fit: `RwLock` is extended by `ClMem`; `ClMem` and `Queue` are each one step of `ClipIf`, `ClipNet`
and `AppProtocol`, which the refinements of their abstract specifications justify (proved for memory nobody waits on, checked for one
waiter); `AppIf` and `AppProtocol`
share the slave, one has its life and the other its requests; `ClipIf`, `ClipNet` and `TimeSync` share the
packets between clipboards, one has the threads, one the copies, one the times.

## Runs

The twelve runs take between a second and three minutes each. Constants are in the `.cfg` files.

| run | shows | bounds, and why they are enough |
| --- | --- | --- |
| `rwlock_wait` | **violated**: with `rw_lock_wait_update` a writer is not alone, but with a reader or another writer (`Exclusion`) | 3 threads; two are not enough to lose an update of the counter |
| `clmem` | `HeapOwnership`, `Exclusion`, the refinement `IsRegister` | 2 slaves with 2 calls, one of them may wait, and main; 2 payloads with room between them, 2 stamps (so ties), 3 buffers: one per slave and one in the region |
| `clmem_live` | `CallsReturn`, `ShutdownEnds`: calls return, main gets through its end | 2 slaves with one call each, one of them may wait |
| `queue` | `ListInv`, the refinement `IsFifo`, `Drained`: no message and no wake-up is lost | 2 producers, one with two messages and one with one, 2 messages, 3 nodes: lists with an inner node, a push that waits for another |
| `appif` | `LockOwner`, `SlotAccounting`, `NoZombie`, `FreedUnused`, and `FinalizeEnds` if no slave stays in a request for ever (`RequestsEnd`) | 2 slots, 3 applications: a full table, and a slot used again |
| `appproto` | `OwnAnswer`, `InStep`, `CloseIsSafe`, and `CallsReturn` if the slave gets through the lock of a region somebody waits on (`MemoryReturns`) | 4 calls with nothing, one byte or six bytes (as an acknowledgement has), 2 copies of others: less, as much and more than was asked for, and an answer that looks like a header |
| `appproto_ack` | **violated**: `PasteReturnsCopy` | 3 calls |
| `clipif` | `SlotAccounting`, `OneClock`, `GoodbyeSent`, `FreedUnused`, `SendStable` | 2 slots, 3 connections, one of them possibly the parent, one broadcast before the goodbye |
| `clipif_live` | `FinalizeEnds`, if no slave stays in a packet for ever (`PacketsEnd`) and the broadcaster in no send (`SendsEnd`) | 1 slot, 2 connections |
| `clipnet` | `Delivery`, `SenderHas`, `NoReturn`, `Agreement`, and `Settles`: the flood dies out, as long as nobody waits for updates and peers read | up to 3 clipboards, joining below any other (chains and stars), one leaves and others may be killed by it; 2 copies, that meet or overtake each other, with 2 stamps |
| `timesync` | `SkewBound`, `Repaired` | a chain of 3 (the middle one forwards), clocks that differ by more and by less than a second, Modulus 7 so that every clock wraps around again and again, one clock set once |
| `daemon` | `Served`, `NothingLeft`, `Recovers` | 3 processes: one that runs, one that intrudes, one that starts after it; 2 are killed |

Each run of a module checks its type invariant as well (`ListInv` includes that of `Queue`). Wherever `CHECK_DEADLOCK FALSE`
stands the modelled program may stop: the bounded calls are used up, the program has ended, or it hangs in one of
the ways described below.

### Where the code does not do what it says

1 and 2 have a run that TLC finds violated; the others are actions of the model that the passing runs take, and the
properties of those runs say what still holds.

1. `rw_lock_wait_update` (rwlock.c:117-128) waits with a mutex its caller does not own: unlocking it lets a second
   thread into the section, an increment or decrement of `n_readers` is lost, and a writer meets a
   reader or another writer (`rwlock_wait`).
2. `MIN(sendData(...),err)` (appif.c:246) evaluates `sendData` again when it returns no more than `err`: the
   acknowledgement of a copy of six bytes or more is sent twice, and the library takes the second one for the header of its
   next answer (`appproto_ack`). `OwnAnswer`, `InStep`, `CloseIsSafe` and `CallsReturn` hold until that happens (`dup`). When
   the library closes its socket between the two, the second one kills the daemon, as `SIGPIPE` is not handled; so does an
   application that dies between its request and the answer.
3. An empty copy, and an update that brings `mem_wait` nothing, end the connection (appif.c:246, 96): `last`.
4. `mem_wait` (clmem.c:47-55) keeps the read lock while it waits for a writer, and for good when it is terminated: copies
   to the region, `mem_finish` and `mem_destroy` then wait for ever. `CallsReturn` and `ShutdownEnds` of `ClMem` except
   this (`LockKept`) and nothing else. It reaches further: a copy of an application or of a neighbour waits in `mem_put`
   with cancellation disabled, so that its slave does not end, nor do the finalize functions. So may a slave whose peer
   sends part of a request and no more (appif.c:104, clipif.c:254). `AppIf`, `ClipIf` and `AppProtocol` do not have it that
   requests end: their properties say what follows if they do.
5. `mem_finish` (clmem.c:126) resets `data` but not `size`, while slaves still run (clipboard.c:198): `GetCrash`.
6. `queue_push` (queue.c:76-80) keeps the lock when it refuses: the exception `LockLost` of `Drained`, and part of
   the one of `FinalizeEnds` in `ClipIf`.
7. `clipif_listen` takes a slot whose lock the broadcaster holds for a used one and then continues with
   `clipif->lock` held (clipif.c:374, 388): part of the exception of `FinalizeEnds` in `ClipIf`. In `appif_listen` the
   corresponding case cannot happen, which is proved (`NoZombie`).
8. The slaves of both interfaces reach `close` with cancellation enabled after a failed receive, and die there with the
   lock of the interface (appif.c:65, clipif.c:93), although cancellation should only occur while waiting for messages:
   `CloseCancelled`, and the place "killed", the other exception of `FinalizeEnds`.
9. Both signal `slaveFinished` after the unlock, when the structure may be gone (appif.c:70, clipif.c:108): `FreedUnused`
   says that this is all they may still do. And both finalize functions cancel a thread some time after they tested its
   slot (appif.c:358-360, clipif.c:546-549), when it may have ended.
10. A start that finds the name of the applications' socket taken removes it (clipboard.c:81), from under the daemon
   that runs there; daemons that end then remove each other's names. The exception `intruded` of `Served`. The same removal
   is what lets daemons start again after one was killed (`Recovers`).
11. When the parent hangs up before its hello, because its table is full for example, its socket is closed in
   `clipif_init` and again in `main` (clipif.c:463, clipboard.c:156). `CLOSE` holds `print_lock` while it reports the failure,
   and the report asks for it (common.h:86-89): the process hangs and its name stays. The place "hung" of `Daemon`, an
   exception of `NothingLeft`. A start also waits without limit for a hello that does not come.
12. `parentDelay` is half of the time from `connect` to the hello, which includes the time the parent took to accept, and is
   never measured again (clipif.c:473). If the local clock is set meanwhile, the unsigned difference can be huge, and the
   clipboard and those below it are off for good: `Spoilt`, the exception of `Repaired`.

Also visible, and benign in the model: the clock thread queues a pointer to a packet on its own stack (clipif.c:67), which the next
tick overwrites with a fresher time; `time_m_sync` reads the clock before it takes its lock (time.c:14), which adds that
wait to the error.

### Fairness

Weak fairness for each thread inside the program: a thread that can take its next step does. What need not end in
the code has none: a request in `AppIf`, a packet and a send to a peer in `ClipIf`, and in `AppProtocol` a copy and a paste
once somebody has called `clipboard_wait`. Where the end of the whole depends on them, the property has that as a
premise (`RequestsEnd`, `PacketsEnd`, `SendsEnd`, `MemoryReturns`), and without it TLC finds the property violated. Strong fairness where a
thread competes for a mutex that others take and give back (`AppIf`, `ClipIf`): mutexes are not fair in POSIX, and a
thread that is kept from one for ever by others is the only thing this excludes. `ClMem` has weak fairness for the steps in
the lock, and for a slave between two requests to end once main waits for it (it is cancelled). `TimeSync`: the clock thread
ticks, slaves and listeners go on; nobody has to connect. `ClipNet`: slaves, broadcasters and listeners go on; nobody has to copy,
join or leave. That handling a copy ends is an assumption there, as it is in `TimeSync`: it is justified for applications that
only copy, by `CallsReturn` of `ClMem`, and not when one calls `mem_wait` (4), a peer does not read, or the listener has
kept `clipif->lock` (7); then the flood stops where the thread does, and `Settles` says nothing. `Daemon`: somebody tries to start daemons again and again, strongly fair in that the port is
not taken each time; nobody has to press `q` and no parent has to answer. Nothing else external is fair: peers and
applications need not connect, send, or hang up, and no spurious wake-up is relied on.

### Abstractions

Data is a size (`ClMem`), a message (`Queue`), a copy's identity (`ClipNet`), a few bytes (`AppProtocol`). There is one
region: the ten of the code share no state. `malloc` succeeds. Between clipboards a packet arrives whole or the connection ends.
Sockets are written without blocking in `ClipNet`, `TimeSync` and `AppProtocol`; in `ClipIf` a send takes any time, or for
ever. A connection of the interfaces is used once, so that reuse of descriptors is
seen in `ClipNet` only. `pthread_cancel` takes effect at `recv`, `accept`, `close` and, in the clock, `sleep`. In `ClipNet` a
copy's time stamp is any member of `Stamps`, which covers clocks that differ or are set back, and `owed` remembers
for the properties what was placed at a clipboard while a neighbour was in one of its slots; `Leave` is one step, although
the memory is emptied before the threads end. In `TimeSync` a child that has its hello is taken to have its slot, the
readings of the clock after the hello are one, and a time is used
within `MaxDelay` of its writing, and `trusted` and `measured` remember which clocks have been told a time since the last
one was set. In `AppProtocol` the clean-up of the library after an answer that is too long is left out: the buffer has
overflowed by then, and `InStep` says that no such answer comes but for 2 above.

## Proofs

Eight modules, 40 listed theorems; every invariant, every action property and both refinements that a passing run checks are
among them. Each follows the same argument: an inductive invariant that holds at the start, one lemma for each action (or
for each thread) that says it is kept, and the property as a consequence.

* `ClMemProofs`, first the lock, for every finite `Threads`: `Exclusion` under `LockSpec`, with callers that do not wait for
  updates (with them, `WaitSpec`, it does not hold: 1 above). Exclusion is not inductive: the state has to say who may hold the
  semaphore. `LockInv` adds that the mutex is owned by the thread in its section, that a loaded counter is current, that the
  counter is the number of threads counted in, and that the semaphore is a token held by nobody, one writer, or the readers as
  a group. Then the region, for all threads, payloads, buffers and numbers of calls, under `Waiters = {}`: nobody calls `mem_wait`,
  without which `LockInv` fails. `HeapOwnership`, `Exclusion` for the real callers, and the refinement `IsRegister`. `MemIInv` adds
  to `LockInv` what each place in clmem.c has of the lock (`PlaceInv`), that private buffers hold the payload that is being copied
  (`BufInv`), who owns which buffer (`OwnInv`), and that size and data belong together except between the two assignments of
  the one writer, and that the size a reader saw is still the size when it copies (`RegionInv`). For the refinement, a copy takes
  effect in `PutAccept`, a paste in `GetCopy`, everything else is a stutter.
* `QueueProofs`, for any finite sets of producers and nodes and any messages: `ListInv` and the refinement `IsFifo`. The invariant
  says that there is a sequence `s` of different nodes that `first`, `next`, `last` and `nElements` agree with (`SoundInv`), and
  that each node in use is in `s` or in the hands of one thread (`OwnInv`). A push makes it `Append(s, n)`, a pop `Tail(s)`, and
  their messages are the queue of `FifoQueue`. That `s` is what the recursive function `List` finds is the one induction needed
  (`OneChain`); it is made over a number, as the least one for which the two differ. The thread that signals or frees is past
  its step of `FifoQueue`.
* `AppIfProofs`, for every finite `Conns` and every `MaxApps`: one owner of the lock, agreement of counter, slots and slaves, no
  zombie, nothing used that was freed. The invariant adds `PlaceInv`, what holds of the indices at the places of the threads.
* `ClipIfProofs`, for every finite `Conns`, every `MaxClips` and `MaxPush`: the same, `SendStable` (an action property), `OneClock` and
  `GoodbyeSent`. The invariant adds the owners of `clipif->lock` and of the locks of the slots (`OwnerInv`, `SlotLockInv`); the clock and
  the goodbye have inductive parts of their own on top of it (`ClockInv`, `GoodbyeInv`).
* `ClipNetProofs`, for any number of clipboards, copies and departures and any stamps: `Delivery`, `SenderHas`, `Agreement`. The
  invariant says who is connected with whom (`MemberInv`), that a clipboard that does not run has nothing (`IdleInv`), that what is
  under way was made (`KnownInv`), that each clipboard still has, or has something as new as, what it passes on (`HasInv`), and that
  what is owed is at one of the stations of its way or superseded (`DeliveryInv`). Sequences occur by their elements only.
  `NoReturn` needs the shape of the network: `PathInv` says there is an assignment `up` of ancestors, which no variable holds,
  under which all clipboards there ever were form a forest (`Forest`), every connection, also one that only a packet under way
  remembers, is an edge of it (`TreeInv`), and a copy travels only away from its home (`AwayInv`). A clipboard that joins
  becomes a leaf; one that leaves stays in the forest, so that what it sent still has a direction.
* `AppProtocolProofs`, for any payloads of less than 256 bytes, any room and any number of calls: `OwnAnswer`, `CloseIsSafe`, `InStep`
  and the types. The
  invariant lists the stages of a call (`Idle` to `ReadAll`) with what is on the two streams at each: the one request, or the one response
  that says `given`, or its head read and its data left. It rests on the layout of the packets (`FetchLayout`, `DataLayout`): where the type,
  the size and the data are, and that taking and dropping what one side wrote leaves nothing. It is given up where a response is sent twice. What `InStep` says
  of the requests holds even then, and needs an invariant of its own, `StreamInv`: whatever the library reads, the bytes to the slave
  are a sequence of whole requests from where the slave has read to (`Framed`), cut short only when the process is gone. `FitsInv`
  adds that no answer is longer than the room the request names.
* `TimeSyncProofs`, for any tree of clipboards, any width of the numbers, any delays and jumps: `SkewBound` and the types. Differences
  of times that wrap around have no order, so all of it is said on the circle of `Cycle = Modulus * Grain` steps: `Near(x, lo, hi)`,
  that `x` plus some number of turns is between `lo` and `hi`. `Base(n)` is how far the network time of `n` is ahead of real
  time; it does not change while time passes. The invariant bounds `Base(n) - Base(Top(n))` by the distance of `n` from its
  root (`SkewInv`), and says the same of each packet under way with its age (`PacketInv`), of what a slave is about to store
  (`StoreInv`), and of the delay that is being measured (`MeasureInv`). When a connection ends, those below it have
  a new root, and are not trusted until its time has reached them; the packets under way to them are not good any more. `ClockFace`, `ModScaled` and
  `Rounded` are the arithmetic of `time()`, of unsigned subtraction, and of the last rounding to seconds. The tree enters
  by the set `Way(n, Tops)` of clipboards between `n` and its root, whose size is the distance.
* `DaemonProofs`, for any set of daemons and number of kills: `Served`, `NothingLeft`, from an invariant on who has bound the name.

Assumptions are those stated with the constants of each module, which TLC evaluates in the runs, and `Waiters = {}` where said.

Model-checked only: liveness (`CallsReturn`, `ShutdownEnds`, `Drained`, `FinalizeEnds`, `Settles`, `Repaired`, `Recovers`), which is out of
the prover's reach; and what `ClMem` does with callers of `mem_wait`, where `LockInv` does not hold: `HeapOwnership` and `IsRegister`
are then checked by `clmem` for one waiter only.

## Not modelled, and what is left

* `rw_lock_destroy` and `queue_destroy` run when no other thread is left; that moment is in the models, what they free is not.
* Failures of `malloc` and of `pthread_*_init`, the command line and the network addresses: checks before anything is shared.
* Messages on the terminal but for the double close of 11. A thread may be cancelled while it prints, with `print_lock` held.
* The clean-up of the library after answers that are too long, and `recvData` after a signal.
* Blocking `sendData` in `ClipNet`: two clipboards that do not read because each of them writes to the other. It would need
  bounded links, and the states of `ClipNet` already fill its run. In `ClipIf` the broadcaster may stay in a send, with the
  lock of the slot held.
* `mem_wait` in `ClipNet`: its applications copy only.
* The two test clients, which only use the library.

What could be added: bounded links and applications that wait, as said; cancellation inside `time_m_now` and the messages; theorems about the memory while
somebody waits for an update.
