------------------------------ MODULE TimeSync ------------------------------
(***************************************************************************)
(* The network clock: utils/time.c and the time packets of                 *)
(* interfaces/clipif.c, on a tree of clipboards.                           *)
(*                                                                         *)
(* time() counts seconds, modulo 2^32; real time passes in smaller steps,  *)
(* Grain of them to a second, so that clocks of different machines change  *)
(* at different moments.  Modulus stands for 2^32 and all time is modulo   *)
(* Modulus, so that every run wraps around, and goes on for ever.          *)
(*                                                                         *)
(* age is how long ago a time was written into a packet.  That it is used  *)
(* within MaxDelay is the assumption under which clocks agree: it stands   *)
(* for the locks, the queue, the socket and the scheduler on the way.  The *)
(* wait for the lock in time_m_sync has the same bound, to have few states.*)
(***************************************************************************)
EXTENDS Naturals, Sequences, FiniteSets

CONSTANTS Nodes, Root,
          Parent,      \* Parent[n]: the clipboard n is started with
          Modulus,     \* of unsigned arithmetic
          Grain,       \* steps of real time in a second
          Offset,      \* Offset[n]: what the clock of n is ahead of real time at first
          Restless,    \* machines on which somebody sets the clock
          Jumps,       \* what clocks are set ahead by
          MaxDelay,    \* until a time in a packet is used
          MaxAccept,   \* until a connection is accepted
          MaxQueue,    \* bound: packets in a queue and on a link
          MaxSteps     \* bound: times somebody sets the clock of a machine

\* A clipboard is started with one that runs, so that parents lead to the root.
ASSUME TimeAssumption ==
  /\ Root \in Nodes /\ IsFiniteSet(Nodes) /\ Parent \in [Nodes \ {Root} -> Nodes]
  /\ \A S \in (SUBSET Nodes) \ {{}} : (\A n \in S \ {Root} : Parent[n] \in S) => Root \in S
  /\ {Modulus, Grain, MaxQueue} \subseteq Nat \ {0}
  /\ {MaxDelay, MaxAccept, MaxSteps} \subseteq Nat
  /\ Offset \in [Nodes -> 0..(Modulus * Grain - 1)] /\ Restless \subseteq Nodes /\ Jumps \subseteq Nat

VARIABLES
  now, offset,       \* real time; the clock of n is offset[n] ahead
  timeStarted,       \* time_started
  link,              \* with the parent: off, connect, hello, up; top: a root
  t1, waited,        \* clipif_init: local time at connect, and how long ago it was
  parentDelay,
  chan,              \* chan[n]: times for n, in the queue of Parent[n] and on the link
  spc, sync,         \* the slave of the parent, in time_m_sync: now and real_now
  trusted,           \* history: clipboards whose time can be told from the top's
  measured,          \* history: no clock was set while parentDelay was measured
  steps

timeVars == <<now, offset, timeStarted, link, t1, waited, parentDelay, chan,
              spc, sync, trusted, measured, steps>>

Mod(x) == x % Modulus
Packet(t, g) == [time |-> t, age |-> 0, good |-> g]
Packets == [time : 0..(Modulus - 1), age : 0..MaxDelay, good : BOOLEAN]

NoSync == [now |-> 0, real |-> 0, age |-> 0, good |-> FALSE]

\* Mutant: only the root of all sends the time on.
ChildrenOfRoot(n) == {c \in Nodes \ {Root} : Parent[c] = n /\ n = Root}

Children(n) == {c \in Nodes \ {Root} : Parent[c] = n}
Runs(n) == link[n] \in {"up", "top"}

\* time_m_local and time_m_now
Local(n) == ((now + offset[n]) % (Modulus * Grain)) \div Grain
Now(n) == Mod(Local(n) + Modulus - timeStarted[n])

\* A root is its own reference, the others have the root of their tree: Way(n, T) is
\* the way from n up to the first of T, the smallest set with n and with the parents
\* of all that are not in T.
Tops == {n \in Nodes : n = Root \/ link[n] = "top"}
Way(n, T) ==
  {m \in Nodes : \A S \in SUBSET Nodes : n \in S /\ (\A k \in S \ T : Parent[k] \in S) => m \in S}
Top(n) == CHOOSE m \in Way(n, Tops) \cap Tops : TRUE
Depth(n) == Cardinality(Way(n, Tops)) - 1
Below(n) == {m \in Nodes \ {n} : n \in Way(m, Tops)}

TimeInit ==
  /\ now = 0
  /\ offset = Offset
  /\ timeStarted = [n \in Nodes |-> 0]
  /\ link = [n \in Nodes |-> IF n = Root THEN "top" ELSE "off"]
  /\ t1 = [n \in Nodes |-> 0] /\ waited = [n \in Nodes |-> 0]
  /\ parentDelay = [n \in Nodes |-> 0]
  /\ chan = [n \in Nodes |-> <<>>]
  /\ spc = [n \in Nodes |-> "recv"]
  /\ sync = [n \in Nodes |-> NoSync]
  /\ trusted = {Root} /\ measured = Nodes
  /\ steps = 0
-----------------------------------------------------------------------------
(* Real time.                                                              *)

Older(p) == [p EXCEPT !.age = @ + 1]

Tick ==
  /\ \A n \in Nodes : \A i \in DOMAIN chan[n] : chan[n][i].age < MaxDelay
  /\ \A n \in Nodes : spc[n] = "store" => sync[n].age < MaxDelay
  /\ \A n \in Nodes : link[n] = "connect" => waited[n] < MaxAccept
  /\ now' = (now + 1) % (Modulus * Grain)
  /\ waited' = [n \in Nodes |-> IF link[n] = "connect" THEN waited[n] + 1 ELSE 0]
  /\ chan' = [n \in Nodes |-> [i \in DOMAIN chan[n] |-> Older(chan[n][i])]]
  /\ sync' = [n \in Nodes |-> IF spc[n] = "store" THEN Older(sync[n]) ELSE sync[n]]
  /\ UNCHANGED <<offset, timeStarted, link, t1, parentDelay, spc, trusted, measured, steps>>

Bad(p) == [p EXCEPT !.good = FALSE]

\* The clipboards in N, told by another reference from now on, no longer know their time.
Void(N) ==
  /\ chan' = [n \in Nodes |-> IF link'[n] = "top" THEN <<>>
                               ELSE IF n \in N THEN [i \in DOMAIN chan[n] |-> Bad(chan[n][i])] ELSE chan[n]]
  /\ sync' = [n \in Nodes |-> IF n \in N THEN Bad(sync[n]) ELSE sync[n]]

\* Somebody sets the clock of a machine.
SetClock(n, by) ==
  /\ steps < MaxSteps /\ steps' = steps + 1
  /\ Runs(n) \/ link[n] \in {"connect", "hello"}
  /\ UNCHANGED link
  /\ offset' = [offset EXCEPT ![n] = (@ + by) % (Modulus * Grain)]
  /\ measured' = IF Runs(n) THEN measured ELSE measured \ {n}
  /\ IF link[n] = "top"
     THEN trusted' = trusted \ Below(n) /\ Void(Below(n))
     ELSE trusted' = trusted \ {n} /\ sync' = [sync EXCEPT ![n] = Bad(@)] /\ UNCHANGED chan
  /\ UNCHANGED <<now, timeStarted, t1, waited, parentDelay, spc>>
-----------------------------------------------------------------------------
(* clipif_init and the hello of clipif_listen.                             *)

Connect(n) ==
  /\ link[n] = "off" /\ Runs(Parent[n])
  /\ link' = [link EXCEPT ![n] = "connect"]
  /\ t1' = [t1 EXCEPT ![n] = Local(n)]
  /\ UNCHANGED <<now, offset, timeStarted, waited, parentDelay, chan, spc, sync, trusted, measured, steps>>

\* The time is read before the lock of the interface is asked for; the new connection
\* gets its slot after the hello, and then what is in the queue.
Accept(n) ==
  /\ link[n] = "connect"
  /\ link' = [link EXCEPT ![n] = "hello"]
  /\ chan' = [chan EXCEPT ![n] = <<Packet(Now(Parent[n]), Parent[n] \in trusted)>> \o @]
  /\ UNCHANGED <<now, offset, timeStarted, t1, waited, parentDelay, spc, sync, trusted, measured, steps>>

\* Mutants of time_started = real_now - now: no negative result; no wrap-around.
SinceSaturated(real, t) == IF real > t THEN real - t ELSE 0
SinceWide(real, t) == real + Modulus - t

Since(real, t) == Mod(real + Modulus - t)

\* Half of what it took to hear from the parent, in unsigned arithmetic.  The readings
\* of the clock after the hello (clipif.c:470-474) are one, as MaxDelay allows for what
\* passes between them.
Hello(n) ==
  /\ link[n] = "hello"
  /\ LET delay == Mod(Local(n) + Modulus - t1[n]) \div 2
         p == Head(chan[n])
     IN /\ parentDelay' = [parentDelay EXCEPT ![n] = delay]
        /\ timeStarted' = [timeStarted EXCEPT ![n] = Since(Local(n), Mod(p.time + delay))]
        /\ trusted' = IF p.good /\ n \in measured THEN trusted \cup {n} ELSE trusted \ {n}
  /\ chan' = [chan EXCEPT ![n] = Tail(@)]
  /\ link' = [link EXCEPT ![n] = "up"]
  /\ t1' = [t1 EXCEPT ![n] = 0]
  /\ UNCHANGED <<now, offset, waited, spc, sync, measured, steps>>
-----------------------------------------------------------------------------
(* The clock thread, and the slave of the parent.                          *)

\* clipif_add_broadcast and clipif_broadcast: p goes to every child, and to one that
\* is not accepted yet if it is in the queue so long.  One that has its hello is taken
\* to have its slot (clipif.c:365-393).
Send(n, p) ==
  \E late \in SUBSET {c \in Children(n) : link[c] = "connect"} :
    LET to == late \cup {c \in Children(n) : link[c] \in {"hello", "up"}}
    IN /\ \A c \in to : Len(chan[c]) < MaxQueue
       /\ chan' = [c \in Nodes |-> IF c \in to THEN Append(chan[c], p) ELSE chan[c]]

\* A turn of clipif_clock_man.  The packet is passed by reference; if it is still
\* queued at the next turn it is sent with the new time, as if it had been made then.
ClockMan(n) ==
  /\ link[n] = "top"
  /\ Send(n, Packet(Now(n), TRUE))
  /\ UNCHANGED <<now, offset, timeStarted, link, t1, waited, parentDelay, spc, sync, trusted, measured, steps>>

\* PACKET_TIME_SYNC from the parent; time_m_sync reads the clock ...
SyncRead(n) ==
  /\ link[n] = "up" /\ spc[n] = "recv" /\ chan[n] # <<>>
  /\ LET p == Head(chan[n]) IN
       sync' = [sync EXCEPT ![n] = [now |-> Mod(p.time + parentDelay[n]), real |-> Local(n), age |-> 0,
                                    good |-> p.good /\ n \in measured]]
  /\ chan' = [chan EXCEPT ![n] = Tail(@)]
  /\ spc' = [spc EXCEPT ![n] = "store"]
  /\ UNCHANGED <<now, offset, timeStarted, link, t1, waited, parentDelay, trusted, measured, steps>>

\* Mutant: the delay of the parent is added for the children as well.
StampDelayed(n) == Mod(Local(n) + Modulus - timeStarted'[n] + parentDelay[n])

Stamp(n) == Mod(Local(n) + Modulus - timeStarted'[n])

\* ... and sets time_started once it has the lock.  The time that goes to the
\* children is read again.
SyncStore(n) ==
  /\ spc[n] = "store"
  /\ timeStarted' = [timeStarted EXCEPT ![n] = Since(sync[n].real, sync[n].now)]
  /\ trusted' = IF sync[n].good THEN trusted \cup {n} ELSE trusted \ {n}
  /\ Send(n, Packet(Stamp(n), sync[n].good))
  /\ spc' = [spc EXCEPT ![n] = "recv"]
  /\ sync' = [sync EXCEPT ![n] = NoSync]
  /\ UNCHANGED <<now, offset, link, t1, waited, parentDelay, measured, steps>>

\* The connection with the parent ends: n goes on as a root, with the time it has.
BecomeRoot(n) ==
  /\ link[n] = "up" /\ spc[n] = "recv"
  /\ link' = [link EXCEPT ![n] = "top"]
  /\ trusted' = (trusted \ Below(n)) \cup {n}
  /\ Void(Below(n) \cup {n})
  /\ UNCHANGED <<now, offset, timeStarted, t1, waited, parentDelay, spc, measured, steps>>
-----------------------------------------------------------------------------
Slave(n) == SyncRead(n) \/ SyncStore(n)

TimeNext ==
  \/ Tick
  \/ \E n \in Restless : \E by \in Jumps : SetClock(n, by)
  \/ \E n \in Nodes \ {Root} : Connect(n) \/ Accept(n) \/ Hello(n) \/ BecomeRoot(n)
  \/ \E n \in Nodes : ClockMan(n) \/ Slave(n)

TimeSpec == TimeInit /\ [][TimeNext]_timeVars

\* Threads run; the clock thread ticks again and again.  As in ClipNet, the slave of
\* the parent is taken to get through the other packets it handles, the copies.
FairTimeSpec ==
  /\ TimeSpec
  /\ \A n \in Nodes : WF_timeVars(ClockMan(n)) /\ WF_timeVars(Slave(n))
  /\ \A n \in Nodes \ {Root} : WF_timeVars(Accept(n)) /\ WF_timeVars(Hello(n))
-----------------------------------------------------------------------------
(* Correctness.                                                            *)

TimeTypeOK ==
  /\ now \in 0..(Modulus * Grain - 1) /\ offset \in [Nodes -> 0..(Modulus * Grain - 1)]
  /\ timeStarted \in [Nodes -> 0..(Modulus - 1)]
  /\ link \in [Nodes -> {"off", "connect", "hello", "up", "top"}]
  /\ t1 \in [Nodes -> 0..(Modulus - 1)] /\ waited \in [Nodes -> 0..MaxAccept]
  /\ parentDelay \in [Nodes -> 0..(Modulus - 1)]
  /\ \A n \in Nodes : chan[n] \in Seq(Packets)
  /\ spc \in [Nodes -> {"recv", "store"}]
  /\ sync \in [Nodes -> [now : 0..(Modulus - 1), real : 0..(Modulus - 1), age : 0..MaxDelay, good : BOOLEAN]]
  /\ trusted \subseteq Nodes /\ measured \subseteq Nodes

\* What a hop adds, in steps: half of the time to join, in full seconds, ahead, or the
\* delay of a packet behind; and what is lost when the time is rounded to seconds.
Round == Grain - 1
Ahead == Grain * (((MaxAccept + MaxDelay + Round) \div Grain) \div 2) + Round
Behind == MaxDelay + Round
Seconds(hops, d) == (hops * d + Round) \div Grain

\* The network time of a clipboard (time_m_now) differs from the one at the root of
\* its tree by no more than its distance allows, from the hello on, and across the
\* wrap-around of every clock, unless a clock was set since.
SkewBound ==
  \A n \in trusted :
    LET skew == Mod(Now(n) + Modulus - Now(Top(n)))
    IN skew <= Seconds(Depth(n), Ahead) \/ skew >= Modulus - Seconds(Depth(n), Behind)

\* When clocks are no longer set, the time of every clipboard comes back to that of
\* its root, and stays.  A clock that was set while the delay was measured leaves
\* a wrong parentDelay behind for good, there and below (clipif.c:473).
Spoilt(n) == \E m \in Way(n, Tops) \ Tops : m \notin measured
Repaired == <>[](\A n \in Nodes : Runs(n) => n \in trusted \/ Spoilt(n))
=============================================================================
