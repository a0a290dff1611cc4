----------------------------- MODULE DaemonProofs -----------------------------
(***************************************************************************)
(* Served and NothingLeft of Daemon, for any set of daemons and any number *)
(* of them that are killed.                                                *)
(***************************************************************************)
EXTENDS Daemon, TLAPS

\* From bind to the end of the process: whoever is there has bound the name, or has
\* found it taken and is about to remove it.
Past(d) == pc[d] \in {"parent", "hello", "apps", "serve", "finish", "close", "closeAll",
                      "remove", "hung"}

\* The listeners' sockets are open from the start to CloseListeners ...
OpenInv ==
  \A d \in Daemons : pc[d] \notin {"off", "remove", "hung"} => "apps" \in open[d] /\ "clips" \in open[d]

\* ... the name leads to somebody who bound it, or was left by one that was killed ...
PathInv ==
  /\ path \in Daemons => Past(path)
  /\ path = Stale => kills > 0

\* ... and as long as nobody found it taken, it is the name of whoever got that far.
OwnerInv == ~intruded => \A d \in Daemons : Past(d) => path = d

DaemonIInv == DaemonTypeOK /\ OpenInv /\ PathInv /\ OwnerInv
-----------------------------------------------------------------------------
\* Before anybody starts there is no name and nothing is open.
THEOREM DaemonStart == DaemonInit => DaemonIInv
<1> SUFFICES ASSUME DaemonInit PROVE DaemonIInv
  OBVIOUS
<1>1. DaemonTypeOK
  <2>1. kills \in 0..MaxKills
    BY DaemonAssumption DEF DaemonInit
  <2>2. open \in [Daemons -> SUBSET Sockets]
    BY DEF DaemonInit
  <2> QED BY <2>1, <2>2 DEF DaemonInit, DaemonTypeOK
<1>2. OpenInv /\ PathInv /\ OwnerInv
  BY DaemonAssumption DEF DaemonInit, OpenInv, PathInv, OwnerInv, Past
<1> QED BY <1>1, <1>2 DEF DaemonIInv

\* Steps that neither bind nor end anything, and open no socket less than is open.
LEMMA StartStep ==
  ASSUME DaemonIInv, NEW d \in Daemons,
         \/ Start(d) \/ BindNet(d) \/ BindUnixFails(d) \/ Connect(d) \/ Alone(d) \/ ParentFails(d)
         \/ Hello(d) \/ HelloFails(d) \/ Serve(d) \/ ServeFails(d) \/ Quit(d) \/ Finalized(d)
  PROVE  DaemonIInv'
<1> USE DaemonAssumption
    DEF DaemonIInv, DaemonTypeOK, OpenInv, PathInv, OwnerInv, Past, Sockets, Go, Opened
<1>1. CASE Start(d)
  BY <1>1 DEF Start
<1>2. CASE BindNet(d)
  BY <1>2 DEF BindNet
<1>3. CASE BindUnixFails(d)
  BY <1>3 DEF BindUnixFails
<1>4. CASE Connect(d)
  BY <1>4 DEF Connect
<1>5. CASE Alone(d) \/ ParentFails(d) \/ Hello(d)
  BY <1>5 DEF Alone, ParentFails, Hello
<1>6. CASE HelloFails(d)
  BY <1>6 DEF HelloFails
<1>7. CASE Serve(d)
  BY <1>7 DEF Serve
<1>8. CASE ServeFails(d)
  BY <1>8 DEF ServeFails
<1>9. CASE Quit(d) \/ Finalized(d)
  BY <1>9 DEF Quit, Finalized
<1> QED BY <1>1, <1>2, <1>3, <1>4, <1>5, <1>6, <1>7, <1>8, <1>9

\* Steps at which the name or what it leads to changes.
LEMMA EndStep ==
  ASSUME DaemonIInv, NEW d \in Daemons,
         BindNetFails(d) \/ BindUnix(d) \/ Close(d) \/ CloseAll(d) \/ Remove(d) \/ Kill(d)
  PROVE  DaemonIInv'
<1> USE DaemonAssumption
    DEF DaemonIInv, DaemonTypeOK, OpenInv, PathInv, OwnerInv, Past, Sockets, Go, End
<1>1. CASE BindNetFails(d)
  BY <1>1 DEF BindNetFails
<1>2. CASE BindUnix(d)
  BY <1>2 DEF BindUnix
<1>3. CASE Close(d)
  BY <1>3 DEF Close, CloseListeners
<1>4. CASE CloseAll(d)
  BY <1>4 DEF CloseAll, CloseListeners
<1>5. CASE Remove(d)
  BY <1>5 DEF Remove
<1>6. CASE Kill(d)
  BY <1>6 DEF Kill
<1> QED BY <1>1, <1>2, <1>3, <1>4, <1>5, <1>6

\* Whose name it is, and who is behind it.
THEOREM DaemonInvariant == DaemonSpec => []DaemonIInv
<1>1. DaemonIInv /\ [DaemonNext]_daemonVars => DaemonIInv'
  <2> SUFFICES ASSUME DaemonIInv, [DaemonNext]_daemonVars PROVE DaemonIInv'
    OBVIOUS
  <2>1. CASE DaemonNext
    BY <2>1, StartStep, EndStep DEF DaemonNext, Starting
  <2>2. CASE UNCHANGED daemonVars
    BY <2>2 DEF daemonVars, DaemonIInv, DaemonTypeOK, OpenInv, PathInv, OwnerInv, Past
  <2> QED BY <2>1, <2>2
<1> QED BY DaemonStart, <1>1, PTL DEF DaemonSpec

\* The variables keep their types, and the sockets are those of the place in main.
THEOREM DaemonTypes == DaemonSpec => []DaemonTypeOK
BY DaemonInvariant, PTL DEF DaemonIInv

\* A daemon that runs is the one that applications in its directory reach, unless
\* another one was started there (clipboard.c:81).
THEOREM DaemonServed == DaemonSpec => []Served
<1>1. DaemonIInv => Served
  BY DEF DaemonIInv, OpenInv, OwnerInv, Past, Served, Reached
<1> QED BY <1>1, DaemonInvariant, PTL

\* Nobody leaves a name behind that leads nowhere, but by being killed or hanging.
THEOREM DaemonNothingLeft == DaemonSpec => []NothingLeft
<1>1. DaemonIInv => NothingLeft
  BY DEF DaemonIInv, OpenInv, PathInv, Past, NothingLeft, Dangling
<1> QED BY <1>1, DaemonInvariant, PTL
=============================================================================
