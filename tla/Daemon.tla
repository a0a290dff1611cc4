-------------------------------- MODULE Daemon --------------------------------
(***************************************************************************)
(* clipboard.c: start and end of daemons in one directory.  Each binds its *)
(* applications' socket to the same name there, CLIPBOARD_SOCKET, and      *)
(* removes that name when it ends or fails, whoever it leads to.           *)
(*                                                                         *)
(* A number in Daemons is free again when its process has ended.  What     *)
(* runs between the start and the 'q' is in the other modules; whatever    *)
(* can fail outside of the directory (arguments, ports, the parent,        *)
(* memory) may fail at any time.  SHOW_ERRORS is defined (common.h:9).     *)
(***************************************************************************)
EXTENDS Naturals

CONSTANTS Daemons,
          None, Stale,   \* no name; it leads to a process that is no more
          MaxKills       \* bound: processes that are killed

ASSUME DaemonAssumption ==
  /\ None \notin Daemons /\ Stale \notin Daemons /\ None # Stale
  /\ MaxKills \in Nat

VARIABLES
  path,       \* whose socket CLIPBOARD_SOCKET leads to
  pc,         \* place in main
  open,       \* open[d]: its sockets, those of listeners and the one to the parent
  intruded,   \* history: somebody found the name taken
  kills       \* processes that were killed

daemonVars == <<path, pc, open, intruded, kills>>

Sockets == {"clips", "apps", "parent"}

DaemonTypeOK ==
  /\ path \in Daemons \cup {None, Stale}
  /\ pc \in [Daemons -> {"off", "net", "unix", "parent", "hello", "apps", "serve", "finish",
                         "close", "closeAll", "remove", "hung"}]
  /\ open \in [Daemons -> SUBSET Sockets]
  /\ intruded \in BOOLEAN /\ kills \in 0..MaxKills
  /\ \A d \in Daemons :
       /\ pc[d] \in {"serve", "finish"} => {"clips", "apps"} \subseteq open[d]
       /\ pc[d] \in {"remove", "hung"} => open[d] \subseteq {"parent"}
       /\ pc[d] = "off" => open[d] = {}

DaemonInit ==
  /\ path = None
  /\ pc = [d \in Daemons |-> "off"]
  /\ open = [d \in Daemons |-> {}]
  /\ intruded = FALSE /\ kills = 0

Go(d, from, to) == pc[d] = from /\ pc' = [pc EXCEPT ![d] = to]
Opened(d, s) == open' = [open EXCEPT ![d] = @ \cup s]

\* The process ends: a name that leads to it leads nowhere.
End(d, left) ==
  /\ pc' = [pc EXCEPT ![d] = "off"]
  /\ open' = [open EXCEPT ![d] = {}]
  /\ path' = IF left = d THEN Stale ELSE left
-----------------------------------------------------------------------------
(* The start.                                                              *)

\* A port on the command line, and two sockets (a start without is no start).
Start(d) ==
  /\ Go(d, "off", "net")
  /\ Opened(d, {"clips", "apps"})
  /\ UNCHANGED <<path, intruded, kills>>

BindNet(d) == Go(d, "net", "unix") /\ UNCHANGED <<path, open, intruded, kills>>

\* Mutant: the clean-up is the same as that of the later failures.
BindNetFailsRemoves(d) == Go(d, "net", "close") /\ UNCHANGED <<path, open, intruded, kills>>

\* The port is taken.
BindNetFails(d) == pc[d] = "net" /\ End(d, path) /\ UNCHANGED <<intruded, kills>>

BindUnix(d) ==
  /\ path = None
  /\ Go(d, "unix", "parent")
  /\ path' = d
  /\ UNCHANGED <<open, intruded, kills>>

\* Mutant: the name is left to whom it belongs.
BindUnixKeeps(d) ==
  /\ path # None /\ pc[d] = "unix"
  /\ End(d, path)
  /\ intruded' = TRUE
  /\ UNCHANGED kills

\* EADDRINUSE: somebody runs here, or was killed here.
BindUnixFails(d) ==
  /\ path # None
  /\ Go(d, "unix", "close")
  /\ intruded' = TRUE
  /\ UNCHANGED <<path, open, kills>>

\* With -c: a connection to the parent; without: clipif_init has little to do.
Connect(d) ==
  /\ Go(d, "parent", "hello")
  /\ Opened(d, {"parent"})
  /\ UNCHANGED <<path, intruded, kills>>

Alone(d) == Go(d, "parent", "apps") /\ UNCHANGED <<path, open, intruded, kills>>

\* Mutant: a failure that leaves the name behind.
ParentFailsLeaves(d) == pc[d] = "parent" /\ End(d, path) /\ UNCHANGED <<intruded, kills>>

\* Arguments that are no address, a parent that is not there.
ParentFails(d) == Go(d, "parent", "close") /\ UNCHANGED <<path, open, intruded, kills>>

\* clipif_init has the time of the parent (which may never send it).
Hello(d) == Go(d, "hello", "apps") /\ UNCHANGED <<path, open, intruded, kills>>

\* The parent hangs up first: clipif_init closes the socket to it.
HelloFails(d) ==
  /\ Go(d, "hello", "closeAll")
  /\ open' = [open EXCEPT ![d] = @ \ {"parent"}]
  /\ UNCHANGED <<path, intruded, kills>>

\* appif_init; then the listeners.
Serve(d) == Go(d, "apps", "serve") /\ UNCHANGED <<path, open, intruded, kills>>

\* appif_init fails.  The slave of the parent may have closed its socket already.
ServeFails(d) ==
  /\ Go(d, "apps", IF "parent" \in open[d] THEN "closeAll" ELSE "close")
  /\ open' \in {open, [open EXCEPT ![d] = @ \ {"parent"}]}
  /\ UNCHANGED <<path, intruded, kills>>
-----------------------------------------------------------------------------
(* The end.                                                                *)

Quit(d) == Go(d, "serve", "finish") /\ UNCHANGED <<path, open, intruded, kills>>

\* The listeners and interfaces are finished.
Finalized(d) == Go(d, "finish", "close") /\ UNCHANGED <<path, open, intruded, kills>>

CloseListeners(d, to) ==
  /\ pc' = [pc EXCEPT ![d] = to]
  /\ open' = [open EXCEPT ![d] = @ \ {"clips", "apps"}]
  /\ UNCHANGED <<path, intruded, kills>>

\* Mutant: the applications' socket stays open.
CloseClips(d) ==
  /\ Go(d, "close", "remove")
  /\ open' = [open EXCEPT ![d] = @ \ {"clips"}]
  /\ UNCHANGED <<path, intruded, kills>>

Close(d) == pc[d] = "close" /\ CloseListeners(d, "remove")

\* As clipif_init and appif_init fail, the socket to the parent is closed as well.
\* If it is closed already, main waits for print_lock, which it has (common.h:86-89).
CloseAll(d) ==
  /\ pc[d] = "closeAll"
  /\ CloseListeners(d, IF "parent" \in open[d] THEN "remove" ELSE "hung")

\* remove("CLIPBOARD_SOCKET"), and main returns.
Remove(d) == pc[d] = "remove" /\ End(d, None) /\ UNCHANGED <<intruded, kills>>

\* Somebody, or a signal that the program does not handle, kills the process.
Kill(d) ==
  /\ pc[d] # "off"
  /\ End(d, path)
  /\ kills < MaxKills /\ kills' = kills + 1
  /\ UNCHANGED intruded
-----------------------------------------------------------------------------
Starting(d) ==
  \/ BindNetFails(d) \/ BindUnix(d) \/ BindUnixFails(d)
  \/ Connect(d) \/ Alone(d) \/ ParentFails(d)
  \/ Serve(d) \/ ServeFails(d)
  \/ Close(d) \/ CloseAll(d) \/ Remove(d)

DaemonNext ==
  \E d \in Daemons :
    \/ Start(d) \/ BindNet(d) \/ Starting(d) \/ Hello(d) \/ HelloFails(d)
    \/ Quit(d) \/ Finalized(d) \/ Kill(d)

DaemonSpec == DaemonInit /\ [][DaemonNext]_daemonVars

\* Somebody starts daemons again and again, and not always on a port that is taken.
\* The parent need not answer, nobody need press 'q', and that the threads finish is
\* the matter of ClMem, AppIf and ClipIf.
FairDaemonSpec ==
  /\ DaemonSpec
  /\ \A d \in Daemons : WF_daemonVars(Start(d)) /\ SF_daemonVars(BindNet(d)) /\ WF_daemonVars(Starting(d))
-----------------------------------------------------------------------------
(* Properties.                                                             *)

\* clipboard_connect(directory): the daemon whose socket takes the connection, if there is one.
Reached == IF path \in Daemons /\ "apps" \in open[path] /\ pc[path] \in {"serve", "finish"} THEN path ELSE None

\* A daemon is reached by the applications in its directory as long as it runs,
\* whatever other starts in the directory come to, unless one found the name
\* taken: it removes the name of the daemon that runs (clipboard.c:81), and from
\* then on those that end remove the names of others (clipboard.c:208).
Served == ~intruded => \A d \in Daemons : pc[d] = "serve" => Reached = d

\* The name leads to a socket that is closed.
Dangling == path = Stale \/ (path \in Daemons /\ "apps" \notin open[path])

\* Whichever way a start fails or a daemon ends, and however those of several
\* processes interleave, the name goes with it (clipboard.c:70-166, 206-208),
\* unless a process is killed, or hangs because it closed the socket to its
\* parent twice (clipif.c:463, clipboard.c:156).
NothingLeft == Dangling => kills > 0 \/ (path \in Daemons /\ pc[path] \in {"remove", "hung"})

\* A name that was left behind by a process that was killed or hangs does not
\* keep daemons from starting for ever: the next one that fails removes it
\* (clipboard.c:81).  Unless all the processes there are in the model are up or hang.
Recovers == Dangling ~> ~Dangling \/ \A d \in Daemons : pc[d] \in {"hung", "hello", "serve", "finish"}
=============================================================================
