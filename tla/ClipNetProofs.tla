---------------------------- MODULE ClipNetProofs ----------------------------
(***************************************************************************)
(* Delivery, SenderHas, Agreement and NoReturn of ClipNet, for any number  *)
(* of clipboards and copies and any time stamps, by an inductive           *)
(* invariant.  Sequences occur in it by their elements only: Has and its   *)
(* lemmas.  NoReturn needs the tree that the connections were made in,     *)
(* which no variable holds: PathInv says that there is one.                *)
(***************************************************************************)
EXTENDS ClipNet, SequenceTheorems, FiniteSetTheorems, TLAPS

Has(s, x) == \E i \in DOMAIN s : s[i] = x

\* Queues and links under Append.
LEMMA HasAppend ==
  ASSUME NEW S, NEW s \in Seq(S), NEW e \in S
  PROVE  /\ Append(s, e) \in Seq(S)
         /\ \A x : Has(Append(s, e), x) <=> x = e \/ Has(s, x)
<1>1. /\ Append(s, e) \in Seq(S) /\ Append(s, e) # <<>>
      /\ Len(Append(s, e)) = Len(s) + 1
      /\ \A i \in 1..Len(s) : Append(s, e)[i] = s[i]
      /\ Append(s, e)[Len(s) + 1] = e
  BY AppendProperties
<1>2. DOMAIN s = 1..Len(s) /\ DOMAIN Append(s, e) = 1..(Len(s) + 1) /\ Len(s) \in Nat
  BY <1>1, LenProperties
<1>3. ASSUME NEW x PROVE Has(Append(s, e), x) <=> x = e \/ Has(s, x)
  BY <1>1, <1>2 DEF Has
<1> QED BY <1>1, <1>3

\* ... under Head and Tail ...
LEMMA HasTail ==
  ASSUME NEW S, NEW s \in Seq(S), s # <<>>
  PROVE  /\ Head(s) \in S /\ Tail(s) \in Seq(S)
         /\ \A x : Has(s, x) <=> x = Head(s) \/ Has(Tail(s), x)
<1>1. /\ Head(s) \in S /\ Tail(s) \in Seq(S)
      /\ Len(Tail(s)) = Len(s) - 1
      /\ \A i \in 1..Len(Tail(s)) : Tail(s)[i] = s[i + 1]
  BY HeadTailProperties
<1>2. DOMAIN s = 1..Len(s) /\ DOMAIN Tail(s) = 1..(Len(s) - 1) /\ Len(s) \in Nat /\ Len(s) # 0
  BY <1>1, LenProperties, EmptySeq
<1>3. Head(s) = s[1]
  OBVIOUS
<1>4. ASSUME NEW x PROVE Has(s, x) <=> x = Head(s) \/ Has(Tail(s), x)
  <2>1. ASSUME Has(s, x) PROVE x = Head(s) \/ Has(Tail(s), x)
    <3>1. PICK i \in DOMAIN s : s[i] = x
      BY <2>1 DEF Has
    <3>2. CASE i = 1
      BY <3>1, <3>2, <1>3
    <3>3. CASE i # 1
      <4>1. i - 1 \in DOMAIN Tail(s) /\ Tail(s)[i - 1] = x
        BY <3>1, <3>3, <1>1, <1>2
      <4> QED BY <4>1 DEF Has
    <3> QED BY <3>2, <3>3
  <2>2. ASSUME x = Head(s) PROVE Has(s, x)
    BY <2>2, <1>2, <1>3 DEF Has
  <2>3. ASSUME Has(Tail(s), x) PROVE Has(s, x)
    <3>1. PICK i \in DOMAIN Tail(s) : Tail(s)[i] = x
      BY <2>3 DEF Has
    <3>2. i + 1 \in DOMAIN s /\ s[i + 1] = x
      BY <3>1, <1>1, <1>2
    <3> QED BY <3>2 DEF Has
  <2> QED BY <2>1, <2>2, <2>3
<1> QED BY <1>1, <1>4

\* ... when a suffix is lost ...
LEMMA HasPrefix ==
  ASSUME NEW S, NEW s \in Seq(S), NEW n \in Nat, n <= Len(s)
  PROVE  /\ SubSeq(s, 1, n) \in Seq(S)
         /\ \A x : Has(SubSeq(s, 1, n), x) => Has(s, x)
<1>1. DOMAIN s = 1..Len(s) /\ Len(s) \in Nat
  BY LenProperties
<1>2. \A i \in 1..n : s[i] \in S
  BY <1>1, ElementOfSeq
<1>3. /\ SubSeq(s, 1, n) \in Seq(S)
      /\ Len(SubSeq(s, 1, n)) = n
      /\ \A i \in 1..n : SubSeq(s, 1, n)[i] = s[i]
  <2>1. /\ SubSeq(s, 1, n) \in Seq(S)
        /\ Len(SubSeq(s, 1, n)) = IF 1 <= n THEN n - 1 + 1 ELSE 0
        /\ \A i \in 1..(n - 1 + 1) : SubSeq(s, 1, n)[i] = s[1 + i - 1]
    BY <1>2, SubSeqProperties
  <2> QED BY <2>1
<1>4. ASSUME NEW x, Has(SubSeq(s, 1, n), x) PROVE Has(s, x)
  BY <1>1, <1>3, <1>4, LenProperties DEF Has
<1> QED BY <1>3, <1>4

\* ... and when they are empty.
LEMMA HasEmpty == \A x : ~Has(<<>>, x)
BY DEF Has
-----------------------------------------------------------------------------
(* The inductive invariant.                                                *)

\* Who is in a slot, or about to be, has been started, and only those who run have
\* slots; owed is about those in slots.
MemberInv ==
  /\ \A a \in Nodes : \A b \in conn[a] : On(a) /\ a # b /\ state[b] # "off"
  /\ \A a \in Nodes : joining[a] # None => On(a) /\ joining[a] # a /\ state[joining[a]] # "off"
  /\ \A a, b \in Nodes : a # b /\ owed[<<a, b>>] # {} => b \in conn[a]

\* A clipboard that does not run has nothing; what it sent is there after its end,
\* and not before its start.
IdleInv ==
  /\ \A a \in Nodes : ~On(a) => queue[a] = <<>> /\ msg[a] = NoPacket
  /\ \A a, b \in Nodes : a # b /\ held[<<a, b>>] # None => On(b) /\ state[a] # "off"
  /\ \A a, b \in Nodes : a # b /\ state[a] = "off" => \A k \in Copies : ~Has(chan[<<a, b>>], k)
  /\ \A k \in Copies : apc[k] = "placed" => home[k] \in Nodes /\ On(home[k])

\* Nothing is known of copies that are not made.
KnownInv ==
  \A k \in Copies : apc[k] = "new" =>
    /\ \A a \in Nodes : val[a] # k /\ msg[a].copy # k
    /\ \A a \in Nodes : \A p \in Packets : Has(queue[a], p) => p.copy # k
    /\ \A a, b \in Nodes : a # b => held[<<a, b>>] # k /\ ~Has(chan[<<a, b>>], k) /\ k \notin owed[<<a, b>>]

\* Who passes a copy on has it, or something as new, as long as it runs.
HasInv ==
  /\ \A k \in Copies : apc[k] = "placed" => AsNewAs(home[k], k)
  /\ \A a \in Nodes : \A p \in Packets : Has(queue[a], p) => AsNewAs(a, p.copy)
  /\ \A a \in Nodes : msg[a] # NoPacket => AsNewAs(a, msg[a].copy)
  /\ \A a, b \in Nodes : a # b /\ held[<<a, b>>] # None =>
       AsNewAs(b, held[<<a, b>>]) /\ (On(a) => AsNewAs(a, held[<<a, b>>]))
  /\ \A a, b \in Nodes : \A k \in Copies : a # b /\ On(a) /\ Has(chan[<<a, b>>], k) => AsNewAs(a, k)

\* Coming, by Has.
OnTheWay(k, a, b) ==
  \/ apc[k] = "placed" /\ home[k] = a
  \/ \E c \in conn[a] \ {b} : held[<<c, a>>] = k
  \/ \E p \in Packets : Has(queue[a], p) /\ p.copy = k /\ p.from # b
  \/ msg[a] # NoPacket /\ msg[a].copy = k /\ b \in todo[a]
  \/ Has(chan[<<a, b>>], k)

DeliveryInv ==
  \A a, b \in Nodes : \A k \in Copies :
    a # b /\ On(a) /\ On(b) /\ k \in owed[<<a, b>>] => AsNewAs(b, k) \/ OnTheWay(k, a, b)

NetIInv == NetTypeOK /\ MemberInv /\ IdleInv /\ KnownInv /\ HasInv /\ DeliveryInv
-----------------------------------------------------------------------------
\* What the assumptions say of the constants.
LEMMA Numbers ==
  /\ None \notin Nodes /\ None \notin Copies
  /\ Nodes \subseteq Nat /\ Copies \subseteq Nat /\ Stamps \subseteq Nat
  /\ NoPacket \notin Packets
BY NetAssumption DEF None, Nodes, Copies, NoPacket, Packets

\* A pair of different clipboards is a link.
LEMMA LinkPairs ==
  /\ \A l \in Links : l[1] \in Nodes /\ l[2] \in Nodes /\ l[1] # l[2] /\ l = <<l[1], l[2]>>
  /\ \A a, b \in Nodes : a # b => <<a, b>> \in Links
BY DEF Links

\* One clipboard runs, and nothing was copied.
THEOREM NetStart == NetInit => NetIInv
<1> SUFFICES ASSUME NetInit PROVE NetIInv
  OBVIOUS
<1> USE Numbers, LinkPairs DEF NetInit
<1>1. NetTypeOK
  BY NetAssumption, EmptySeq DEF NetTypeOK, Nodes
<1>2. MemberInv /\ IdleInv
  BY HasEmpty DEF MemberInv, IdleInv, On
<1>3. KnownInv
  BY HasEmpty DEF KnownInv, NoPacket
<1>4. HasInv
  BY HasEmpty DEF HasInv
<1>5. DeliveryInv
  BY DEF DeliveryInv
<1> QED BY <1>1, <1>2, <1>3, <1>4, <1>5 DEF NetIInv
-----------------------------------------------------------------------------
(* One lemma for each action.                                              *)

\* An application's slave queues what it placed: what was coming still is.
LEMMA AppQueueInv ==
  ASSUME NetIInv, NEW k \in Copies, AppQueue(k)
  PROVE  NetIInv'
<1> DEFINE n == home[k]
           p == [copy |-> k, from |-> None]
<1> USE DEF NetIInv
<1>1. n \in Nodes /\ On(n) /\ AsNewAs(n, k)
  BY DEF AppQueue, IdleInv, HasInv
<1>2. p \in Packets /\ p.copy = k /\ p.from = None
  BY DEF Packets
<1>3. queue \in [Nodes -> Seq(Packets)] /\ queue' = [queue EXCEPT ![n] = Append(queue[n], p)]
  BY <1>1 DEF AppQueue, NetTypeOK
<1>4. \A a \in Nodes : \A x : Has(queue'[a], x) <=> Has(queue[a], x) \/ (a = n /\ x = p)
  <2>1. \A x : Has(Append(queue[n], p), x) <=> x = p \/ Has(queue[n], x)
    BY <1>1, <1>2, <1>3, HasAppend
  <2> QED BY <1>1, <1>3, <2>1
<1>5. apc[k] = "placed" /\ apc' = [apc EXCEPT ![k] = "end"]
  BY DEF AppQueue
<1>6. UNCHANGED <<members, val, home, recvAt, held, cast, chan, owed>>
  BY DEF AppQueue
<1> HIDE DEF n, p
<1>7. NetTypeOK'
  <2>1. Append(queue[n], p) \in Seq(Packets)
    BY <1>1, <1>2, <1>3, HasAppend
  <2> QED BY <1>1, <1>3, <1>5, <1>6, <2>1 DEF NetTypeOK, members, cast
<1>8. MemberInv'
  BY <1>6 DEF MemberInv, members, On
<1>9. IdleInv'
  BY <1>1, <1>3, <1>5, <1>6 DEF IdleInv, members, cast, On, NetTypeOK
<1>10. KnownInv'
  BY <1>2, <1>4, <1>5, <1>6 DEF KnownInv, cast, NetTypeOK
<1>11. HasInv'
  BY <1>1, <1>2, <1>4, <1>5, <1>6 DEF HasInv, cast, members, On, AsNewAs, NetTypeOK
<1>12. DeliveryInv'
  <2> SUFFICES ASSUME NEW a \in Nodes, NEW b \in Nodes, NEW j \in Copies,
                      a # b, On(a), On(b), j \in owed[<<a, b>>], ~AsNewAs(b, j)
               PROVE  OnTheWay(j, a, b)'
    BY <1>6 DEF DeliveryInv, members, On, AsNewAs
  <2>1. OnTheWay(j, a, b)
    BY DEF DeliveryInv
  <2>2. CASE apc[j] = "placed" /\ home[j] = a
    <3>1. CASE j = k
      <4>1. a = n /\ p.from # b
        BY <3>1, <2>2, <1>2, Numbers DEF n
      <4>2. Has(queue'[a], p)
        BY <4>1, <1>4
      <4>3. \E x \in Packets : Has(queue'[a], x) /\ x.copy = j /\ x.from # b
        BY <4>1, <4>2, <3>1, <1>2
      <4> QED BY <4>3 DEF OnTheWay
    <3>2. CASE j # k
      <4>1. apc'[j] = "placed" /\ home'[j] = a
        <5>1. apc \in [Copies -> {"new", "placed", "end"}]
          BY DEF NetTypeOK
        <5> QED BY <3>2, <2>2, <1>5, <1>6, <5>1
      <4> QED BY <4>1 DEF OnTheWay
    <3> QED BY <3>1, <3>2
  <2> QED BY <2>1, <2>2, <1>4, <1>6 DEF OnTheWay, members, cast
<1> QED BY <1>7, <1>8, <1>9, <1>10, <1>11, <1>12

\* A slave queues what it placed, with the connection it came from.
LEMMA SlaveQueueInv ==
  ASSUME NetIInv, NEW c \in Nodes, NEW n \in Nodes, c # n, SlaveQueue(c, n)
  PROVE  NetIInv'
<1> DEFINE k == held[<<c, n>>]
           p == [copy |-> k, from |-> c]
<1> USE DEF NetIInv
<1>1. On(n) /\ AsNewAs(n, k) /\ <<c, n>> \in Links /\ k # None /\ k \in Copies
  BY LinkPairs DEF SlaveQueue, IdleInv, HasInv, NetTypeOK
<1>2. p \in Packets /\ p.copy = k /\ p.from = c
  BY <1>1 DEF Packets
<1>3. queue \in [Nodes -> Seq(Packets)] /\ queue' = [queue EXCEPT ![n] = Append(queue[n], p)]
  BY <1>1 DEF SlaveQueue, NetTypeOK
<1>4. \A a \in Nodes : \A x : Has(queue'[a], x) <=> Has(queue[a], x) \/ (a = n /\ x = p)
  <2>1. \A x : Has(Append(queue[n], p), x) <=> x = p \/ Has(queue[n], x)
    BY <1>1, <1>2, <1>3, HasAppend
  <2> QED BY <1>1, <1>3, <2>1
<1>5. held \in [Links -> Copies \cup {None}] /\ held' = [held EXCEPT ![<<c, n>>] = None]
  BY DEF SlaveQueue, NetTypeOK
<1>6. \A a, b \in Nodes : a # b =>
        held'[<<a, b>>] = IF a = c /\ b = n THEN None ELSE held[<<a, b>>]
  BY <1>1, <1>5, LinkPairs
<1>7. UNCHANGED <<members, val, apps, cast, chan, owed>>
  BY DEF SlaveQueue
<1>8. apc[k] # "new"
  BY <1>1 DEF KnownInv
<1>9. k = held[<<c, n>>]
  OBVIOUS
<1> HIDE DEF k, p
<1>10. NetTypeOK'
  <2>1. Append(queue[n], p) \in Seq(Packets)
    BY <1>1, <1>2, <1>3, HasAppend
  <2> QED BY <1>1, <1>3, <1>5, <1>7, <2>1 DEF NetTypeOK, members, cast, apps
<1>11. MemberInv'
  BY <1>7 DEF MemberInv, members, On
<1>12. IdleInv'
  <2>1. \A a \in Nodes : ~On(a) => a # n /\ queue'[a] = queue[a]
    BY <1>1, <1>3
  <2>2. \A a, b \in Nodes : a # b /\ held'[<<a, b>>] # None => held[<<a, b>>] # None
    BY <1>6
  <2> QED BY <2>1, <2>2, <1>7 DEF IdleInv, members, cast, apps, On
<1>13. KnownInv'
  BY <1>2, <1>4, <1>6, <1>7, <1>8, Numbers DEF KnownInv, cast, apps, NetTypeOK
<1>14. HasInv'
  <2>1. \A a, b \in Nodes : a # b /\ held'[<<a, b>>] # None => held'[<<a, b>>] = held[<<a, b>>]
    BY <1>6
  <2>2. \A a \in Nodes : \A q \in Packets : Has(queue'[a], q) => AsNewAs(a, q.copy)
    BY <1>1, <1>2, <1>4 DEF HasInv
  <2> QED BY <2>1, <2>2, <1>7 DEF HasInv, cast, members, apps, On, AsNewAs
<1>15. DeliveryInv'
  <2> SUFFICES ASSUME NEW a \in Nodes, NEW b \in Nodes, NEW j \in Copies,
                      a # b, On(a), On(b), j \in owed[<<a, b>>], ~AsNewAs(b, j)
               PROVE  OnTheWay(j, a, b)'
    BY <1>7 DEF DeliveryInv, members, apps, On, AsNewAs
  <2>1. OnTheWay(j, a, b)
    BY DEF DeliveryInv
  <2>2. CASE \E d \in conn[a] \ {b} : held[<<d, a>>] = j
    <3>1. PICK d \in conn[a] \ {b} : held[<<d, a>>] = j
      BY <2>2
    <3>2. d \in Nodes /\ d # a
      BY <3>1 DEF MemberInv, NetTypeOK
    <3>3. CASE d = c /\ a = n
      BY <3>1, <3>3, <1>2, <1>4, <1>9 DEF OnTheWay
    <3>4. CASE ~(d = c /\ a = n)
      BY <3>1, <3>2, <3>4, <1>6, <1>7 DEF OnTheWay, members
    <3> QED BY <3>3, <3>4
  <2> QED BY <2>1, <2>2, <1>4, <1>7 DEF OnTheWay, members, cast, apps
<1> QED BY <1>10, <1>11, <1>12, <1>13, <1>14, <1>15

\* A clipboard joins, connected with its parent only; nothing is owed to it yet, and
\* packets that carry its descriptor are not for it.
LEMMA JoinInv ==
  ASSUME NetIInv, NEW c \in Nodes, NEW n \in Nodes, c # n, Join(c, n)
  PROVE  NetIInv'
<1> USE DEF NetIInv
<1>1. On(c) /\ state[n] = "off" /\ joining[c] = None /\ ~On(n)
  BY DEF Join, On
<1>2. /\ joining' = [joining EXCEPT ![c] = n] /\ state' = [state EXCEPT ![n] = "on"]
      /\ conn' = [conn EXCEPT ![n] = {c}]
      /\ UNCHANGED <<val, apps, held, todo, chan, owed>>
  BY DEF Join
<1>3. PICK orphans \in Orphans(c, n) :
        /\ queue' = [queue EXCEPT ![c] = [i \in DOMAIN @ |-> Renamed(@[i], orphans, n)]]
        /\ msg' = [msg EXCEPT ![c] = Renamed(@, orphans, n)]
  BY DEF Join
<1>4. orphans \subseteq Packets
  BY <1>3 DEF Orphans, Packets
<1> DEFINE R(p) == Renamed(p, orphans, n)
<1>5. /\ \A p \in Packets : R(p) \in Packets /\ R(p).copy = p.copy /\ (R(p).from = p.from \/ R(p).from = n)
      /\ R(NoPacket) = NoPacket
  BY <1>4, Numbers DEF Renamed, Packets
<1>6. /\ [i \in DOMAIN queue[c] |-> R(queue[c][i])] \in Seq(Packets)
      /\ \A x : Has([i \in DOMAIN queue[c] |-> R(queue[c][i])], x)
                <=> \E p \in Packets : Has(queue[c], p) /\ x = R(p)
  <2>1. queue[c] \in Seq(Packets)
    BY DEF NetTypeOK
  <2>2. DOMAIN queue[c] = 1..Len(queue[c]) /\ Len(queue[c]) \in Nat
    BY <2>1, LenProperties
  <2>3. \A i \in DOMAIN queue[c] : queue[c][i] \in Packets
    BY <2>1, <2>2, ElementOfSeq
  <2> HIDE DEF R
  <2>4. [i \in 1..Len(queue[c]) |-> R(queue[c][i])] \in Seq(Packets)
    BY <2>2, <2>3, <1>5, IsASeq
  <2> QED BY <2>2, <2>3, <2>4 DEF Has
<1>7. /\ \A a \in Nodes : a # c => queue'[a] = queue[a] /\ msg'[a] = msg[a]
      /\ queue'[c] = [i \in DOMAIN queue[c] |-> R(queue[c][i])]
      /\ msg'[c] = R(msg[c])
      /\ queue' \in [Nodes -> Seq(Packets)] /\ msg' \in [Nodes -> Packets \cup {NoPacket}]
  BY <1>3, <1>5, <1>6 DEF NetTypeOK
<1>8. \A a \in Nodes : msg'[a].copy = msg[a].copy /\ (msg'[a] = NoPacket <=> msg[a] = NoPacket)
  BY <1>5, <1>7, Numbers DEF NetTypeOK
<1>9. \A a \in Nodes : \A p \in Packets : Has(queue'[a], p) =>
        \E q \in Packets : Has(queue[a], q) /\ p.copy = q.copy
  BY <1>5, <1>6, <1>7
<1>10. \A a \in Nodes : \A p \in Packets : Has(queue[a], p) =>
        \E q \in Packets : /\ Has(queue'[a], q) /\ p.copy = q.copy
                           /\ p.from = q.from \/ (a = c /\ q.from = n)
  BY <1>5, <1>6, <1>7
<1>11. conn[n] = {} /\ todo[n] = {}
  BY <1>1 DEF MemberInv, IdleInv, NetTypeOK
<1> HIDE DEF R
<1>12. NetTypeOK'
  <2>1. \A a \in Nodes : todo[a] \subseteq conn'[a] /\ (msg'[a] = NoPacket => todo[a] = {})
    BY <1>2, <1>8, <1>11 DEF NetTypeOK
  <2>2. /\ state' \in [Nodes -> {"off", "on", "gone"}]
        /\ conn' \in [Nodes -> SUBSET Nodes] /\ joining' \in [Nodes -> Nodes \cup {None}]
    BY <1>2 DEF NetTypeOK
  <2> QED BY <1>2, <1>7, <2>1, <2>2 DEF NetTypeOK, apps
<1>13. \A a \in Nodes : /\ conn'[a] = IF a = n THEN {c} ELSE conn[a]
                        /\ state'[a] = IF a = n THEN "on" ELSE state[a]
                        /\ joining'[a] = IF a = c THEN n ELSE joining[a]
  BY <1>2 DEF NetTypeOK
<1>14. MemberInv'
  BY <1>1, <1>2, <1>11, <1>13 DEF MemberInv, On
<1>15. IdleInv'
  <2>1. \A a \in Nodes : ~On(a)' => a # c /\ ~On(a)
    BY <1>1, <1>13 DEF On
  <2>2. \A a \in Nodes : ~On(a)' => queue'[a] = <<>> /\ msg'[a] = NoPacket
    BY <2>1, <1>7 DEF IdleInv
  <2> QED BY <2>2, <1>2, <1>13 DEF IdleInv, On, apps
<1>16. KnownInv'
  BY <1>2, <1>8, <1>9 DEF KnownInv, apps
<1>17. HasInv'
  <2>1. \A a \in Nodes, k \in Copies : AsNewAs(a, k)' <=> AsNewAs(a, k)
    BY <1>2 DEF AsNewAs, apps
  <2>2. \A a \in Nodes : On(a)' => On(a) \/ state[a] = "off"
    BY <1>1, <1>13 DEF On
  <2>3. \A a \in Nodes : \A p \in Packets : Has(queue'[a], p) => AsNewAs(a, p.copy)'
    BY <1>9, <2>1 DEF HasInv, Packets
  <2>4. \A a \in Nodes : (msg[a] # NoPacket => AsNewAs(a, msg[a].copy))'
    BY <1>2, <1>8 DEF HasInv, AsNewAs, apps
  <2>6. \A a, b \in Nodes : a # b /\ held[<<a, b>>] # None =>
          AsNewAs(b, held[<<a, b>>])' /\ (On(a)' => AsNewAs(a, held[<<a, b>>])')
    BY <2>2, <1>2 DEF HasInv, IdleInv, AsNewAs, apps
  <2>7. \A a, b \in Nodes : \A k \in Copies :
          a # b /\ On(a)' /\ Has(chan[<<a, b>>], k) => AsNewAs(a, k)'
    BY <2>1, <2>2 DEF HasInv, IdleInv
  <2>8. \A k \in Copies : apc[k] = "placed" => AsNewAs(home[k], k)'
    BY <1>2 DEF HasInv, AsNewAs, apps
  <2> QED BY <2>3, <2>4, <2>6, <2>7, <2>8, <1>2 DEF HasInv, apps
<1>18. DeliveryInv'
  <2> SUFFICES ASSUME NEW a \in Nodes, NEW b \in Nodes, NEW j \in Copies,
                      a # b, On(a)', On(b)', j \in owed[<<a, b>>], ~AsNewAs(b, j)
               PROVE  OnTheWay(j, a, b)'
    BY <1>2 DEF DeliveryInv, AsNewAs, apps
  <2>1. b \in conn[a]
    BY DEF MemberInv
  <2>2. a # n /\ b # n
    BY <2>1, <1>1, <1>11 DEF MemberInv
  <2>3. OnTheWay(j, a, b)
    BY <2>2, <1>13 DEF DeliveryInv, On
  <2>4. CASE \E p \in Packets : Has(queue[a], p) /\ p.copy = j /\ p.from # b
    BY <2>2, <2>4, <1>10 DEF OnTheWay
  <2>5. CASE msg[a] # NoPacket /\ msg[a].copy = j /\ b \in todo[a]
    BY <2>5, <1>2, <1>8 DEF OnTheWay
  <2> QED BY <2>2, <2>3, <2>4, <2>5, <1>2, <1>13 DEF OnTheWay, apps
<1> QED BY <1>12, <1>14, <1>15, <1>16, <1>17, <1>18

\* The listener puts whom it greeted in a slot; nothing is owed to him yet.
LEMMA FillInv ==
  ASSUME NetIInv, NEW c \in Nodes, Fill(c)
  PROVE  NetIInv'
<1> DEFINE n == joining[c]
<1> USE DEF NetIInv
<1>1. n # None /\ n \in Nodes /\ On(c) /\ n # c /\ state[n] # "off"
  BY DEF Fill, MemberInv, NetTypeOK
<1>2. /\ joining' = [joining EXCEPT ![c] = None] /\ conn' = [conn EXCEPT ![c] = @ \cup {n}]
      /\ UNCHANGED <<state, val, apps, held, queue, msg, chan, owed>>
  BY DEF Fill
<1>3. todo' = todo \/ (msg[c] # NoPacket /\ todo' = [todo EXCEPT ![c] = @ \cup {n}])
  BY DEF Fill
<1> HIDE DEF n
<1>4. /\ conn' \in [Nodes -> SUBSET Nodes] /\ joining' \in [Nodes -> Nodes \cup {None}]
      /\ \A a \in Nodes : /\ conn'[a] = IF a = c THEN conn[a] \cup {n} ELSE conn[a]
                          /\ joining'[a] = IF a = c THEN None ELSE joining[a]
  BY <1>1, <1>2 DEF NetTypeOK
<1>5. /\ todo' \in [Nodes -> SUBSET Nodes]
      /\ \A a \in Nodes : /\ todo[a] \subseteq todo'[a]
                          /\ todo'[a] \subseteq todo[a] \cup {n} /\ (a # c => todo'[a] = todo[a])
                          /\ msg[a] = NoPacket => todo'[a] = {}
  <2>0. todo \in [Nodes -> SUBSET Nodes] /\ \A a \in Nodes : msg[a] = NoPacket => todo[a] = {}
    BY DEF NetTypeOK
  <2>1. CASE todo' = todo
    BY <2>0, <2>1
  <2>2. CASE msg[c] # NoPacket /\ todo' = [todo EXCEPT ![c] = @ \cup {n}]
    BY <2>0, <2>2, <1>1
  <2> QED BY <1>3, <2>1, <2>2
<1>6. NetTypeOK'
  <2>1. \A a \in Nodes : todo'[a] \subseteq conn'[a]
    BY <1>4, <1>5 DEF NetTypeOK
  <2> QED BY <1>2, <1>4, <1>5, <2>1 DEF NetTypeOK, apps
<1>7. MemberInv'
  BY <1>1, <1>2, <1>4 DEF MemberInv, On
<1>8. IdleInv' /\ KnownInv'
  BY <1>2 DEF IdleInv, KnownInv, On, apps
<1>9. HasInv'
  BY <1>2 DEF HasInv, AsNewAs, On, apps
<1>10. DeliveryInv'
  <2> SUFFICES ASSUME NEW a \in Nodes, NEW b \in Nodes, NEW j \in Copies,
                      a # b, On(a), On(b), j \in owed[<<a, b>>], ~AsNewAs(b, j)
               PROVE  OnTheWay(j, a, b)'
    BY <1>2 DEF DeliveryInv, AsNewAs, apps, On
  <2>1. OnTheWay(j, a, b)
    BY DEF DeliveryInv
  <2>2. conn[a] \subseteq conn'[a] /\ todo[a] \subseteq todo'[a]
    BY <1>4, <1>5
  <2> QED BY <2>1, <2>2, <1>2 DEF OnTheWay, apps
<1> QED BY <1>6, <1>7, <1>8, <1>9, <1>10

\* The broadcaster takes a packet: for each connection it is still coming.
LEMMA BroadcastPopInv ==
  ASSUME NetIInv, NEW n \in Nodes, BroadcastPop(n)
  PROVE  NetIInv'
<1> DEFINE p == Head(queue[n])
<1> USE DEF NetIInv
<1>1. /\ msg[n] = NoPacket /\ queue[n] # <<>> /\ queue[n] \in Seq(Packets)
      /\ msg' = [msg EXCEPT ![n] = p]
      /\ todo' = [todo EXCEPT ![n] = conn[n] \ {p.from}]
      /\ queue' = [queue EXCEPT ![n] = Tail(queue[n])]
      /\ UNCHANGED <<members, val, apps, held, chan, owed>>
  BY DEF BroadcastPop, Targets, NetTypeOK
<1>2. /\ p \in Packets /\ Tail(queue[n]) \in Seq(Packets)
      /\ \A x : Has(queue[n], x) <=> x = p \/ Has(Tail(queue[n]), x)
  BY <1>1, HasTail
<1> HIDE DEF p
<1>3. On(n) /\ AsNewAs(n, p.copy) /\ p # NoPacket /\ p.copy \in Copies
  BY <1>1, <1>2, Numbers DEF IdleInv, HasInv, Packets
<1>4. \A a \in Nodes : /\ queue'[a] = IF a = n THEN Tail(queue[n]) ELSE queue[a]
                       /\ msg'[a] = IF a = n THEN p ELSE msg[a]
                       /\ todo'[a] = IF a = n THEN conn[n] \ {p.from} ELSE todo[a]
  BY <1>1 DEF NetTypeOK
<1>5. \A a \in Nodes : \A x : Has(queue[a], x) <=> (a = n /\ x = p) \/ Has(queue'[a], x)
  BY <1>2, <1>4
<1>6. NetTypeOK'
  <2>1. queue' \in [Nodes -> Seq(Packets)] /\ msg' \in [Nodes -> Packets \cup {NoPacket}]
    BY <1>1, <1>2 DEF NetTypeOK
  <2>2. todo' \in [Nodes -> SUBSET Nodes]
    BY <1>1 DEF NetTypeOK
  <2>3. \A a \in Nodes : todo'[a] \subseteq conn[a] /\ (msg'[a] = NoPacket => todo'[a] = {})
    BY <1>3, <1>4 DEF NetTypeOK
  <2> QED BY <1>1, <2>1, <2>2, <2>3 DEF NetTypeOK, members, apps
<1>7. MemberInv'
  BY <1>1 DEF MemberInv, members, On
<1>8. IdleInv'
  <2>1. \A a \in Nodes : ~On(a) => queue'[a] = queue[a] /\ msg'[a] = msg[a]
    BY <1>3, <1>4
  <2> QED BY <2>1, <1>1 DEF IdleInv, members, apps, On
<1>9. KnownInv'
  <2>1. apc[p.copy] # "new"
    BY <1>2, <1>3, <1>5 DEF KnownInv
  <2>2. \A k \in Copies : apc[k] = "new" => \A a \in Nodes : msg'[a].copy # k
    BY <2>1, <1>4 DEF KnownInv
  <2> QED BY <2>2, <1>1, <1>5 DEF KnownInv, members, apps
<1>10. HasInv'
  <2>1. \A a \in Nodes : msg'[a] # NoPacket => AsNewAs(a, msg'[a].copy)
    BY <1>3, <1>4 DEF HasInv
  <2> QED BY <2>1, <1>1, <1>5 DEF HasInv, AsNewAs, members, apps, On
<1>11. DeliveryInv'
  <2> SUFFICES ASSUME NEW a \in Nodes, NEW b \in Nodes, NEW j \in Copies,
                      a # b, On(a), On(b), j \in owed[<<a, b>>], ~AsNewAs(b, j)
               PROVE  OnTheWay(j, a, b)'
    BY <1>1 DEF DeliveryInv, AsNewAs, members, apps, On
  <2>1. OnTheWay(j, a, b) /\ b \in conn[a]
    BY DEF DeliveryInv, MemberInv
  <2>2. CASE a = n /\ p.copy = j /\ p.from # b
    BY <2>1, <2>2, <1>3, <1>4 DEF OnTheWay
  <2>3. CASE \E q \in Packets : Has(queue'[a], q) /\ q.copy = j /\ q.from # b
    BY <2>3 DEF OnTheWay
  <2>4. CASE msg[a] # NoPacket /\ msg[a].copy = j /\ b \in todo[a]
    <3>1. a # n
      BY <2>4, <1>1
    <3> QED BY <2>4, <3>1, <1>4 DEF OnTheWay
  <2> QED BY <2>1, <2>2, <2>3, <2>4, <1>1, <1>5 DEF OnTheWay, members, apps
<1> QED BY <1>6, <1>7, <1>8, <1>9, <1>10, <1>11

\* The broadcaster sends: what was still to be sent is on the link.
LEMMA BroadcastSendInv ==
  ASSUME NetIInv, NEW n \in Nodes, NEW m \in Nodes, BroadcastSend(n, m)
  PROVE  NetIInv'
<1> DEFINE k == msg[n].copy
<1> USE DEF NetIInv
<1>1. /\ m \in todo[n] /\ todo' = [todo EXCEPT ![n] = @ \ {m}]
      /\ UNCHANGED <<members, val, apps, held, queue, msg, owed>>
  BY DEF BroadcastSend
<1>2. /\ msg[n] # NoPacket /\ msg[n] \in Packets /\ k \in Copies /\ n # m /\ On(n)
      /\ AsNewAs(n, k) /\ apc[k] # "new"
  BY <1>1 DEF NetTypeOK, Packets, MemberInv, IdleInv, HasInv, KnownInv
<1>3. <<n, m>> \in Links /\ chan \in [Links -> Seq(Copies)] /\ chan[<<n, m>>] \in Seq(Copies)
  BY <1>2, LinkPairs DEF NetTypeOK
<1>4. IF On(m) THEN chan' = [chan EXCEPT ![<<n, m>>] = Append(chan[<<n, m>>], k)] ELSE chan' = chan
  BY DEF BroadcastSend
<1>5. msg[n].copy = k
  OBVIOUS
<1> HIDE DEF k
<1>6. /\ Append(chan[<<n, m>>], k) \in Seq(Copies)
      /\ \A x : Has(Append(chan[<<n, m>>], k), x) <=> x = k \/ Has(chan[<<n, m>>], x)
  <2>1. \A s \in Seq(Copies) : \A e \in Copies :
          /\ Append(s, e) \in Seq(Copies)
          /\ \A x : Has(Append(s, e), x) <=> x = e \/ Has(s, x)
    BY HasAppend
  <2> QED BY <1>2, <1>3, <2>1
<1>7. /\ chan' \in [Links -> Seq(Copies)]
      /\ \A a, b \in Nodes : a # b => \A x :
           Has(chan'[<<a, b>>], x) <=> Has(chan[<<a, b>>], x) \/ (On(m) /\ a = n /\ b = m /\ x = k)
  <2>1. CASE ~On(m)
    BY <2>1, <1>3, <1>4
  <2>2. CASE On(m)
    <3>1. \A a, b \in Nodes : a # b =>
            chan'[<<a, b>>] = IF a = n /\ b = m THEN Append(chan[<<n, m>>], k) ELSE chan[<<a, b>>]
      BY <2>2, <1>3, <1>4, LinkPairs
    <3> QED BY <2>2, <3>1, <1>3, <1>4, <1>6
  <2> QED BY <2>1, <2>2
<1>8. \A a \in Nodes : todo'[a] = IF a = n THEN todo[a] \ {m} ELSE todo[a]
  BY <1>1 DEF NetTypeOK
<1>9. NetTypeOK'
  <2>1. todo' \in [Nodes -> SUBSET Nodes]
    BY <1>1 DEF NetTypeOK
  <2>2. \A a \in Nodes : todo'[a] \subseteq conn[a] /\ (msg[a] = NoPacket => todo'[a] = {})
    BY <1>8 DEF NetTypeOK
  <2> QED BY <1>1, <1>7, <2>1, <2>2 DEF NetTypeOK, members, apps
<1>10. MemberInv'
  BY <1>1 DEF MemberInv, members, On
<1>11. IdleInv'
  <2>1. state[n] # "off"
    BY <1>2 DEF On
  <2> QED BY <2>1, <1>1, <1>7 DEF IdleInv, members, apps, On
<1>12. KnownInv'
  BY <1>1, <1>2, <1>7 DEF KnownInv, members, apps
<1>13. HasInv'
  <2>1. \A a, b \in Nodes : \A j \in Copies : a # b /\ On(a) /\ Has(chan'[<<a, b>>], j) => AsNewAs(a, j)
    BY <1>2, <1>7 DEF HasInv
  <2> QED BY <2>1, <1>1 DEF HasInv, AsNewAs, members, apps, On
<1>14. DeliveryInv'
  <2> SUFFICES ASSUME NEW a \in Nodes, NEW b \in Nodes, NEW j \in Copies,
                      a # b, On(a), On(b), j \in owed[<<a, b>>], ~AsNewAs(b, j)
               PROVE  OnTheWay(j, a, b)'
    BY <1>1 DEF DeliveryInv, AsNewAs, members, apps, On
  <2>1. OnTheWay(j, a, b)
    BY DEF DeliveryInv
  <2>2. CASE a = n /\ b = m /\ j = k
    BY <2>2, <1>7 DEF OnTheWay
  <2>3. CASE msg[a] # NoPacket /\ msg[a].copy = j /\ b \in todo[a] /\ ~(a = n /\ b = m /\ j = k)
    <3>1. b \in todo'[a]
      BY <2>3, <1>5, <1>8
    <3> QED BY <2>3, <3>1, <1>1 DEF OnTheWay
  <2> QED BY <2>1, <2>2, <2>3, <1>1, <1>7 DEF OnTheWay, members, apps
<1> QED BY <1>9, <1>10, <1>11, <1>12, <1>13, <1>14

\* The broadcaster has been through all slots; nothing else was to come from its packet.
LEMMA BroadcastDoneInv ==
  ASSUME NetIInv, NEW n \in Nodes, BroadcastDone(n)
  PROVE  NetIInv'
<1> USE DEF NetIInv
<1>1. /\ todo[n] = {} /\ msg' = [msg EXCEPT ![n] = NoPacket]
      /\ UNCHANGED <<members, val, apps, held, queue, todo, chan, owed>>
  BY DEF BroadcastDone
<1>2. \A a \in Nodes : msg'[a] = IF a = n THEN NoPacket ELSE msg[a]
  BY <1>1 DEF NetTypeOK
<1>3. NetTypeOK'
  <2>1. msg' \in [Nodes -> Packets \cup {NoPacket}]
    BY <1>1 DEF NetTypeOK
  <2> QED BY <1>1, <1>2, <2>1 DEF NetTypeOK, members, apps
<1>4. MemberInv' /\ IdleInv'
  BY <1>1, <1>2 DEF MemberInv, IdleInv, members, apps, On
<1>5. KnownInv'
  <2>1. NoPacket.copy \notin Copies
    BY Numbers DEF NoPacket
  <2> QED BY <2>1, <1>1, <1>2 DEF KnownInv, members, apps
<1>6. HasInv'
  BY <1>1, <1>2 DEF HasInv, AsNewAs, members, apps, On
<1>7. DeliveryInv'
  BY <1>1, <1>2 DEF DeliveryInv, OnTheWay, AsNewAs, members, apps, On
<1> QED BY <1>3, <1>4, <1>5, <1>6, <1>7

\* A slave refuses what is older than what its clipboard holds.
LEMMA SlaveRefusedInv ==
  ASSUME NetIInv, NEW c \in Nodes, NEW n \in Nodes, c # n, SlaveRefused(c, n)
  PROVE  NetIInv'
<1> DEFINE k == Head(chan[<<c, n>>])
<1> USE DEF NetIInv
<1>1. /\ chan \in [Links -> Seq(Copies)] /\ <<c, n>> \in Links /\ chan[<<c, n>>] \in Seq(Copies)
      /\ chan[<<c, n>>] # <<>>
  BY LinkPairs DEF SlaveRefused, Received, NetTypeOK
<1>2. /\ chan' = [chan EXCEPT ![<<c, n>>] = Tail(chan[<<c, n>>])]
      /\ UNCHANGED <<members, val, apps, held, queue, cast, owed>>
      /\ Older(n, recvAt[k])
  BY DEF SlaveRefused
<1>3. /\ k \in Copies /\ Tail(chan[<<c, n>>]) \in Seq(Copies)
      /\ \A x : Has(chan[<<c, n>>], x) <=> x = k \/ Has(Tail(chan[<<c, n>>]), x)
  BY <1>1, HasTail
<1> HIDE DEF k
<1>4. AsNewAs(n, k)
  <2>1. val[n] # None /\ recvAt[val[n]] > recvAt[k]
    BY <1>2 DEF Older
  <2>2. recvAt[val[n]] \in Nat /\ recvAt[k] \in Nat
    <3>1. val \in [Nodes -> Copies \cup {None}] /\ recvAt \in [Copies -> Stamps]
      BY DEF NetTypeOK
    <3>2. val[n] \in Copies
      BY <2>1, <3>1
    <3> HIDE DEF NetIInv
    <3> QED BY <1>3, <3>1, <3>2, Numbers
  <2>3. recvAt[val[n]] >= recvAt[k]
    BY <2>1, <2>2
  <2> QED BY <2>1, <2>3 DEF AsNewAs
<1>5. /\ chan' \in [Links -> Seq(Copies)]
      /\ \A a, b \in Nodes : a # b =>
           chan'[<<a, b>>] = IF a = c /\ b = n THEN Tail(chan[<<c, n>>]) ELSE chan[<<a, b>>]
  BY <1>1, <1>2, <1>3, LinkPairs
<1>6. \A a, b \in Nodes : a # b => \A x :
        Has(chan[<<a, b>>], x) <=> Has(chan'[<<a, b>>], x) \/ (a = c /\ b = n /\ x = k)
  BY <1>3, <1>5
<1>7. NetTypeOK'
  BY <1>2, <1>5 DEF NetTypeOK, members, apps, cast
<1>8. /\ MemberInv'
      /\ IdleInv'
      /\ KnownInv'
  <2>1. MemberInv'
    BY <1>2 DEF MemberInv, members, On
  <2>2. IdleInv'
    BY <1>2, <1>6 DEF IdleInv, members, apps, cast, On
  <2>3. KnownInv'
    BY <1>2, <1>6 DEF KnownInv, apps, cast
  <2> QED BY <2>1, <2>2, <2>3
<1>9. HasInv'
  BY <1>2, <1>6 DEF HasInv, AsNewAs, members, apps, cast, On
<1>10. DeliveryInv'
  <2> SUFFICES ASSUME NEW a \in Nodes, NEW b \in Nodes, NEW j \in Copies,
                      a # b, On(a), On(b), j \in owed[<<a, b>>], ~AsNewAs(b, j)
               PROVE  OnTheWay(j, a, b)'
    BY <1>2 DEF DeliveryInv, AsNewAs, members, apps, On
  <2>1. OnTheWay(j, a, b)
    BY DEF DeliveryInv
  <2> QED BY <2>1, <1>2, <1>4, <1>6 DEF OnTheWay, members, apps, cast
<1> QED BY <1>7, <1>8, <1>9, <1>10

\* mem_put of k with the time stamp t: n then has k and owes it to those in its slots.
LEMMA PutPlaces ==
  ASSUME NetTypeOK, NEW n \in Nodes, NEW k \in Copies, NEW t \in Stamps,
         Put(n, k), recvAt' = [recvAt EXCEPT ![k] = t]
  PROVE  /\ val' = [val EXCEPT ![n] = k] /\ val' \in [Nodes -> Copies \cup {None}]
         /\ owed' \in [Links -> SUBSET Copies]
         /\ AsNewAs(n, k)'
         /\ \A a, b \in Nodes : a # b =>
              owed'[<<a, b>>] = IF a = n /\ b \in conn[n] THEN owed[<<a, b>>] \cup {k}
                                                          ELSE owed[<<a, b>>]
<1>1. /\ val \in [Nodes -> Copies \cup {None}] /\ owed \in [Links -> SUBSET Copies]
      /\ recvAt'[k] = t /\ t \in Nat
  BY Numbers DEF NetTypeOK
<1>2. /\ val' = [val EXCEPT ![n] = k] /\ val'[n] = k
      /\ owed' = [l \in Links |-> IF l[1] = n /\ l[2] \in conn[n] THEN owed[l] \cup {k} ELSE owed[l]]
  BY <1>1 DEF Put
<1>3. val' \in [Nodes -> Copies \cup {None}] /\ owed' \in [Links -> SUBSET Copies]
  BY <1>1, <1>2
<1>4. AsNewAs(n, k)'
  <2>1. k # None /\ recvAt'[k] >= recvAt'[k]
    BY <1>1, Numbers
  <2> QED BY <2>1, <1>2 DEF AsNewAs
<1>5. ASSUME NEW a \in Nodes, NEW b \in Nodes, a # b
      PROVE  owed'[<<a, b>>] = IF a = n /\ b \in conn[n] THEN owed[<<a, b>>] \cup {k}
                                                         ELSE owed[<<a, b>>]
  BY <1>2, <1>5, LinkPairs
<1> QED BY <1>2, <1>3, <1>4, <1>5

\* It is no older than it was: k has that time stamp already, or nobody holds it yet.
LEMMA PutKeeps ==
  ASSUME NetTypeOK, NEW n \in Nodes, NEW k \in Copies, NEW t \in Stamps,
         ~Older(n, t), Put(n, k), recvAt' = [recvAt EXCEPT ![k] = t],
         NEW a \in Nodes, NEW j \in Copies, AsNewAs(a, j),
         recvAt[k] = t \/ (j # k /\ val[a] # k)
  PROVE  AsNewAs(a, j)'
<1>1. /\ val \in [Nodes -> Copies \cup {None}]
      /\ \A i \in Copies : recvAt[i] \in Nat
      /\ \A i \in Copies : recvAt'[i] = IF i = k THEN t ELSE recvAt[i]
      /\ t \in Nat
  BY Numbers DEF NetTypeOK
<1>2. val' = [val EXCEPT ![n] = k] /\ val'[n] = k
  BY <1>1 DEF Put
<1>3. recvAt'[j] = recvAt[j] /\ (val[a] # None => recvAt'[val[a]] = recvAt[val[a]])
  BY <1>1
<1>4. CASE a # n
  <2>1. val'[a] = val[a]
    BY <1>1, <1>2, <1>4
  <2> QED BY <2>1, <1>3 DEF AsNewAs
<1>5. CASE a = n
  <2>1. val[n] # None /\ recvAt[val[n]] >= recvAt[j] /\ ~(recvAt[val[n]] > t)
    BY <1>5 DEF AsNewAs, Older
  <2>2. recvAt[val[n]] \in Nat /\ recvAt[j] \in Nat
    BY <2>1, <1>1
  <2>3. k # None /\ recvAt'[k] >= recvAt'[j]
    BY <2>1, <2>2, <1>1, <1>3, Numbers
  <2> QED BY <2>3, <1>2, <1>5 DEF AsNewAs
<1> QED BY <1>4, <1>5

\* A slave places what it received: its clipboard has something as new as before.
LEMMA SlavePlaceInv ==
  ASSUME NetIInv, NEW c \in Nodes, NEW n \in Nodes, c # n, SlavePlace(c, n)
  PROVE  NetIInv'
<1> USE DEF NetIInv
<1>1. /\ chan \in [Links -> Seq(Copies)] /\ <<c, n>> \in Links /\ chan[<<c, n>>] \in Seq(Copies)
      /\ chan[<<c, n>>] # <<>> /\ On(n) /\ c \in conn[n]
  BY LinkPairs DEF SlavePlace, Received, NetTypeOK
<1>0. PICK k \in Copies : k = Head(chan[<<c, n>>])
  BY <1>1, HasTail
<1>2. /\ chan' = [chan EXCEPT ![<<c, n>>] = Tail(chan[<<c, n>>])]
      /\ held' = [held EXCEPT ![<<c, n>>] = k]
      /\ UNCHANGED <<members, apps, queue, cast>>
      /\ ~Older(n, recvAt[k]) /\ Put(n, k)
  BY <1>0 DEF SlavePlace
<1>3. /\ k \in Copies /\ Tail(chan[<<c, n>>]) \in Seq(Copies)
      /\ \A x : Has(chan[<<c, n>>], x) <=> x = k \/ Has(Tail(chan[<<c, n>>]), x)
  BY <1>0, <1>1, HasTail
<1>4. /\ val' = [val EXCEPT ![n] = k] /\ val' \in [Nodes -> Copies \cup {None}]
      /\ owed' \in [Links -> SUBSET Copies]
      /\ AsNewAs(n, k)'
      /\ \A a \in Nodes, j \in Copies : AsNewAs(a, j) => AsNewAs(a, j)'
      /\ \A a, b \in Nodes : a # b =>
           owed'[<<a, b>>] = IF a = n /\ b \in conn[n] THEN owed[<<a, b>>] \cup {k}
                                                       ELSE owed[<<a, b>>]
  <2>1. recvAt[k] \in Stamps /\ recvAt' = [recvAt EXCEPT ![k] = recvAt[k]]
    BY <1>2 DEF apps, NetTypeOK
  <2>2. ASSUME NEW a \in Nodes, NEW j \in Copies, AsNewAs(a, j) PROVE AsNewAs(a, j)'
    BY <2>1, <2>2, <1>2, <1>3, PutKeeps
  <2> QED BY <2>1, <2>2, <1>2, <1>3, PutPlaces
<1>5. /\ chan' \in [Links -> Seq(Copies)]
      /\ \A a, b \in Nodes : a # b =>
           chan'[<<a, b>>] = IF a = c /\ b = n THEN Tail(chan[<<c, n>>]) ELSE chan[<<a, b>>]
  BY <1>1, <1>2, <1>3, LinkPairs
<1>6. \A a, b \in Nodes : a # b => \A x :
        Has(chan[<<a, b>>], x) <=> Has(chan'[<<a, b>>], x) \/ (a = c /\ b = n /\ x = k)
  BY <1>3, <1>5
<1>7. /\ held' \in [Links -> Copies \cup {None}] /\ held[<<c, n>>] = None
      /\ \A a, b \in Nodes : a # b => held'[<<a, b>>] = IF a = c /\ b = n THEN k ELSE held[<<a, b>>]
  <2>1. held \in [Links -> Copies \cup {None}] /\ held[<<c, n>>] = None
    BY DEF NetTypeOK, SlavePlace, Received
  <2> QED BY <2>1, <1>1, <1>2, <1>3, LinkPairs
<1>8. Has(chan[<<c, n>>], k)
  BY <1>3
<1>9. NetTypeOK'
  BY <1>2, <1>4, <1>5, <1>7 DEF NetTypeOK, members, apps, cast
<1>10. MemberInv'
  <2>1. \A a, b \in Nodes : a # b /\ owed'[<<a, b>>] # {} => b \in conn[a]
    BY <1>4 DEF MemberInv
  <2> QED BY <2>1, <1>2 DEF MemberInv, members, On
<1>11. IdleInv'
  <2>1. state[c] # "off"
    BY <1>3, <1>8 DEF IdleInv
  <2>2. \A a, b \in Nodes : a # b /\ held'[<<a, b>>] # None => On(b) /\ state[a] # "off"
    BY <2>1, <1>1, <1>7 DEF IdleInv
  <2> QED BY <2>2, <1>2, <1>6 DEF IdleInv, members, apps, cast, On
<1>12. KnownInv'
  <2>1. apc[k] # "new"
    BY <1>3, <1>8 DEF KnownInv
  <2>2. \A a \in Nodes : val'[a] = IF a = n THEN k ELSE val[a]
    BY <1>4 DEF NetTypeOK
  <2>3. \A j \in Copies : apc[j] = "new" => \A a, b \in Nodes : a # b =>
          held'[<<a, b>>] # j /\ ~Has(chan'[<<a, b>>], j) /\ j \notin owed'[<<a, b>>]
    <3>1. ASSUME NEW j \in Copies, apc[j] = "new", NEW a \in Nodes, NEW b \in Nodes, a # b
          PROVE  held'[<<a, b>>] # j /\ ~Has(chan'[<<a, b>>], j) /\ j \notin owed'[<<a, b>>]
      <4>1. j # k /\ held[<<a, b>>] # j /\ ~Has(chan[<<a, b>>], j) /\ j \notin owed[<<a, b>>]
        BY <3>1, <2>1 DEF KnownInv
      <4>2. j \notin owed'[<<a, b>>]
        BY <4>1, <3>1, <1>4
      <4> QED BY <4>1, <4>2, <3>1, <1>6, <1>7
    <3> QED BY <3>1
  <2>4. \A j \in Copies : apc[j] = "new" => \A a \in Nodes : val'[a] # j
    BY <2>1, <2>2 DEF KnownInv
  <2> QED BY <2>3, <2>4, <1>2 DEF KnownInv, apps, cast
<1>13. HasInv'
  <2>1. On(c) => AsNewAs(c, k)'
    BY <1>1, <1>3, <1>4, <1>8 DEF HasInv, AsNewAs
  <2>2. ASSUME NEW a \in Nodes, NEW b \in Nodes, a # b, held'[<<a, b>>] # None
        PROVE  (AsNewAs(b, held[<<a, b>>]) /\ (On(a) => AsNewAs(a, held[<<a, b>>])))'
    <3>1. PICK h \in Copies : h = held'[<<a, b>>]
      BY <2>2, <1>7, LinkPairs
    <3>2. AsNewAs(b, h)' /\ (On(a) => AsNewAs(a, h)')
      <4>1. CASE a = c /\ b = n
        <5>1. h = k
          BY <3>1, <4>1, <1>7
        <5> QED BY <4>1, <5>1, <2>1, <1>4 DEF AsNewAs
      <4>2. CASE ~(a = c /\ b = n)
        <5>1. h = held[<<a, b>>]
          BY <2>2, <3>1, <4>2, <1>7
        <5>2. AsNewAs(b, h) /\ (On(a) => AsNewAs(a, h))
          BY <2>2, <5>1, <3>1, Numbers DEF HasInv
        <5> QED BY <5>2, <1>4
      <4> QED BY <4>1, <4>2
    <3> QED BY <3>1, <3>2, <1>2 DEF AsNewAs, members, On
  <2>3. \A a \in Nodes : \A p \in Packets : Has(queue[a], p) => AsNewAs(a, p.copy)'
    BY <1>4 DEF HasInv, Packets
  <2>4. \A a \in Nodes : msg[a] # NoPacket => AsNewAs(a, msg[a].copy)'
    <3>1. \A a \in Nodes : msg[a] # NoPacket => msg[a].copy \in Copies
      BY DEF NetTypeOK, Packets
    <3> QED BY <3>1, <1>2, <1>4 DEF HasInv, AsNewAs, cast
  <2>5. \A j \in Copies : apc[j] = "placed" => AsNewAs(home[j], j)'
    BY <1>2, <1>4 DEF HasInv, IdleInv, AsNewAs, apps
  <2> QED BY <2>2, <2>3, <2>4, <2>5, <1>2, <1>4, <1>6 DEF HasInv, members, apps, cast, On
<1>14. DeliveryInv'
  <2> SUFFICES ASSUME NEW a \in Nodes, NEW b \in Nodes, NEW j \in Copies,
                      a # b, On(a), On(b), j \in owed'[<<a, b>>], ~AsNewAs(b, j)'
               PROVE  OnTheWay(j, a, b)'
    BY <1>2 DEF DeliveryInv, members, On
  <2>1. CASE a = n /\ b \in conn[n] /\ j = k
    <3>1. b # c
      BY <2>1, <1>3, <1>4, <1>8 DEF HasInv
    <3> QED BY <2>1, <3>1, <1>1, <1>2, <1>7 DEF OnTheWay, members
  <2>2. CASE ~(a = n /\ b \in conn[n] /\ j = k)
    <3>1. OnTheWay(j, a, b)
      BY <2>2, <1>4 DEF DeliveryInv
    <3>2. CASE \E d \in conn[a] \ {b} : held[<<d, a>>] = j
      <4>1. PICK d \in conn[a] \ {b} : held[<<d, a>>] = j
        BY <3>2
      <4>2. d \in Nodes /\ d # a /\ j # None
        BY <4>1, Numbers DEF MemberInv, NetTypeOK
      <4> QED BY <4>1, <4>2, <1>2, <1>7 DEF OnTheWay, members
    <3>3. CASE Has(chan[<<a, b>>], j)
      BY <3>3, <1>4, <1>6 DEF OnTheWay, AsNewAs
    <3> QED BY <3>1, <3>2, <3>3, <1>2 DEF OnTheWay, members, apps, cast
  <2> QED BY <2>1, <2>2
<1> QED BY <1>9, <1>10, <1>11, <1>12, <1>13, <1>14

\* A connection ends: nothing is owed over it any more.
LEMMA SlaveEndInv ==
  ASSUME NetIInv, NEW c \in Nodes, NEW n \in Nodes, c # n, SlaveEnd(c, n)
  PROVE  NetIInv'
<1> USE DEF NetIInv
<1>1. /\ held[<<c, n>>] = None /\ <<n, c>> \in Links
      /\ conn' = [conn EXCEPT ![n] = @ \ {c}]
      /\ todo' = [todo EXCEPT ![n] = @ \ {c}]
      /\ owed' = [owed EXCEPT ![<<n, c>>] = {}]
      /\ UNCHANGED <<state, joining, val, apps, held, queue, msg, chan>>
  BY LinkPairs DEF SlaveEnd
<1>2. \A a \in Nodes : /\ conn'[a] = IF a = n THEN conn[a] \ {c} ELSE conn[a]
                       /\ todo'[a] = IF a = n THEN todo[a] \ {c} ELSE todo[a]
  BY <1>1 DEF NetTypeOK
<1>3. \A a, b \in Nodes : a # b =>
        owed'[<<a, b>>] = IF a = n /\ b = c THEN {} ELSE owed[<<a, b>>]
  BY <1>1, LinkPairs DEF NetTypeOK
<1>4. NetTypeOK'
  <2>1. /\ conn' \in [Nodes -> SUBSET Nodes] /\ todo' \in [Nodes -> SUBSET Nodes]
        /\ owed' \in [Links -> SUBSET Copies]
    BY <1>1 DEF NetTypeOK
  <2>2. \A a \in Nodes : todo'[a] \subseteq conn'[a] /\ (msg[a] = NoPacket => todo'[a] = {})
    BY <1>2 DEF NetTypeOK
  <2> QED BY <1>1, <2>1, <2>2 DEF NetTypeOK, apps
<1>5. MemberInv'
  <2>1. \A a, b \in Nodes : a # b /\ owed'[<<a, b>>] # {} => b \in conn'[a]
    <3> SUFFICES ASSUME NEW a \in Nodes, NEW b \in Nodes, a # b, owed'[<<a, b>>] # {}
                 PROVE  b \in conn'[a]
      OBVIOUS
    <3>1. b \in conn[a] /\ ~(a = n /\ b = c)
      BY <1>3 DEF MemberInv
    <3> QED BY <3>1, <1>2
  <2> QED BY <2>1, <1>1, <1>2 DEF MemberInv, On
<1>6. IdleInv'
  BY <1>1 DEF IdleInv, On, apps
<1>7. KnownInv'
  BY <1>1, <1>3 DEF KnownInv, apps
<1>8. HasInv'
  BY <1>1 DEF HasInv, AsNewAs, On, apps
<1>9. DeliveryInv'
  <2> SUFFICES ASSUME NEW a \in Nodes, NEW b \in Nodes, NEW j \in Copies,
                      a # b, On(a), On(b), j \in owed'[<<a, b>>], ~AsNewAs(b, j)
               PROVE  OnTheWay(j, a, b)'
    BY <1>1 DEF DeliveryInv, AsNewAs, apps, On
  <2>1. j \in owed[<<a, b>>] /\ ~(a = n /\ b = c) /\ OnTheWay(j, a, b)
    BY <1>3 DEF DeliveryInv
  <2>2. CASE \E d \in conn[a] \ {b} : held[<<d, a>>] = j
    <3>1. \E d \in conn'[a] \ {b} : held[<<d, a>>] = j
      BY <2>2, <1>1, <1>2, Numbers
    <3> QED BY <3>1, <1>1 DEF OnTheWay
  <2>3. CASE msg[a] # NoPacket /\ msg[a].copy = j /\ b \in todo[a]
    <3>1. b \in todo'[a]
      BY <2>1, <2>3, <1>2
    <3> QED BY <2>3, <3>1, <1>1 DEF OnTheWay
  <2> QED BY <2>1, <2>2, <2>3, <1>1 DEF OnTheWay, apps
<1> QED BY <1>4, <1>5, <1>6, <1>7, <1>8, <1>9

\* An application's slave places a copy, and owes it to all neighbours in slots.
LEMMA AppPlaceInv ==
  ASSUME NetIInv, NEW k \in Copies, NEW n \in Nodes, NEW t \in Stamps, AppPlace(k, n, t)
  PROVE  NetIInv'
<1> USE DEF NetIInv
<1>1. /\ apc[k] = "new" /\ On(n)
      /\ home' = [home EXCEPT ![k] = n] /\ recvAt' = [recvAt EXCEPT ![k] = t]
      /\ UNCHANGED <<members, held, queue, cast, chan>>
  BY DEF AppPlace
<1>2. /\ apc' \in [Copies -> {"new", "placed", "end"}] /\ home' \in [Copies -> Nodes \cup {None}]
      /\ recvAt' \in [Copies -> Stamps]
      /\ apc'[k] \in {"placed", "end"}
      /\ \A j \in Copies : j # k => /\ apc'[j] = apc[j] /\ home'[j] = home[j]
                                    /\ recvAt'[j] = recvAt[j]
      /\ home'[k] = n
  <2>1. apc' = [apc EXCEPT ![k] = "end"] \/ apc' = [apc EXCEPT ![k] = "placed"]
    BY DEF AppPlace
  <2>2. /\ apc' \in [Copies -> {"new", "placed", "end"}] /\ apc'[k] \in {"placed", "end"}
        /\ \A j \in Copies : j # k => apc'[j] = apc[j]
    BY <2>1 DEF NetTypeOK
  <2> QED BY <2>2, <1>1 DEF NetTypeOK
<1>3. /\ val' \in [Nodes -> Copies \cup {None}] /\ owed' \in [Links -> SUBSET Copies]
      /\ apc'[k] = "placed" => AsNewAs(n, k)'
      /\ \A a \in Nodes, j \in Copies : j # k /\ AsNewAs(a, j) => AsNewAs(a, j)'
      /\ \A a \in Nodes : val'[a] = val[a] \/ val'[a] = k
      /\ \A a, b \in Nodes : a # b =>
           \/ owed'[<<a, b>>] = owed[<<a, b>>]
           \/ apc'[k] = "placed" /\ a = n /\ b \in conn[n]
              /\ owed'[<<a, b>>] = owed[<<a, b>>] \cup {k}
  <2>1. \A a \in Nodes : val[a] # k
    BY <1>1 DEF KnownInv
  <2>2. CASE Older(n, t)
    <3>1. UNCHANGED <<val, owed>> /\ apc' = [apc EXCEPT ![k] = "end"]
      BY <2>2 DEF AppPlace
    <3>2. \A a \in Nodes : val[a] \in Copies \cup {None}
      BY DEF NetTypeOK
    <3>3. \A a \in Nodes, j \in Copies : j # k /\ AsNewAs(a, j) => AsNewAs(a, j)'
      BY <2>1, <3>1, <3>2, <1>2 DEF AsNewAs
    <3> QED BY <3>1, <3>3 DEF NetTypeOK
  <2>3. CASE ~Older(n, t)
    <3>1. Put(n, k) /\ apc' = [apc EXCEPT ![k] = "placed"] /\ apc'[k] = "placed"
      BY <2>3 DEF AppPlace, NetTypeOK
    <3>2. /\ val' = [val EXCEPT ![n] = k] /\ val' \in [Nodes -> Copies \cup {None}]
          /\ owed' \in [Links -> SUBSET Copies]
          /\ AsNewAs(n, k)'
          /\ \A a \in Nodes, j \in Copies : j # k /\ AsNewAs(a, j) => AsNewAs(a, j)'
          /\ \A a, b \in Nodes : a # b =>
               owed'[<<a, b>>] = IF a = n /\ b \in conn[n] THEN owed[<<a, b>>] \cup {k}
                                                           ELSE owed[<<a, b>>]
      <4>1. NetTypeOK /\ recvAt' = [recvAt EXCEPT ![k] = t]
        BY <1>1
      <4>2. ASSUME NEW a \in Nodes, NEW j \in Copies, j # k, AsNewAs(a, j) PROVE AsNewAs(a, j)'
        BY <4>1, <4>2, <2>1, <2>3, <3>1, PutKeeps
      <4> QED BY <4>1, <4>2, <3>1, PutPlaces
    <3>3. \A a \in Nodes : val'[a] = val[a] \/ val'[a] = k
      BY <3>2 DEF NetTypeOK
    <3> QED BY <3>1, <3>2, <3>3
  <2> QED BY <2>2, <2>3
<1>4. NetTypeOK'
  BY <1>1, <1>2, <1>3 DEF NetTypeOK, members, cast
<1>5. MemberInv'
  <2>1. \A a, b \in Nodes : a # b /\ owed'[<<a, b>>] # {} => b \in conn[a]
    BY <1>3 DEF MemberInv
  <2> QED BY <2>1, <1>1 DEF MemberInv, members, On
<1>6. IdleInv'
  <2>1. \A j \in Copies : apc'[j] = "placed" => home'[j] \in Nodes /\ On(home'[j])
    BY <1>1, <1>2 DEF IdleInv
  <2> QED BY <2>1, <1>1 DEF IdleInv, members, cast, On
<1>7. KnownInv'
  <2> SUFFICES ASSUME NEW j \in Copies, apc'[j] = "new"
               PROVE  /\ \A a \in Nodes : val'[a] # j
                      /\ \A a, b \in Nodes : a # b => j \notin owed'[<<a, b>>]
                      /\ apc[j] = "new"
    BY <1>1 DEF KnownInv, cast
  <2>1. j # k /\ apc[j] = "new"
    BY <1>2
  <2> QED BY <2>1, <1>3 DEF KnownInv
<1>8. HasInv'
  <2>1. ASSUME NEW j \in Copies, apc'[j] = "placed" PROVE AsNewAs(home[j], j)'
    <3>1. CASE j = k
      <4>1. AsNewAs(n, k)' /\ home'[k] = n
        BY <2>1, <3>1, <1>2, <1>3
      <4> QED BY <3>1, <4>1 DEF AsNewAs
    <3>2. CASE j # k
      <4>1. home[j] \in Nodes /\ AsNewAs(home[j], j) /\ home'[j] = home[j]
        BY <2>1, <3>2, <1>2 DEF HasInv, IdleInv
      <4>2. PICK m \in Nodes : m = home[j]
        BY <4>1
      <4>3. AsNewAs(m, j)'
        BY <3>2, <4>1, <4>2, <1>3
      <4> QED BY <4>1, <4>2, <4>3 DEF AsNewAs
    <3> QED BY <3>1, <3>2
  <2>2. \A a \in Nodes : \A p \in Packets : Has(queue[a], p) => AsNewAs(a, p.copy)'
    <3>1. \A a \in Nodes : \A p \in Packets : Has(queue[a], p) => p.copy \in Copies /\ p.copy # k
      BY <1>1 DEF KnownInv, Packets
    <3> QED BY <3>1, <1>3 DEF HasInv
  <2>3. ASSUME NEW a \in Nodes, msg[a] # NoPacket PROVE AsNewAs(a, msg[a].copy)'
    <3>1. PICK j \in Copies : j = msg[a].copy
      BY <2>3 DEF NetTypeOK, Packets
    <3>2. j # k /\ AsNewAs(a, j)
      BY <2>3, <3>1, <1>1 DEF KnownInv, HasInv
    <3>3. AsNewAs(a, j)'
      BY <3>2, <1>3
    <3> QED BY <3>1, <3>3, <1>1 DEF AsNewAs, cast
  <2>4. ASSUME NEW a \in Nodes, NEW b \in Nodes, a # b, held[<<a, b>>] # None
        PROVE  (AsNewAs(b, held[<<a, b>>]) /\ (On(a) => AsNewAs(a, held[<<a, b>>])))'
    <3>1. PICK j \in Copies : j = held[<<a, b>>]
      BY <2>4, LinkPairs DEF NetTypeOK
    <3>2. j # k /\ AsNewAs(b, j) /\ (On(a) => AsNewAs(a, j))
      BY <2>4, <3>1, <1>1 DEF KnownInv, HasInv
    <3>3. AsNewAs(b, j)' /\ (On(a) => AsNewAs(a, j)')
      BY <3>2, <1>3
    <3> QED BY <3>1, <3>3, <1>1 DEF AsNewAs, members, On
  <2>5. \A a, b \in Nodes : \A j \in Copies : a # b /\ On(a) /\ Has(chan[<<a, b>>], j) => AsNewAs(a, j)'
    BY <1>1, <1>3 DEF KnownInv, HasInv
  <2> QED BY <2>1, <2>2, <2>3, <2>4, <2>5, <1>1 DEF HasInv, members, cast, On
<1>9. DeliveryInv'
  <2> SUFFICES ASSUME NEW a \in Nodes, NEW b \in Nodes, NEW j \in Copies,
                      a # b, On(a), On(b), j \in owed'[<<a, b>>], ~AsNewAs(b, j)'
               PROVE  OnTheWay(j, a, b)'
    BY <1>1 DEF DeliveryInv, members, On
  <2>1. CASE j = k
    <3>1. k \notin owed[<<a, b>>]
      BY <1>1 DEF KnownInv
    <3>2. apc'[k] = "placed" /\ a = n
      BY <2>1, <3>1, <1>3
    <3> QED BY <2>1, <3>2, <1>2 DEF OnTheWay
  <2>2. CASE j # k
    <3>1. OnTheWay(j, a, b)
      BY <2>2, <1>3 DEF DeliveryInv
    <3> QED BY <2>2, <3>1, <1>1, <1>2 DEF OnTheWay, members, cast
  <2> QED BY <2>1, <2>2
<1> QED BY <1>4, <1>5, <1>6, <1>7, <1>8, <1>9

\* A clipboard leaves, with the end of what it sent.
LEMMA GoneInv ==
  ASSUME NetIInv, NEW n \in Nodes, On(n), Gone(n)
  PROVE  NetIInv'
<1> USE DEF NetIInv
<1>1. /\ state' = [state EXCEPT ![n] = "gone"]
      /\ conn' = [conn EXCEPT ![n] = {}] /\ joining' = [joining EXCEPT ![n] = None]
      /\ val' = [val EXCEPT ![n] = None]
      /\ apc' = [k \in Copies |-> IF apc[k] = "placed" /\ home[k] = n THEN "end" ELSE apc[k]]
      /\ held' = [l \in Links |-> IF l[2] = n THEN None ELSE held[l]]
      /\ queue' = [queue EXCEPT ![n] = <<>>]
      /\ msg' = [msg EXCEPT ![n] = NoPacket] /\ todo' = [todo EXCEPT ![n] = {}]
      /\ owed' = [l \in Links |-> IF n \in {l[1], l[2]} THEN {} ELSE owed[l]]
      /\ UNCHANGED <<home, recvAt>>
  BY DEF Gone
<1>2. PICK got \in [Nodes -> Nat] :
        /\ \A m \in Nodes \ {n} : got[m] <= Len(chan[<<n, m>>])
        /\ chan' = [l \in Links |-> IF l[1] = n THEN SubSeq(chan[l], 1, got[l[2]])
                                    ELSE IF l[2] = n THEN <<>> ELSE chan[l]]
  <2>1. Cardinality(Copies) \in Nat
    <3>1. 1 \in Int /\ MaxCopies \in Int
      BY NetAssumption
    <3>2. IsFiniteSet(1..MaxCopies)
      BY <3>1, FS_Interval
    <3> QED BY <3>2, FS_CardinalityType DEF Copies
  <2>2. \A got \in [Nodes -> 0..Cardinality(Copies)] : got \in [Nodes -> Nat]
    BY <2>1
  <2> QED BY <2>2 DEF Gone
<1>3. \A a \in Nodes :
        /\ state'[a] = IF a = n THEN "gone" ELSE state[a]
        /\ conn'[a] = IF a = n THEN {} ELSE conn[a]
        /\ joining'[a] = IF a = n THEN None ELSE joining[a]
        /\ val'[a] = IF a = n THEN None ELSE val[a]
        /\ queue'[a] = IF a = n THEN <<>> ELSE queue[a]
        /\ msg'[a] = IF a = n THEN NoPacket ELSE msg[a]
        /\ todo'[a] = IF a = n THEN {} ELSE todo[a]
  BY <1>1 DEF NetTypeOK
<1>4. \A a, b \in Nodes : a # b =>
        /\ held'[<<a, b>>] = IF b = n THEN None ELSE held[<<a, b>>]
        /\ owed'[<<a, b>>] = IF n \in {a, b} THEN {} ELSE owed[<<a, b>>]
  BY <1>1, LinkPairs
<1>5. \A a, b \in Nodes : a # b =>
        /\ chan'[<<a, b>>] \in Seq(Copies)
        /\ \A x : Has(chan'[<<a, b>>], x) => Has(chan[<<a, b>>], x)
        /\ n \notin {a, b} => chan'[<<a, b>>] = chan[<<a, b>>]
  <2> SUFFICES ASSUME NEW a \in Nodes, NEW b \in Nodes, a # b
               PROVE  /\ chan'[<<a, b>>] \in Seq(Copies)
                      /\ \A x : Has(chan'[<<a, b>>], x) => Has(chan[<<a, b>>], x)
                      /\ n \notin {a, b} => chan'[<<a, b>>] = chan[<<a, b>>]
    OBVIOUS
  <2>1. chan[<<a, b>>] \in Seq(Copies)
    BY LinkPairs DEF NetTypeOK
  <2>2. chan'[<<a, b>>] = IF a = n THEN SubSeq(chan[<<a, b>>], 1, got[b])
                          ELSE IF b = n THEN <<>> ELSE chan[<<a, b>>]
    BY <1>2, LinkPairs
  <2>3. CASE a = n
    <3>1. got[b] \in Nat /\ got[b] <= Len(chan[<<a, b>>])
      BY <2>3, <1>2
    <3> QED BY <2>1, <2>2, <2>3, <3>1, HasPrefix
  <2>4. CASE a # n
    BY <2>1, <2>2, <2>4, EmptySeq, HasEmpty
  <2> QED BY <2>3, <2>4
<1>6. \A k \in Copies : /\ apc'[k] = "placed" => apc[k] = "placed" /\ home[k] # n
                        /\ apc'[k] = "new" => apc[k] = "new"
                        /\ apc[k] = "placed" /\ home[k] # n => apc'[k] = "placed"
  BY <1>1
<1>7. \A a \in Nodes, k \in Copies : a # n => (AsNewAs(a, k)' <=> AsNewAs(a, k))
  BY <1>1, <1>3 DEF AsNewAs
<1>8. NetTypeOK'
  <2>1. /\ state' \in [Nodes -> {"off", "on", "gone"}]
        /\ conn' \in [Nodes -> SUBSET Nodes] /\ joining' \in [Nodes -> Nodes \cup {None}]
        /\ val' \in [Nodes -> Copies \cup {None}]
    BY <1>1 DEF NetTypeOK
  <2>2. apc' \in [Copies -> {"new", "placed", "end"}]
    BY <1>1 DEF NetTypeOK
  <2>3. /\ held' \in [Links -> Copies \cup {None}]
        /\ owed' \in [Links -> SUBSET Copies]
    BY <1>1 DEF NetTypeOK
  <2>4. queue' \in [Nodes -> Seq(Packets)]
    BY <1>1, EmptySeq DEF NetTypeOK
  <2>5. msg' \in [Nodes -> Packets \cup {NoPacket}] /\ todo' \in [Nodes -> SUBSET Nodes]
    BY <1>1 DEF NetTypeOK
  <2>6. \A a \in Nodes : todo'[a] \subseteq conn'[a] /\ (msg'[a] = NoPacket => todo'[a] = {})
    BY <1>3 DEF NetTypeOK
  <2>7. chan' \in [Links -> Seq(Copies)]
    <3>1. \A l \in Links : chan'[l] \in Seq(Copies)
      BY <1>5, LinkPairs
    <3> QED BY <3>1, <1>2
  <2> QED BY <2>1, <2>2, <2>3, <2>4, <2>5, <2>6, <2>7, <1>1 DEF NetTypeOK
<1>9. MemberInv'
  <2>1. \A a, b \in Nodes : a # b /\ owed'[<<a, b>>] # {} => b \in conn'[a]
    BY <1>3, <1>4 DEF MemberInv
  <2>2. \A a \in Nodes : \A b \in conn'[a] : On(a)' /\ a # b /\ state'[b] # "off"
    BY <1>3 DEF MemberInv, On, NetTypeOK
  <2>3. \A a \in Nodes : joining'[a] # None => On(a)' /\ joining'[a] # a /\ state'[joining'[a]] # "off"
    BY <1>3 DEF MemberInv, On, NetTypeOK
  <2> QED BY <2>1, <2>2, <2>3 DEF MemberInv
<1>10. IdleInv'
  <2>1. \A a \in Nodes : ~On(a)' => queue'[a] = <<>> /\ msg'[a] = NoPacket
    BY <1>3 DEF IdleInv, On
  <2>2. \A a, b \in Nodes : a # b /\ held'[<<a, b>>] # None => On(b)' /\ state'[a] # "off"
    BY <1>3, <1>4 DEF IdleInv, On
  <2>3. \A a, b \in Nodes : a # b /\ state'[a] = "off" => \A k \in Copies : ~Has(chan'[<<a, b>>], k)
    BY <1>3, <1>5 DEF IdleInv
  <2>4. \A k \in Copies : apc'[k] = "placed" => home[k] \in Nodes /\ state'[home[k]] = "on"
    BY <1>3, <1>6 DEF IdleInv, On
  <2> QED BY <2>1, <2>2, <2>3, <2>4, <1>1 DEF IdleInv, On
<1>11. KnownInv'
  <2> SUFFICES ASSUME NEW k \in Copies, apc[k] = "new"
               PROVE  /\ \A a \in Nodes : val'[a] # k /\ msg'[a].copy # k
                      /\ \A a \in Nodes : \A p \in Packets : Has(queue'[a], p) => p.copy # k
                      /\ \A a, b \in Nodes : a # b => held'[<<a, b>>] # k
                           /\ ~Has(chan'[<<a, b>>], k) /\ k \notin owed'[<<a, b>>]
    BY <1>6 DEF KnownInv
  <2>1. k # None /\ NoPacket.copy # k
    BY Numbers DEF NoPacket
  <2>2. \A a \in Nodes : val'[a] # k /\ msg'[a].copy # k
    BY <2>1, <1>3 DEF KnownInv
  <2>3. \A a \in Nodes : \A p \in Packets : Has(queue'[a], p) => p.copy # k
    BY <1>3, HasEmpty DEF KnownInv
  <2>4. ASSUME NEW a \in Nodes, NEW b \in Nodes, a # b
        PROVE  held'[<<a, b>>] # k /\ ~Has(chan'[<<a, b>>], k) /\ k \notin owed'[<<a, b>>]
    <3>1. held[<<a, b>>] # k /\ ~Has(chan[<<a, b>>], k) /\ k \notin owed[<<a, b>>]
      BY <2>4 DEF KnownInv
    <3>2. ~Has(chan'[<<a, b>>], k)
      BY <2>4, <3>1, <1>5
    <3>3. held'[<<a, b>>] # k /\ k \notin owed'[<<a, b>>]
      BY <2>1, <2>4, <3>1, <1>4
    <3> QED BY <3>2, <3>3
  <2> QED BY <2>2, <2>3, <2>4
<1>12. HasInv'
  <2>1. ASSUME NEW k \in Copies, apc'[k] = "placed" PROVE AsNewAs(home[k], k)'
    <3>1. PICK m \in Nodes : m = home[k] /\ m # n
      BY <2>1, <1>6 DEF IdleInv
    <3>2. AsNewAs(m, k)'
      BY <2>1, <3>1, <1>6, <1>7 DEF HasInv
    <3> QED BY <3>1, <3>2, <1>1 DEF AsNewAs
  <2>2. \A a \in Nodes : \A p \in Packets : Has(queue'[a], p) => AsNewAs(a, p.copy)'
    <3>1. \A a \in Nodes : \A p \in Packets : Has(queue'[a], p) =>
            a # n /\ p.copy \in Copies /\ AsNewAs(a, p.copy)
      BY <1>3, HasEmpty DEF HasInv, Packets
    <3> QED BY <3>1, <1>7
  <2>3. ASSUME NEW a \in Nodes, msg'[a] # NoPacket PROVE AsNewAs(a, msg[a].copy)'
    <3>1. a # n /\ msg'[a] = msg[a]
      BY <2>3, <1>3
    <3>2. PICK j \in Copies : j = msg[a].copy
      BY <2>3, <3>1 DEF NetTypeOK, Packets
    <3>3. AsNewAs(a, j)'
      BY <2>3, <3>1, <3>2, <1>7 DEF HasInv
    <3> QED BY <3>1, <3>2, <3>3 DEF AsNewAs
  <2>4. ASSUME NEW a \in Nodes, NEW b \in Nodes, a # b, held'[<<a, b>>] # None
        PROVE  (AsNewAs(b, held[<<a, b>>]) /\ (On(a) => AsNewAs(a, held[<<a, b>>])))'
    <3>1. b # n /\ held'[<<a, b>>] = held[<<a, b>>]
      BY <2>4, <1>4
    <3>2. PICK j \in Copies : j = held[<<a, b>>]
      BY <2>4, <3>1, LinkPairs DEF NetTypeOK
    <3>3. AsNewAs(b, j) /\ (On(a) => AsNewAs(a, j))
      BY <2>4, <3>1, <3>2 DEF HasInv
    <3>4. AsNewAs(b, j)' /\ (On(a)' => AsNewAs(a, j)')
      BY <3>1, <3>3, <1>3, <1>7 DEF On
    <3> QED BY <3>1, <3>2, <3>4 DEF AsNewAs
  <2>5. \A a, b \in Nodes : \A j \in Copies :
          a # b /\ On(a)' /\ Has(chan'[<<a, b>>], j) => AsNewAs(a, j)'
    BY <1>3, <1>5, <1>7 DEF HasInv, On
  <2> QED BY <2>1, <2>2, <2>3, <2>4, <2>5, <1>1 DEF HasInv
<1>13. DeliveryInv'
  <2> SUFFICES ASSUME NEW a \in Nodes, NEW b \in Nodes, NEW j \in Copies,
                      a # b, On(a)', On(b)', j \in owed'[<<a, b>>], ~AsNewAs(b, j)'
               PROVE  OnTheWay(j, a, b)'
    BY DEF DeliveryInv
  <2>1. /\ a # n /\ b # n /\ On(a) /\ On(b) /\ j \in owed[<<a, b>>]
        /\ conn'[a] = conn[a] /\ queue'[a] = queue[a] /\ msg'[a] = msg[a] /\ todo'[a] = todo[a]
        /\ chan'[<<a, b>>] = chan[<<a, b>>]
    BY <1>3, <1>4, <1>5 DEF On
  <2>2. OnTheWay(j, a, b)
    BY <2>1, <1>7 DEF DeliveryInv
  <2>3. CASE \E d \in conn[a] \ {b} : held[<<d, a>>] = j
    <3>1. PICK d \in conn[a] \ {b} : held[<<d, a>>] = j
      BY <2>3
    <3>2. d \in Nodes /\ d # a
      BY <3>1 DEF MemberInv, NetTypeOK
    <3> QED BY <2>1, <3>1, <3>2, <1>4 DEF OnTheWay
  <2>4. CASE apc[j] = "placed" /\ home[j] = a
    BY <2>1, <2>4, <1>1, <1>6 DEF OnTheWay
  <2> QED BY <2>1, <2>2, <2>3, <2>4 DEF OnTheWay
<1> QED BY <1>8, <1>9, <1>10, <1>11, <1>12, <1>13
-----------------------------------------------------------------------------
\* Every step keeps the invariant.
THEOREM NetStep == NetIInv /\ [NetNext]_netVars => NetIInv'
<1> SUFFICES ASSUME NetIInv, [NetNext]_netVars PROVE NetIInv'
  OBVIOUS
<1>1. ASSUME NEW l \in Links, Join(l[1], l[2]) PROVE NetIInv'
  BY <1>1, JoinInv, LinkPairs
<1>2. ASSUME NEW n \in Nodes, Fill(n) \/ Leave(n) \/ Broadcast(n) PROVE NetIInv'
  <2>1. CASE Fill(n)
    BY <2>1, FillInv
  <2>2. CASE Leave(n)
    BY <2>2, GoneInv DEF Leave
  <2>3. CASE BroadcastPop(n)
    BY <2>3, BroadcastPopInv
  <2>4. ASSUME NEW m \in Nodes, BroadcastSend(n, m) \/ BroadcastKilled(n, m) PROVE NetIInv'
    <3>1. CASE BroadcastSend(n, m)
      BY <3>1, BroadcastSendInv
    <3>2. CASE BroadcastKilled(n, m)
      <4>1. On(n)
        BY <3>2 DEF BroadcastKilled, NetIInv, NetTypeOK, IdleInv
      <4> QED BY <3>2, <4>1, GoneInv DEF BroadcastKilled
    <3> QED BY <2>4, <3>1, <3>2
  <2>5. CASE BroadcastDone(n)
    BY <2>5, BroadcastDoneInv
  <2> QED BY <1>2, <2>1, <2>2, <2>3, <2>4, <2>5 DEF Broadcast
<1>3. ASSUME NEW k \in Copies, AppQueue(k) PROVE NetIInv'
  BY <1>3, AppQueueInv
<1>4. ASSUME NEW k \in Copies, NEW n \in Nodes, NEW t \in Stamps, AppPlace(k, n, t) PROVE NetIInv'
  BY <1>4, AppPlaceInv
<1>5. ASSUME NEW l \in Links, Slave(l[1], l[2]) PROVE NetIInv'
  <2>1. l[1] \in Nodes /\ l[2] \in Nodes /\ l[1] # l[2]
    BY LinkPairs
  <2>2. CASE SlaveRefused(l[1], l[2])
    BY <2>1, <2>2, SlaveRefusedInv
  <2>3. CASE SlavePlace(l[1], l[2])
    BY <2>1, <2>3, SlavePlaceInv
  <2>4. CASE SlaveQueue(l[1], l[2])
    BY <2>1, <2>4, SlaveQueueInv
  <2>5. CASE SlaveEnd(l[1], l[2])
    BY <2>1, <2>5, SlaveEndInv
  <2> QED BY <1>5, <2>2, <2>3, <2>4, <2>5 DEF Slave
<1>6. CASE UNCHANGED netVars
  <2>1. UNCHANGED <<state, conn, joining, val, apc, home, recvAt, held, queue, msg, todo, chan, owed>>
    BY <1>6 DEF netVars, members, apps, cast
  <2>2. NetTypeOK'
    BY <2>1 DEF NetIInv, NetTypeOK
  <2>3. MemberInv' /\ IdleInv'
    BY <2>1 DEF NetIInv, MemberInv, IdleInv, On
  <2>4. KnownInv'
    BY <2>1 DEF NetIInv, KnownInv
  <2>5. HasInv'
    BY <2>1 DEF NetIInv, HasInv, AsNewAs, On
  <2>6. DeliveryInv'
    BY <2>1 DEF NetIInv, DeliveryInv, OnTheWay, AsNewAs, On
  <2> QED BY <2>2, <2>3, <2>4, <2>5, <2>6 DEF NetIInv
<1> QED BY <1>1, <1>2, <1>3, <1>4, <1>5, <1>6 DEF NetNext

\* The state that the proofs below rest on: who is connected with whom, who has what
\* he passes on, and what is on its way.
THEOREM NetInvariant == NetSpec => []NetIInv
BY NetStart, NetStep, PTL DEF NetSpec

\* The variables keep their types, and the broadcaster only visits slots in use.
THEOREM NetTypes == NetSpec => []NetTypeOK
BY NetInvariant, PTL DEF NetIInv

\* Delivery from the invariant: what a clipboard placed while a neighbour was in a slot
\* reaches that neighbour, or something as new does.
THEOREM NetDelivery == NetSpec => []Delivery
<1>1. NetIInv => Delivery
  <2> SUFFICES ASSUME NetIInv, NEW l \in Links, On(l[1]), On(l[2]), NEW k \in owed[l],
                      ~AsNewAs(l[2], k)
               PROVE  Coming(k, l[1], l[2])
    BY DEF Delivery
  <2>1. PICK a \in Nodes, b \in Nodes : a = l[1] /\ b = l[2] /\ a # b /\ l = <<a, b>>
    BY LinkPairs
  <2>2. k \in Copies /\ OnTheWay(k, a, b)
    BY <2>1 DEF NetIInv, DeliveryInv, NetTypeOK
  <2>3. CASE \E p \in Packets : Has(queue[a], p) /\ p.copy = k /\ p.from # b
    BY <2>1, <2>3 DEF Has, Coming
  <2>4. CASE Has(chan[<<a, b>>], k)
    BY <2>1, <2>4 DEF Has, Coming
  <2> QED BY <2>1, <2>2, <2>3, <2>4 DEF OnTheWay, Coming
<1> QED BY <1>1, NetInvariant, PTL

\* SenderHas from the invariant: nobody needs to be sent what it passed on.
THEOREM NetSenderHas == NetSpec => []SenderHas
<1>1. NetIInv => SenderHas
  <2> SUFFICES ASSUME NetIInv, NEW l \in Links, NEW k \in Copies, On(l[1]),
                      held[<<l[1], l[2]>>] = k \/ Has(chan[<<l[1], l[2]>>], k)
               PROVE  AsNewAs(l[1], k)
    BY DEF SenderHas, Has
  <2>1. PICK a \in Nodes, b \in Nodes : a = l[1] /\ b = l[2] /\ a # b
    BY LinkPairs
  <2> QED BY <2>1, Numbers DEF NetIInv, HasInv
<1> QED BY <1>1, NetInvariant, PTL

\* Agreement from Delivery: at rest nothing is on its way, so of what two neighbours
\* hold and placed while connected, each is as new as the other.
THEOREM NetAgreement == NetSpec => []Agreement
<1>1. NetIInv => Agreement
  <2> SUFFICES ASSUME NetIInv, Quiet, NEW l \in Links,
                      val[l[1]] \in owed[<<l[1], l[2]>>], val[l[2]] \in owed[<<l[2], l[1]>>]
               PROVE  recvAt[val[l[1]]] = recvAt[val[l[2]]]
    BY DEF Agreement
  <2>1. PICK a \in Nodes, b \in Nodes : a = l[1] /\ b = l[2] /\ a # b
    BY LinkPairs
  <2>2. val[a] \in Copies /\ val[b] \in Copies /\ <<a, b>> \in Links /\ <<b, a>> \in Links
    BY <2>1, LinkPairs DEF NetIInv, NetTypeOK
  <2>3. b \in conn[a] /\ a \in conn[b] /\ On(a) /\ On(b)
    BY <2>1 DEF NetIInv, MemberInv
  <2>4. ASSUME NEW x \in Nodes, NEW y \in Nodes, NEW k \in Copies, x # y
        PROVE  ~OnTheWay(k, x, y)
    <3>1. apc[k] # "placed" /\ queue[x] = <<>> /\ msg[x] = NoPacket /\ chan[<<x, y>>] = <<>>
      BY <2>4, LinkPairs DEF Quiet
    <3>2. \A c \in conn[x] : held[<<c, x>>] # k
      <4> SUFFICES ASSUME NEW c \in conn[x] PROVE held[<<c, x>>] # k
        OBVIOUS
      <4>1. c \in Nodes /\ c # x
        BY DEF NetIInv, MemberInv, NetTypeOK
      <4> QED BY <4>1, LinkPairs, Numbers DEF Quiet
    <3> QED BY <3>1, <3>2, HasEmpty DEF OnTheWay
  <2>5. AsNewAs(b, val[a]) /\ AsNewAs(a, val[b])
    BY <2>1, <2>2, <2>3, <2>4 DEF NetIInv, DeliveryInv
  <2>6. recvAt[val[a]] \in Nat /\ recvAt[val[b]] \in Nat
    BY <2>2, Numbers DEF NetIInv, NetTypeOK
  <2>7. recvAt[val[b]] >= recvAt[val[a]] /\ recvAt[val[a]] >= recvAt[val[b]]
    BY <2>5 DEF AsNewAs
  <2> QED BY <2>1, <2>6, <2>7
<1> QED BY <1>1, NetInvariant, PTL
-----------------------------------------------------------------------------
(* Paths.  A clipboard is started with a parent once and for all, so the   *)
(* connections there ever were form a tree, though clipboards leave and    *)
(* conn forgets them.  up[n] stands for the clipboards from n to the first *)
(* one; that there is such an up is the invariant.                         *)

Forest(up) ==
  \A n \in Nodes :
    /\ n \in up[n]
    /\ \A m \in up[n] : m <= n /\ up[m] \subseteq up[n]
    /\ \A x, y \in up[n] : x \in up[y] \/ y \in up[x]

\* b was started with a as its parent.
IsParent(up, a, b) == a # b /\ up[b] = up[a] \cup {b}
Near(up, a, b) == IsParent(up, a, b) \/ IsParent(up, b, a)

\* Seen from a, h does not lie beyond its neighbour b.
Away(up, a, b, h) == (IsParent(up, a, b) => b \notin up[h]) /\ (IsParent(up, b, a) => a \in up[h])

OnLink(a, b, k) == held[<<a, b>>] = k \/ Has(chan[<<a, b>>], k)
Slots(a) == conn[a] \cup {joining[a]}

\* Connections, and links with copies on them, are edges of the tree, to which
\* clipboards are added in their order, as leaves.
TreeInv(up) ==
  /\ \A a \in Nodes : \A b \in conn[a] : Near(up, a, b)
  /\ \A a \in Nodes : joining[a] # None => IsParent(up, a, joining[a])
  /\ \A a, b \in Nodes : state[b] = "off" /\ a # b => b \notin up[a] /\ (state[a] # "off" => a < b)
  /\ \A a, b \in Nodes : \A k \in Copies : a # b /\ OnLink(a, b, k) => Near(up, a, b) /\ state[b] # "off"
  /\ \A k \in Copies : apc[k] # "new" => home[k] \in Nodes /\ state[home[k]] # "off"

\* Copies travel away from where they were made, and what came from a neighbour is
\* on its way to the others.
AwayInv(up) ==
  /\ \A a, b \in Nodes : \A k \in Copies : a # b /\ OnLink(a, b, k) => Away(up, a, b, home[k])
  /\ \A a \in Nodes : \A p \in Packets : Has(queue[a], p) \/ msg[a] = p =>
       \A b \in Nodes : b \in Slots(a) /\ b # p.from => Away(up, a, b, home[p.copy])
  /\ \A a \in Nodes : msg[a].from \notin todo[a]

PathInv == \E up \in [Nodes -> SUBSET Nodes] : Forest(up) /\ TreeInv(up) /\ AwayInv(up)
-----------------------------------------------------------------------------
(* The tree.                                                               *)

\* A copy that comes from the neighbour c of n, where it was not made beyond n, was
\* not made beyond any other neighbour of n.
LEMMA PassOn ==
  ASSUME NEW up \in [Nodes -> SUBSET Nodes], Forest(up), NEW n \in Nodes, NEW c \in Nodes, NEW h \in Nodes,
         Near(up, c, n), Away(up, c, n, h)
  PROVE  \A m \in Nodes : m # c => Away(up, n, m, h)
<1> USE Numbers DEF Forest, IsParent
<1> SUFFICES ASSUME NEW m \in Nodes, m # c PROVE Away(up, n, m, h)
  OBVIOUS
<1>0. c \in Nat /\ n \in Nat /\ m \in Nat
  OBVIOUS
<1>1. CASE IsParent(up, c, n)
  <2>1. n \notin up[h] /\ c < n
    <3>1. n \notin up[h]
      BY <1>1 DEF Away
    <3>2. c \in up[n] /\ c # n
      BY <1>1
    <3> QED BY <1>0, <3>1, <3>2
  <2>2. IsParent(up, n, m) => m \notin up[h]
    <3> SUFFICES ASSUME IsParent(up, n, m), m \in up[h] PROVE FALSE
      OBVIOUS
    <3>1. up[m] \subseteq up[h] /\ n \in up[m]
      OBVIOUS
    <3> QED BY <2>1, <3>1
  <2>3. ~IsParent(up, m, n)
    <3> SUFFICES ASSUME IsParent(up, m, n) PROVE FALSE
      OBVIOUS
    <3>1. m \in up[n] /\ c \in up[n] /\ m # n /\ c # n /\ up[n] = up[c] \cup {n} /\ up[n] = up[m] \cup {n}
      BY <1>1
    <3>2. m \in up[c] /\ c \in up[m]
      BY <3>1
    <3>3. m <= c /\ c <= m
      BY <3>2
    <3> QED BY <1>0, <3>3
  <2> QED BY <2>2, <2>3 DEF Away
<1>2. CASE IsParent(up, n, c)
  <2>1. c \in up[h] /\ n \in up[c] /\ up[c] = up[n] \cup {c} /\ n # c
    BY <1>2 DEF Away
  <2>2. IsParent(up, n, m) => m \notin up[h]
    <3> SUFFICES ASSUME IsParent(up, n, m), m \in up[h] PROVE FALSE
      OBVIOUS
    <3>1. m \in up[c] \/ c \in up[m]
      BY <2>1
    <3>2. m \in up[n] \/ c \in up[n]
      BY <2>1, <3>1
    <3>3. m <= n \/ c <= n
      BY <3>2
    <3>4. n <= m /\ n <= c
      BY <2>1
    <3> QED BY <1>0, <2>1, <3>3, <3>4
  <2>3. n \in up[h]
    BY <2>1
  <2> QED BY <2>2, <2>3 DEF Away
<1> QED BY <1>1, <1>2 DEF Near

\* A copy was made beyond none of the neighbours of its home.
LEMMA FromHome ==
  ASSUME NEW up \in [Nodes -> SUBSET Nodes], Forest(up), NEW n \in Nodes
  PROVE  \A m \in Nodes : Away(up, n, m, n)
<1> SUFFICES ASSUME NEW m \in Nodes, IsParent(up, n, m), m \in up[n] PROVE FALSE
  BY DEF Away, Forest
<1>1. m <= n /\ n <= m /\ m # n
  BY DEF Forest, IsParent
<1> QED BY <1>1, Numbers

\* It has not come back as long as it travels away from there.
LEMMA NotHome ==
  ASSUME NEW up \in [Nodes -> SUBSET Nodes], Forest(up), NEW a \in Nodes, NEW b \in Nodes,
         Near(up, a, b)
  PROVE  ~Away(up, a, b, b)
<1>1. CASE IsParent(up, a, b)
  BY <1>1 DEF Away, Forest
<1>2. CASE IsParent(up, b, a)
  <2> SUFFICES ASSUME a \in up[b] PROVE FALSE
    BY <1>2 DEF Away
  <2>1. a <= b /\ b <= a /\ a # b
    BY <1>2 DEF Forest, IsParent
  <2> QED BY <2>1, Numbers
<1> QED BY <1>1, <1>2 DEF Near
-----------------------------------------------------------------------------
(* One lemma for each action that moves a copy or a clipboard.             *)

\* When nobody joins and nothing is copied, it is enough to look at what is new on a
\* link, in a queue or with a broadcaster.
LEMMA KeepPaths ==
  ASSUME NEW up \in [Nodes -> SUBSET Nodes], TreeInv(up), AwayInv(up),
         \A a \in Nodes : state'[a] = "off" <=> state[a] = "off",
         \A a \in Nodes : Slots(a)' \subseteq Slots(a) \cup {None},
         \A a \in Nodes : conn'[a] \subseteq Nodes /\ joining'[a] \in {joining[a], None},
         \A k \in Copies : apc'[k] = "new" <=> apc[k] = "new",
         home' = home,
         \A a, b \in Nodes : \A k \in Copies : a # b /\ OnLink(a, b, k)' =>
           OnLink(a, b, k) \/ (Near(up, a, b) /\ Away(up, a, b, home[k]) /\ state[b] # "off"),
         \A a \in Nodes : \A p \in Packets : Has(queue'[a], p) \/ msg'[a] = p =>
           \/ Has(queue[a], p) \/ msg[a] = p
           \/ \A b \in Nodes : b # p.from => Away(up, a, b, home[p.copy]),
         \A a \in Nodes : msg'[a].from \notin todo'[a]
  PROVE  TreeInv(up)' /\ AwayInv(up)'
<1>1. \A a \in Nodes : \A b \in conn'[a] : Near(up, a, b)
  <2> SUFFICES ASSUME NEW a \in Nodes, NEW b \in conn'[a] PROVE Near(up, a, b)
    OBVIOUS
  <2>1. b \in Nodes /\ b # None /\ b \in Slots(a)
    BY Numbers DEF Slots
  <2> QED BY <2>1 DEF TreeInv, Slots, Near
<1>2. \A a \in Nodes : joining'[a] # None => IsParent(up, a, joining'[a])
  BY DEF TreeInv
<1>3. \A a, b \in Nodes : state'[b] = "off" /\ a # b => b \notin up[a] /\ (state'[a] # "off" => a < b)
  BY DEF TreeInv
<1>4. \A a, b \in Nodes : \A k \in Copies : a # b /\ OnLink(a, b, k)' => Near(up, a, b) /\ state'[b] # "off"
  BY DEF TreeInv
<1>5. \A k \in Copies : apc'[k] # "new" => home'[k] \in Nodes /\ state'[home'[k]] # "off"
  BY DEF TreeInv
<1>6. \A a, b \in Nodes : \A k \in Copies : a # b /\ OnLink(a, b, k)' => Away(up, a, b, home'[k])
  BY DEF AwayInv
<1>7. ASSUME NEW a \in Nodes, NEW p \in Packets, Has(queue'[a], p) \/ msg'[a] = p,
             NEW b \in Nodes, b \in Slots(a)', b # p.from
      PROVE  Away(up, a, b, home'[p.copy])
  <2>1. b \in Slots(a)
    BY <1>7, Numbers
  <2> QED BY <1>7, <2>1 DEF AwayInv
<1>8. TreeInv(up)'
  BY <1>1, <1>2, <1>3, <1>4, <1>5 DEF TreeInv
<1>9. AwayInv(up)'
  BY <1>6, <1>7 DEF AwayInv
<1> QED BY <1>8, <1>9

\* AppQueue: nobody else made the copy.
LEMMA AppQueuePaths ==
  ASSUME NetIInv, NEW up \in [Nodes -> SUBSET Nodes], Forest(up), TreeInv(up), AwayInv(up),
         NEW k \in Copies, AppQueue(k)
  PROVE  TreeInv(up)' /\ AwayInv(up)'
<1>1. PICK n \in Nodes : n = home[k] /\ apc[k] = "placed"
  BY DEF AppQueue, NetIInv, IdleInv
<1>2. /\ apc' = [apc EXCEPT ![k] = "end"]
      /\ queue' = [queue EXCEPT ![n] = Append(@, [copy |-> k, from |-> None])]
      /\ UNCHANGED <<state, conn, joining, home, held, msg, todo, chan>>
  BY <1>1 DEF AppQueue, members, cast
<1>3. queue \in [Nodes -> Seq(Packets)] /\ apc \in [Copies -> {"new", "placed", "end"}]
      /\ conn \in [Nodes -> SUBSET Nodes]
  BY DEF NetIInv, NetTypeOK
<1>4. [copy |-> k, from |-> None] \in Packets
  BY DEF Packets
<1>5. \A a \in Nodes : \A p \in Packets : Has(queue'[a], p) =>
        Has(queue[a], p) \/ (a = n /\ p = [copy |-> k, from |-> None])
  BY <1>2, <1>3, <1>4, HasAppend
<1>6. \A a \in Nodes : \A p \in Packets : Has(queue'[a], p) \/ msg'[a] = p =>
        \/ Has(queue[a], p) \/ msg[a] = p
        \/ \A b \in Nodes : b # p.from => Away(up, a, b, home[p.copy])
  BY <1>1, <1>2, <1>5, FromHome
<1>7. \A a, b \in Nodes : \A j \in Copies : OnLink(a, b, j)' <=> OnLink(a, b, j)
  BY <1>2 DEF OnLink
<1>8. \A j \in Copies : apc'[j] = "new" <=> apc[j] = "new"
  BY <1>1, <1>2, <1>3
<1>9. \A a \in Nodes : Slots(a)' = Slots(a) /\ msg'[a].from \notin todo'[a]
  BY <1>2 DEF Slots, AwayInv
<1> QED BY <1>2, <1>3, <1>6, <1>7, <1>8, <1>9, KeepPaths

\* SlaveQueue: what came from a neighbour goes to the others.
LEMMA SlaveQueuePaths ==
  ASSUME NetIInv, NEW up \in [Nodes -> SUBSET Nodes], Forest(up), TreeInv(up), AwayInv(up),
         NEW c \in Nodes, NEW n \in Nodes, c # n, SlaveQueue(c, n)
  PROVE  TreeInv(up)' /\ AwayInv(up)'
<1>1. PICK k \in Copies : k = held[<<c, n>>]
  BY LinkPairs DEF SlaveQueue, NetIInv, NetTypeOK
<1>2. /\ queue' = [queue EXCEPT ![n] = Append(@, [copy |-> k, from |-> c])]
      /\ held' = [held EXCEPT ![<<c, n>>] = None]
      /\ UNCHANGED <<state, conn, joining, apc, home, msg, todo, chan>>
  BY <1>1 DEF SlaveQueue, members, cast, apps
<1>3. queue \in [Nodes -> Seq(Packets)] /\ held \in [Links -> Copies \cup {None}]
      /\ conn \in [Nodes -> SUBSET Nodes]
  BY DEF NetIInv, NetTypeOK
<1>4. [copy |-> k, from |-> c] \in Packets
  BY DEF Packets
<1>5. \A a \in Nodes : \A p \in Packets : Has(queue'[a], p) =>
        Has(queue[a], p) \/ (a = n /\ p = [copy |-> k, from |-> c])
  BY <1>2, <1>3, <1>4, HasAppend
<1>6. home[k] \in Nodes
  <2>1. apc[k] # "new"
    BY <1>1 DEF NetIInv, KnownInv
  <2> QED BY <2>1 DEF TreeInv
<1>7. Near(up, c, n) /\ Away(up, c, n, home[k])
  BY <1>1 DEF TreeInv, AwayInv, OnLink
<1>8. \A a \in Nodes : \A p \in Packets : Has(queue'[a], p) \/ msg'[a] = p =>
        \/ Has(queue[a], p) \/ msg[a] = p
        \/ \A b \in Nodes : b # p.from => Away(up, a, b, home[p.copy])
  BY <1>2, <1>5, <1>6, <1>7, PassOn
<1>9. \A a, b \in Nodes : \A j \in Copies : a # b /\ OnLink(a, b, j)' => OnLink(a, b, j)
  BY <1>2, <1>3, Numbers, LinkPairs DEF OnLink
<1>10. \A a \in Nodes : Slots(a)' = Slots(a) /\ msg'[a].from \notin todo'[a]
  BY <1>2 DEF Slots, AwayInv
<1> QED BY <1>2, <1>3, <1>8, <1>9, <1>10, KeepPaths

\* SlaveRefused and SlavePlace: from the link to the slave.
LEMMA SlaveTakePaths ==
  ASSUME NetIInv, NEW up \in [Nodes -> SUBSET Nodes], Forest(up), TreeInv(up), AwayInv(up),
         NEW c \in Nodes, NEW n \in Nodes, c # n, SlaveRefused(c, n) \/ SlavePlace(c, n)
  PROVE  TreeInv(up)' /\ AwayInv(up)'
<1>1. /\ chan[<<c, n>>] # <<>> /\ chan' = [chan EXCEPT ![<<c, n>>] = Tail(@)]
      /\ held' = held \/ held' = [held EXCEPT ![<<c, n>>] = Head(chan[<<c, n>>])]
      /\ UNCHANGED <<state, conn, joining, apc, home, queue, msg, todo>>
  BY DEF SlaveRefused, SlavePlace, Received, members, apps, cast
<1>2. chan \in [Links -> Seq(Copies)] /\ held \in [Links -> Copies \cup {None}]
      /\ conn \in [Nodes -> SUBSET Nodes]
  BY DEF NetIInv, NetTypeOK
<1>3. /\ chan[<<c, n>>] \in Seq(Copies)
      /\ \A x : Has(chan[<<c, n>>], x) <=> x = Head(chan[<<c, n>>]) \/ Has(Tail(chan[<<c, n>>]), x)
  BY <1>1, <1>2, LinkPairs, HasTail
<1>4. \A a, b \in Nodes : \A j \in Copies : a # b /\ Has(chan'[<<a, b>>], j) => Has(chan[<<a, b>>], j)
  BY <1>1, <1>2, <1>3, LinkPairs
<1>5. \A a, b \in Nodes : \A j \in Copies : a # b /\ held'[<<a, b>>] = j => OnLink(a, b, j)
  <2> SUFFICES ASSUME NEW a \in Nodes, NEW b \in Nodes, a # b,
                      held'[<<a, b>>] # held[<<a, b>>]
               PROVE  Has(chan[<<a, b>>], held'[<<a, b>>])
    BY DEF OnLink
  <2>1. a = c /\ b = n /\ held'[<<a, b>>] = Head(chan[<<a, b>>])
    BY <1>1, <1>2, LinkPairs
  <2> QED BY <1>3, <2>1
<1>6. \A a, b \in Nodes : \A j \in Copies : a # b /\ OnLink(a, b, j)' => OnLink(a, b, j)
  BY <1>4, <1>5 DEF OnLink
<1>7. \A a \in Nodes : Slots(a)' = Slots(a) /\ msg'[a].from \notin todo'[a]
  BY <1>1 DEF Slots, AwayInv
<1>8. \A a \in Nodes : \A p \in Packets : Has(queue'[a], p) \/ msg'[a] = p => Has(queue[a], p) \/ msg[a] = p
  BY <1>1
<1> QED BY <1>1, <1>2, <1>6, <1>7, <1>8, KeepPaths

\* SlaveEnd and Fill: slots.
LEMMA SlotPaths ==
  ASSUME NetIInv, NEW up \in [Nodes -> SUBSET Nodes], Forest(up), TreeInv(up), AwayInv(up),
         NEW n \in Nodes, Fill(n) \/ \E c \in Nodes : SlaveEnd(c, n)
  PROVE  TreeInv(up)' /\ AwayInv(up)'
<1>1. /\ conn \in [Nodes -> SUBSET Nodes] /\ joining \in [Nodes -> Nodes \cup {None}]
      /\ todo \in [Nodes -> SUBSET Nodes]
  BY DEF NetIInv, NetTypeOK
<1>2. UNCHANGED <<state, apc, home, held, queue, msg, chan>>
  BY DEF Fill, SlaveEnd, apps
<1>3. CASE Fill(n)
  <2>1. /\ joining' = [joining EXCEPT ![n] = None] /\ conn' = [conn EXCEPT ![n] = @ \cup {joining[n]}]
        /\ joining[n] # None
        /\ \/ todo' = todo
           \/ todo' = [todo EXCEPT ![n] = @ \cup {joining[n]}] /\ msg[n].from # joining[n]
    BY <1>3 DEF Fill
  <2>2. \A a \in Nodes : Slots(a)' \subseteq Slots(a) \cup {None}
    BY <1>1, <2>1 DEF Slots
  <2>3. \A a \in Nodes : conn'[a] \subseteq Nodes /\ joining'[a] \in {joining[a], None}
    BY <1>1, <2>1
  <2>4. \A a \in Nodes : msg'[a].from \notin todo'[a]
    BY <1>1, <1>2, <2>1 DEF AwayInv
  <2> QED BY <1>2, <2>2, <2>3, <2>4, KeepPaths DEF OnLink
<1>4. ASSUME NEW c \in Nodes, SlaveEnd(c, n) PROVE TreeInv(up)' /\ AwayInv(up)'
  <2>1. /\ joining' = joining /\ conn' = [conn EXCEPT ![n] = @ \ {c}]
        /\ todo' = [todo EXCEPT ![n] = @ \ {c}]
    BY <1>4 DEF SlaveEnd
  <2>2. \A a \in Nodes : Slots(a)' \subseteq Slots(a)
    BY <1>1, <2>1 DEF Slots
  <2>3. \A a \in Nodes : conn'[a] \subseteq Nodes
    BY <1>1, <2>1
  <2>4. \A a \in Nodes : msg'[a].from \notin todo'[a]
    BY <1>1, <1>2, <2>1 DEF AwayInv
  <2> QED BY <1>2, <2>1, <2>2, <2>3, <2>4, KeepPaths DEF OnLink
<1> QED BY <1>3, <1>4

\* BroadcastPop, BroadcastSend and BroadcastDone: from the queue to the links.
LEMMA BroadcastPaths ==
  ASSUME NetIInv, NEW up \in [Nodes -> SUBSET Nodes], Forest(up), TreeInv(up), AwayInv(up),
         NEW n \in Nodes, BroadcastPop(n) \/ BroadcastDone(n) \/ \E m \in Nodes : BroadcastSend(n, m)
  PROVE  TreeInv(up)' /\ AwayInv(up)'
<1>1. /\ conn \in [Nodes -> SUBSET Nodes] /\ todo \in [Nodes -> SUBSET Nodes]
      /\ queue \in [Nodes -> Seq(Packets)] /\ msg \in [Nodes -> Packets \cup {NoPacket}]
      /\ chan \in [Links -> Seq(Copies)] /\ todo[n] \subseteq conn[n] /\ (msg[n] = NoPacket => todo[n] = {})
  BY DEF NetIInv, NetTypeOK
<1>2. UNCHANGED <<state, conn, joining, apc, home, held>>
  BY DEF BroadcastPop, BroadcastSend, BroadcastDone, members, apps
<1>3. \A a \in Nodes : Slots(a)' = Slots(a) /\ conn'[a] \subseteq Nodes /\ joining'[a] = joining[a]
  BY <1>1, <1>2 DEF Slots
<1>4. CASE BroadcastPop(n)
  <2>1. /\ msg' = [msg EXCEPT ![n] = Head(queue[n])] /\ queue[n] # <<>>
        /\ todo' = [todo EXCEPT ![n] = conn[n] \ {Head(queue[n]).from}]
        /\ queue' = [queue EXCEPT ![n] = Tail(@)] /\ chan' = chan
    BY <1>4 DEF BroadcastPop, Targets
  <2>2. /\ queue[n] \in Seq(Packets)
        /\ \A x : Has(queue[n], x) <=> x = Head(queue[n]) \/ Has(Tail(queue[n]), x)
    BY <1>1, <2>1, HasTail
  <2>3. \A a \in Nodes : \A p \in Packets : Has(queue'[a], p) \/ msg'[a] = p => Has(queue[a], p) \/ msg[a] = p
    BY <1>1, <2>1, <2>2
  <2>4. \A a \in Nodes : msg'[a].from \notin todo'[a]
    BY <1>1, <2>1 DEF AwayInv
  <2> QED BY <1>2, <1>3, <2>1, <2>3, <2>4, KeepPaths DEF OnLink
<1>5. CASE BroadcastDone(n)
  <2>1. msg' = [msg EXCEPT ![n] = NoPacket] /\ todo[n] = {} /\ UNCHANGED <<queue, todo, chan>>
    BY <1>5 DEF BroadcastDone
  <2>2. \A a \in Nodes : \A p \in Packets : Has(queue'[a], p) \/ msg'[a] = p => Has(queue[a], p) \/ msg[a] = p
    BY <1>1, <2>1, Numbers
  <2>3. \A a \in Nodes : msg'[a].from \notin todo'[a]
    BY <1>1, <2>1 DEF AwayInv
  <2> QED BY <1>2, <1>3, <2>1, <2>2, <2>3, KeepPaths DEF OnLink
<1>6. ASSUME NEW m \in Nodes, BroadcastSend(n, m) PROVE TreeInv(up)' /\ AwayInv(up)'
  <2>1. /\ m \in todo[n] /\ m \in conn[n] /\ m # n /\ state[m] # "off"
        /\ chan' = IF On(m) THEN [chan EXCEPT ![<<n, m>>] = Append(@, msg[n].copy)] ELSE chan
        /\ todo' = [todo EXCEPT ![n] = @ \ {m}] /\ UNCHANGED <<queue, msg>>
    BY <1>1, <1>6 DEF BroadcastSend, NetIInv, MemberInv
  <2>2. msg[n] \in Packets /\ msg[n].copy \in Copies
    BY <1>1, <2>1 DEF Packets
  <2>3. Near(up, n, m) /\ m # msg[n].from /\ m \in Slots(n)
    BY <2>1 DEF TreeInv, AwayInv, Slots
  <2>4. Away(up, n, m, home[msg[n].copy])
    BY <2>2, <2>3 DEF AwayInv
  <2>5. \A a, b \in Nodes : \A j \in Copies : a # b /\ Has(chan'[<<a, b>>], j) =>
          Has(chan[<<a, b>>], j) \/ (a = n /\ b = m /\ j = msg[n].copy)
    <3> SUFFICES ASSUME NEW a \in Nodes, NEW b \in Nodes, NEW j \in Copies, a # b,
                        Has(chan'[<<a, b>>], j), ~Has(chan[<<a, b>>], j)
                 PROVE  a = n /\ b = m /\ j = msg[n].copy
      OBVIOUS
    <3>1. chan'[<<a, b>>] # chan[<<a, b>>]
      OBVIOUS
    <3>2. a = n /\ b = m /\ chan'[<<a, b>>] = Append(chan[<<a, b>>], msg[n].copy)
      BY <1>1, <2>1, <3>1, LinkPairs
    <3>3. chan[<<a, b>>] \in Seq(Copies)
      BY <1>1, LinkPairs
    <3> QED BY <2>2, <3>2, <3>3, HasAppend
  <2>6. \A a, b \in Nodes : \A j \in Copies : a # b /\ OnLink(a, b, j)' =>
          OnLink(a, b, j) \/ (Near(up, a, b) /\ Away(up, a, b, home[j]) /\ state[b] # "off")
    BY <1>2, <2>1, <2>3, <2>4, <2>5 DEF OnLink
  <2>7. \A a \in Nodes : msg'[a].from \notin todo'[a]
    BY <1>1, <2>1 DEF AwayInv
  <2> QED BY <1>2, <1>3, <2>1, <2>6, <2>7, KeepPaths
<1> QED BY <1>4, <1>5, <1>6

\* Leave and BroadcastKilled: of what n had sent a prefix is left.
LEMMA GonePaths ==
  ASSUME NetIInv, NEW up \in [Nodes -> SUBSET Nodes], Forest(up), TreeInv(up), AwayInv(up),
         NEW n \in Nodes, On(n), Gone(n)
  PROVE  TreeInv(up)' /\ AwayInv(up)'
<1>1. /\ state' = [state EXCEPT ![n] = "gone"]
      /\ conn' = [conn EXCEPT ![n] = {}] /\ joining' = [joining EXCEPT ![n] = None]
      /\ apc' = [k \in Copies |-> IF apc[k] = "placed" /\ home[k] = n THEN "end" ELSE apc[k]]
      /\ held' = [l \in Links |-> IF l[2] = n THEN None ELSE held[l]]
      /\ queue' = [queue EXCEPT ![n] = <<>>]
      /\ msg' = [msg EXCEPT ![n] = NoPacket] /\ todo' = [todo EXCEPT ![n] = {}]
      /\ home' = home
  BY DEF Gone
<1>2. PICK got \in [Nodes -> Nat] :
        /\ \A m \in Nodes \ {n} : got[m] <= Len(chan[<<n, m>>])
        /\ chan' = [l \in Links |-> IF l[1] = n THEN SubSeq(chan[l], 1, got[l[2]])
                                    ELSE IF l[2] = n THEN <<>> ELSE chan[l]]
  <2>1. Cardinality(Copies) \in Nat
    <3>1. 1 \in Int /\ MaxCopies \in Int
      BY NetAssumption
    <3>2. IsFiniteSet(1..MaxCopies)
      BY <3>1, FS_Interval
    <3> QED BY <3>2, FS_CardinalityType DEF Copies
  <2>2. \A got \in [Nodes -> 0..Cardinality(Copies)] : got \in [Nodes -> Nat]
    BY <2>1
  <2> QED BY <2>2 DEF Gone
<1>3. /\ conn \in [Nodes -> SUBSET Nodes] /\ joining \in [Nodes -> Nodes \cup {None}]
      /\ state \in [Nodes -> {"off", "on", "gone"}] /\ apc \in [Copies -> {"new", "placed", "end"}]
      /\ queue \in [Nodes -> Seq(Packets)] /\ msg \in [Nodes -> Packets \cup {NoPacket}]
      /\ todo \in [Nodes -> SUBSET Nodes] /\ chan \in [Links -> Seq(Copies)]
  BY DEF NetIInv, NetTypeOK
<1>4. \A a, b \in Nodes : \A j \in Copies : a # b /\ Has(chan'[<<a, b>>], j) => Has(chan[<<a, b>>], j)
  <2> SUFFICES ASSUME NEW a \in Nodes, NEW b \in Nodes, NEW j \in Copies, a # b, Has(chan'[<<a, b>>], j)
               PROVE  Has(chan[<<a, b>>], j)
    OBVIOUS
  <2>1. chan'[<<a, b>>] = IF a = n THEN SubSeq(chan[<<a, b>>], 1, got[b])
                          ELSE IF b = n THEN <<>> ELSE chan[<<a, b>>]
    BY <1>2, LinkPairs
  <2>2. CASE a = n
    <3>1. got[b] \in Nat /\ got[b] <= Len(chan[<<a, b>>]) /\ chan[<<a, b>>] \in Seq(Copies)
      BY <1>2, <1>3, <2>2, LinkPairs
    <3> QED BY <2>1, <2>2, <3>1, HasPrefix
  <2>3. CASE a # n
    BY <2>1, <2>3, HasEmpty
  <2> QED BY <2>2, <2>3
<1>5. \A a, b \in Nodes : \A j \in Copies : a # b /\ OnLink(a, b, j)' => OnLink(a, b, j)
  BY <1>1, <1>4, LinkPairs, Numbers DEF OnLink
<1>6. \A a \in Nodes : \A p \in Packets : Has(queue'[a], p) \/ msg'[a] = p => Has(queue[a], p) \/ msg[a] = p
  BY <1>1, <1>3, HasEmpty, Numbers
<1>7. \A a \in Nodes : /\ state'[a] = "off" <=> state[a] = "off"
                       /\ conn'[a] \subseteq Nodes /\ joining'[a] \in {joining[a], None}
  BY <1>1, <1>3 DEF On
<1>8. \A a \in Nodes : Slots(a)' \subseteq Slots(a) \cup {None}
  BY <1>1, <1>3 DEF Slots
<1>9. \A k \in Copies : apc'[k] = "new" <=> apc[k] = "new"
  BY <1>1, <1>3
<1>10. \A a \in Nodes : msg'[a].from \notin todo'[a]
  BY <1>1, <1>3 DEF AwayInv
<1>11. home' = home
  BY <1>1
<1> QED BY <1>5, <1>6, <1>7, <1>8, <1>9, <1>10, <1>11, KeepPaths

\* AppPlace: the copy is not on its way before it is made.
LEMMA AppPlacePaths ==
  ASSUME NetIInv, NEW up \in [Nodes -> SUBSET Nodes], Forest(up), TreeInv(up), AwayInv(up),
         NEW k \in Copies, NEW n \in Nodes, NEW t \in Stamps, AppPlace(k, n, t)
  PROVE  TreeInv(up)' /\ AwayInv(up)'
<1>1. /\ apc[k] = "new" /\ state[n] = "on" /\ home' = [home EXCEPT ![k] = n]
      /\ \A j \in Copies : j # k => apc'[j] = apc[j]
      /\ UNCHANGED <<state, conn, joining, held, queue, msg, todo, chan>>
  BY DEF AppPlace, NetIInv, NetTypeOK, On, members, cast
<1>2. \A j \in Copies : home'[j] = IF j = k THEN n ELSE home[j]
  BY <1>1 DEF NetIInv, NetTypeOK
<1>3. /\ \A a, b \in Nodes : a # b => ~OnLink(a, b, k)
      /\ \A a \in Nodes : \A p \in Packets : Has(queue[a], p) \/ msg[a] = p => p.copy # k
  BY <1>1 DEF NetIInv, KnownInv, OnLink
<1>4. \A a, b \in Nodes : \A j \in Copies : OnLink(a, b, j)' <=> OnLink(a, b, j)
  BY <1>1 DEF OnLink
<1>5. \A a \in Nodes : Slots(a)' = Slots(a)
  BY <1>1 DEF Slots
<1>6. TreeInv(up)'
  <2>1. \A j \in Copies : apc'[j] # "new" => home'[j] \in Nodes /\ state[home'[j]] # "off"
    BY <1>1, <1>2 DEF TreeInv
  <2> QED BY <1>1, <1>4, <2>1 DEF TreeInv
<1>7. AwayInv(up)'
  <2>1. \A a, b \in Nodes : \A j \in Copies : a # b /\ OnLink(a, b, j)' => Away(up, a, b, home'[j])
    BY <1>2, <1>3, <1>4 DEF AwayInv
  <2>2. ASSUME NEW a \in Nodes, NEW p \in Packets, Has(queue[a], p) \/ msg[a] = p,
               NEW b \in Nodes, b \in Slots(a), b # p.from
        PROVE  Away(up, a, b, home'[p.copy])
    <3>1. p.copy \in Copies /\ p.copy # k
      BY <2>2, <1>3 DEF Packets
    <3> QED BY <2>2, <3>1, <1>2 DEF AwayInv
  <2> QED BY <1>1, <1>5, <2>1, <2>2 DEF AwayInv
<1> QED BY <1>6, <1>7

\* Join: the new clipboard is a leaf of the tree; what is renamed to come from it came
\* from where nobody has a slot.
LEMMA JoinPaths ==
  ASSUME NetIInv, PathInv, NEW c \in Nodes, NEW n \in Nodes, c # n, Join(c, n)
  PROVE  PathInv'
<1>1. PICK up \in [Nodes -> SUBSET Nodes] : Forest(up) /\ TreeInv(up) /\ AwayInv(up)
  BY DEF PathInv
<1> DEFINE up2 == [up EXCEPT ![n] = up[c] \cup {n}]
<1>2. On(c) /\ state[n] = "off" /\ joining[c] = None /\ ~On(n) /\ \A b \in 1..n - 1 : state[b] # "off"
  BY DEF Join, On
<1>3. /\ joining' = [joining EXCEPT ![c] = n] /\ state' = [state EXCEPT ![n] = "on"]
      /\ conn' = [conn EXCEPT ![n] = {c}]
      /\ UNCHANGED <<apc, home, held, todo, chan>>
  BY DEF Join, apps
<1>4. PICK orphans \in Orphans(c, n) :
        /\ queue' = [queue EXCEPT ![c] = [i \in DOMAIN @ |-> Renamed(@[i], orphans, n)]]
        /\ msg' = [msg EXCEPT ![c] = Renamed(@, orphans, n)]
  BY DEF Join
<1>5. /\ conn \in [Nodes -> SUBSET Nodes] /\ joining \in [Nodes -> Nodes \cup {None}]
      /\ state \in [Nodes -> {"off", "on", "gone"}] /\ queue \in [Nodes -> Seq(Packets)]
      /\ msg \in [Nodes -> Packets \cup {NoPacket}] /\ todo \in [Nodes -> SUBSET Nodes]
      /\ todo[c] \subseteq conn[c] /\ todo[n] \subseteq conn[n]
  BY DEF NetIInv, NetTypeOK
<1>6. \A a \in Nodes : /\ conn'[a] = IF a = n THEN {c} ELSE conn[a]
                       /\ state'[a] = IF a = n THEN "on" ELSE state[a]
                       /\ joining'[a] = IF a = c THEN n ELSE joining[a]
  BY <1>3, <1>5
\* Where the new clipboard is.
<1>7. n \in Nat /\ c \in Nat /\ c < n /\ c \in up[c] /\ up[c] \subseteq Nodes
  BY <1>1, <1>2, Numbers DEF TreeInv, On, Forest
<1>8. \A x \in Nodes : x # n => n \notin up[x]
  BY <1>1, <1>2 DEF TreeInv
<1>9. up2 \in [Nodes -> SUBSET Nodes] /\ \A x \in Nodes : up2[x] = IF x = n THEN up[c] \cup {n} ELSE up[x]
  BY <1>1, <1>7
<1> HIDE DEF up2
<1>10. Forest(up2)
  <2> SUFFICES ASSUME NEW x \in Nodes
               PROVE  /\ x \in up2[x]
                      /\ \A m \in up2[x] : m <= x /\ up2[m] \subseteq up2[x]
                      /\ \A y, z \in up2[x] : y \in up2[z] \/ z \in up2[y]
    BY DEF Forest
  <2>1. CASE x # n
    <3>1. up2[x] = up[x] /\ up[x] \subseteq Nodes /\ n \notin up[x]
      BY <1>8, <1>9, <2>1
    <3>2. \A m \in up[x] : up2[m] = up[m]
      BY <1>9, <3>1
    <3> QED BY <1>1, <3>1, <3>2 DEF Forest
  <2>2. CASE x = n
    <3>1. up2[x] = up[c] \cup {n} /\ n \notin up[c]
      BY <1>7, <1>8, <1>9, <2>2
    <3>2. \A m \in up[c] : up2[m] = up[m] /\ m \in Nat /\ m <= c /\ up[m] \subseteq up[c]
      BY <1>1, <1>7, <1>9, <3>1, Numbers DEF Forest
    <3>3. \A m \in up2[x] : m <= x /\ up2[m] \subseteq up2[x]
      <4> SUFFICES ASSUME NEW m \in up2[x] PROVE m <= x /\ up2[m] \subseteq up2[x]
        OBVIOUS
      <4>1. CASE m = n
        BY <1>7, <2>2, <4>1
      <4>2. CASE m # n
        <5>1. m \in up[c]
          BY <3>1, <4>2
        <5> QED BY <1>7, <2>2, <3>1, <3>2, <5>1
      <4> QED BY <4>1, <4>2
    <3>4. \A y, z \in up[c] : y \in up2[z] \/ z \in up2[y]
      BY <1>1, <3>2 DEF Forest
    <3>5. \A y \in up2[x] : y \in up2[n]
      BY <2>2
    <3> QED BY <2>2, <3>1, <3>3, <3>4, <3>5
  <2> QED BY <2>1, <2>2
<1>11. \A a, b \in Nodes : a # n /\ b # n => (IsParent(up2, a, b) <=> IsParent(up, a, b))
  BY <1>9 DEF IsParent
<1>12. IsParent(up2, c, n) /\ \A b \in Nodes : ~IsParent(up2, n, b)
  <2>1. IsParent(up2, c, n)
    BY <1>7, <1>9 DEF IsParent
  <2>2. ASSUME NEW b \in Nodes, IsParent(up2, n, b) PROVE FALSE
    <3>1. b # n /\ n \in up[b]
      BY <1>9, <2>2 DEF IsParent
    <3> QED BY <1>8, <3>1
  <2> QED BY <2>1, <2>2
<1>13. \A a, b, h \in Nodes : a # n /\ b # n /\ h # n /\ Away(up, a, b, h) => Away(up2, a, b, h)
  BY <1>9, <1>11 DEF Away
\* Nobody has a slot for n, or a copy from it.
<1>14. \A a \in Nodes : n \notin conn[a] /\ joining[a] # n
  BY <1>2, Numbers DEF NetIInv, MemberInv
<1>15. conn[n] = {} /\ joining[n] = None /\ queue[n] = <<>> /\ msg[n] = NoPacket
  BY <1>2, <1>5 DEF NetIInv, MemberInv, IdleInv
<1>16. \A a, b \in Nodes : \A k \in Copies : a # b /\ OnLink(a, b, k) => a # n /\ b # n /\ home[k] \in Nodes \ {n}
  <2> SUFFICES ASSUME NEW a \in Nodes, NEW b \in Nodes, NEW k \in Copies, a # b, OnLink(a, b, k)
               PROVE  a # n /\ b # n /\ home[k] \in Nodes \ {n}
    OBVIOUS
  <2>1. apc[k] # "new"
    BY DEF NetIInv, KnownInv, OnLink
  <2>2. state[a] # "off"
    BY Numbers DEF NetIInv, IdleInv, OnLink
  <2> QED BY <1>1, <1>2, <2>1, <2>2 DEF TreeInv
<1>17. \A a \in Nodes : \A p \in Packets : Has(queue[a], p) \/ msg[a] = p => home[p.copy] \in Nodes \ {n}
  <2> SUFFICES ASSUME NEW a \in Nodes, NEW p \in Packets, Has(queue[a], p) \/ msg[a] = p
               PROVE  home[p.copy] \in Nodes \ {n}
    OBVIOUS
  <2>1. p.copy \in Copies
    BY DEF Packets
  <2>2. apc[p.copy] # "new"
    BY <2>1 DEF NetIInv, KnownInv
  <2> QED BY <1>1, <1>2, <2>1, <2>2 DEF TreeInv
\* The packets of c: those that come from n now came from nobody with a slot.
<1> DEFINE R(p) == Renamed(p, orphans, n)
<1>18. \A p \in Packets : /\ R(p) \in Packets /\ R(p).copy = p.copy
                          /\ R(p) = p \/ (R(p).from = n /\ p.from \notin conn[c])
  <2>1. \A p \in orphans : p \in Packets /\ p.from \notin conn[c]
    BY <1>4, <1>5, Numbers DEF Orphans, Packets
  <2> QED BY <2>1, Numbers DEF Renamed, Packets
<1>19. R(NoPacket) = NoPacket
  BY <1>4, Numbers DEF Orphans, Packets, Renamed
<1>20. \A x : Has([i \in DOMAIN queue[c] |-> R(queue[c][i])], x) =>
         \E p \in Packets : Has(queue[c], p) /\ x = R(p)
  <2>1. \A i \in DOMAIN queue[c] : queue[c][i] \in Packets
    BY <1>5, ElementOfSeq, LenProperties
  <2> HIDE DEF R
  <2> QED BY <2>1 DEF Has
<1>21. /\ \A a \in Nodes : a # c => queue'[a] = queue[a] /\ msg'[a] = msg[a]
       /\ queue'[c] = [i \in DOMAIN queue[c] |-> R(queue[c][i])]
       /\ msg'[c] = R(msg[c])
  BY <1>4, <1>5
<1> HIDE DEF R
<1>22. \A p \in Packets : Has(queue'[c], p) \/ msg'[c] = p =>
         \E q \in Packets : /\ Has(queue[c], q) \/ msg[c] = q
                            /\ p.copy = q.copy
                            /\ p.from = q.from \/ q.from \notin conn[c]
  <2> SUFFICES ASSUME NEW p \in Packets, Has(queue'[c], p) \/ msg'[c] = p
               PROVE  \E q \in Packets : /\ Has(queue[c], q) \/ msg[c] = q
                                         /\ p.copy = q.copy
                                         /\ p.from = q.from \/ q.from \notin conn[c]
    OBVIOUS
  <2>1. PICK q \in Packets : (Has(queue[c], q) \/ msg[c] = q) /\ p = R(q)
    <3>1. CASE Has(queue'[c], p)
      BY <3>1, <1>20, <1>21
    <3>2. CASE msg'[c] = p
      <4>1. msg[c] # NoPacket
        BY <3>2, <1>19, <1>21, Numbers
      <4>2. msg[c] \in Packets
        BY <4>1, <1>5
      <4> QED BY <3>2, <4>2, <1>21
    <3> QED BY <3>1, <3>2
  <2> QED BY <2>1, <1>18
<1>23. TreeInv(up2)'
  <2>1. ASSUME NEW a \in Nodes, NEW b \in conn'[a] PROVE Near(up2, a, b)
    <3>1. CASE a = n
      BY <3>1, <1>6, <1>12, <2>1 DEF Near
    <3>2. CASE a # n
      <4>1. b \in conn[a] /\ b \in Nodes /\ b # n
        BY <3>2, <1>5, <1>6, <1>14, <2>1
      <4> QED BY <3>2, <4>1, <1>1, <1>11 DEF TreeInv, Near
    <3> QED BY <3>1, <3>2
  <2>2. ASSUME NEW a \in Nodes, joining'[a] # None PROVE IsParent(up2, a, joining'[a])
    <3>1. CASE a = c
      BY <3>1, <1>6, <1>12
    <3>2. CASE a # c
      <4>1. joining'[a] = joining[a] /\ joining[a] \in Nodes /\ a # n /\ joining[a] # n
        BY <2>2, <3>2, <1>5, <1>6, <1>14, <1>15
      <4> QED BY <2>2, <4>1, <1>1, <1>11 DEF TreeInv
    <3> QED BY <3>1, <3>2
  <2>3. ASSUME NEW a \in Nodes, NEW b \in Nodes, state'[b] = "off", a # b
        PROVE  b \notin up2[a] /\ (state'[a] # "off" => a < b)
    <3>1. b # n /\ state[b] = "off" /\ b # c
      BY <2>3, <1>2, <1>6 DEF On
    <3>2. CASE a # n
      BY <2>3, <3>1, <3>2, <1>1, <1>6, <1>9 DEF TreeInv
    <3>3. CASE a = n
      <4>1. b \notin up[c]
        BY <3>1, <1>1 DEF TreeInv
      <4>2. b \notin 1..n - 1 /\ b \in Nat /\ b >= 1
        BY <3>1, <1>2, NetAssumption DEF Nodes
      <4>3. n < b
        BY <4>2, <3>1, <1>7
      <4> QED BY <3>1, <3>3, <4>1, <4>3, <1>9
    <3> QED BY <3>2, <3>3
  <2>4. \A a, b \in Nodes : \A k \in Copies : a # b /\ OnLink(a, b, k)' => Near(up2, a, b) /\ state'[b] # "off"
    <3>1. \A a, b \in Nodes : \A k \in Copies : OnLink(a, b, k)' <=> OnLink(a, b, k)
      BY <1>3 DEF OnLink
    <3> QED BY <3>1, <1>1, <1>6, <1>11, <1>16 DEF TreeInv, Near
  <2>5. \A k \in Copies : apc'[k] # "new" => home'[k] \in Nodes /\ state'[home'[k]] # "off"
    BY <1>1, <1>3, <1>6 DEF TreeInv
  <2> QED BY <2>1, <2>2, <2>3, <2>4, <2>5 DEF TreeInv
<1>24. AwayInv(up2)'
  <2>1. \A a, b \in Nodes : \A k \in Copies : a # b /\ OnLink(a, b, k)' => Away(up2, a, b, home'[k])
    <3>1. \A a, b \in Nodes : \A k \in Copies : OnLink(a, b, k)' <=> OnLink(a, b, k)
      BY <1>3 DEF OnLink
    <3> QED BY <3>1, <1>1, <1>3, <1>13, <1>16 DEF AwayInv
  <2>2. ASSUME NEW a \in Nodes, NEW p \in Packets, Has(queue'[a], p) \/ msg'[a] = p,
               NEW b \in Nodes, b \in Slots(a)', b # p.from
        PROVE  Away(up2, a, b, home'[p.copy])
    <3>1. a # n
      BY <2>2, <1>15, <1>21, HasEmpty, Numbers
    <3>2. CASE a # c
      <4>1. Slots(a)' = Slots(a) /\ b # n /\ (Has(queue[a], p) \/ msg[a] = p)
        BY <2>2, <3>1, <3>2, <1>6, <1>14, <1>21 DEF Slots
      <4>2. Away(up, a, b, home[p.copy])
        BY <2>2, <4>1, <1>1 DEF AwayInv
      <4> QED BY <3>1, <4>1, <4>2, <1>3, <1>13, <1>17
    <3>3. CASE a = c
      <4>1. PICK q \in Packets : /\ Has(queue[c], q) \/ msg[c] = q
                                 /\ p.copy = q.copy
                                 /\ p.from = q.from \/ q.from \notin conn[c]
        BY <2>2, <3>3, <1>22
      <4>2. home[q.copy] \in Nodes \ {n}
        BY <4>1, <1>17
      <4>3. CASE b = n
        BY <3>3, <4>1, <4>2, <4>3, <1>3, <1>8, <1>9, <1>12 DEF Away
      <4>4. CASE b # n
        <5>1. b \in conn[c] /\ b # q.from
          BY <2>2, <3>1, <3>3, <4>1, <4>4, <1>6 DEF Slots
        <5>2. Away(up, c, b, home[q.copy])
          BY <4>1, <5>1, <1>1 DEF AwayInv, Slots
        <5> QED BY <3>1, <3>3, <4>1, <4>2, <4>4, <5>2, <1>3, <1>13
      <4> QED BY <4>3, <4>4
    <3> QED BY <3>2, <3>3
  <2>3. ASSUME NEW a \in Nodes PROVE msg'[a].from \notin todo'[a]
    <3>1. msg[a].from \notin todo[a] /\ todo'[a] = todo[a]
      BY <1>1, <1>3 DEF AwayInv
    <3>2. CASE a # c
      BY <3>1, <3>2, <1>21
    <3>3. CASE a = c
      <4>1. msg'[c].from = msg[c].from \/ msg'[c].from = n
        <5>1. CASE msg[c] = NoPacket
          BY <5>1, <1>19, <1>21
        <5>2. CASE msg[c] \in Packets
          BY <5>2, <1>18, <1>21
        <5> QED BY <5>1, <5>2, <1>5
      <4> QED BY <3>1, <3>3, <4>1, <1>5, <1>14
    <3> QED BY <3>2, <3>3
  <2> QED BY <2>1, <2>2, <2>3 DEF AwayInv
<1> QED BY <1>9, <1>10, <1>23, <1>24 DEF PathInv
-----------------------------------------------------------------------------
\* Every step keeps the tree, and the copies on their ways in it.
THEOREM NetPathStep == NetIInv /\ PathInv /\ [NetNext]_netVars => PathInv'
<1> SUFFICES ASSUME NetIInv, PathInv, [NetNext]_netVars PROVE PathInv'
  OBVIOUS
<1>1. ASSUME NEW l \in Links, Join(l[1], l[2]) PROVE PathInv'
  BY <1>1, JoinPaths, LinkPairs
<1>2. SUFFICES ASSUME ~\E l \in Links : Join(l[1], l[2]),
                      NEW up \in [Nodes -> SUBSET Nodes], Forest(up), TreeInv(up), AwayInv(up)
               PROVE  TreeInv(up)' /\ AwayInv(up)'
  BY <1>1 DEF PathInv
<1>3. ASSUME NEW n \in Nodes, Fill(n) \/ Leave(n) \/ Broadcast(n) PROVE TreeInv(up)' /\ AwayInv(up)'
  <2>1. CASE Fill(n)
    BY <2>1, <1>2, SlotPaths
  <2>2. CASE Leave(n)
    BY <2>2, <1>2, GonePaths DEF Leave
  <2>3. CASE BroadcastPop(n) \/ BroadcastDone(n) \/ \E m \in Nodes : BroadcastSend(n, m)
    BY <2>3, <1>2, BroadcastPaths
  <2>4. ASSUME NEW m \in Nodes, BroadcastKilled(n, m) PROVE TreeInv(up)' /\ AwayInv(up)'
    <3>1. On(n) /\ Gone(n)
      BY <2>4 DEF BroadcastKilled, NetIInv, NetTypeOK, IdleInv
    <3> QED BY <3>1, <1>2, GonePaths
  <2> QED BY <1>3, <2>1, <2>2, <2>3, <2>4 DEF Broadcast
<1>4. ASSUME NEW k \in Copies, AppQueue(k) PROVE TreeInv(up)' /\ AwayInv(up)'
  BY <1>2, <1>4, AppQueuePaths
<1>5. ASSUME NEW k \in Copies, NEW n \in Nodes, NEW t \in Stamps, AppPlace(k, n, t)
      PROVE  TreeInv(up)' /\ AwayInv(up)'
  BY <1>2, <1>5, AppPlacePaths
<1>6. ASSUME NEW l \in Links, Slave(l[1], l[2]) PROVE TreeInv(up)' /\ AwayInv(up)'
  <2>1. l[1] \in Nodes /\ l[2] \in Nodes /\ l[1] # l[2]
    BY LinkPairs
  <2>2. CASE SlaveRefused(l[1], l[2]) \/ SlavePlace(l[1], l[2])
    BY <2>1, <2>2, <1>2, SlaveTakePaths
  <2>3. CASE SlaveQueue(l[1], l[2])
    BY <2>1, <2>3, <1>2, SlaveQueuePaths
  <2>4. CASE SlaveEnd(l[1], l[2])
    BY <2>1, <2>4, <1>2, SlotPaths
  <2> QED BY <1>6, <2>2, <2>3, <2>4 DEF Slave
<1>7. CASE UNCHANGED netVars
  <2>1. UNCHANGED <<state, conn, joining, apc, home, held, queue, msg, todo, chan>>
    BY <1>7 DEF netVars, members, apps, cast
  <2>2. TreeInv(up)'
    BY <2>1, <1>2 DEF TreeInv, OnLink
  <2>3. AwayInv(up)'
    BY <2>1, <1>2 DEF AwayInv, OnLink, Slots
  <2> QED BY <2>2, <2>3
<1> QED BY <1>2, <1>3, <1>4, <1>5, <1>6, <1>7 DEF NetNext

\* There is a tree of all clipboards there ever were, and every copy travels away
\* from its home in it.
THEOREM NetPaths == NetSpec => []PathInv
<1>1. NetInit => PathInv
  <2> SUFFICES ASSUME NetInit PROVE PathInv
    OBVIOUS
  <2> DEFINE up == [n \in Nodes |-> {n}]
  <2>1. up \in [Nodes -> SUBSET Nodes] /\ \A n \in Nodes : up[n] = {n}
    OBVIOUS
  <2> HIDE DEF up
  <2>2. Forest(up)
    BY <2>1, Numbers DEF Forest
  <2>3. \A a, b \in Nodes : \A k \in Copies : a # b => ~OnLink(a, b, k)
    BY LinkPairs, HasEmpty, Numbers DEF NetInit, OnLink
  <2>4. TreeInv(up)
    <3>1. \A a, b \in Nodes : state[b] = "off" /\ a # b => b \notin up[a] /\ (state[a] # "off" => a < b)
      BY <2>1, NetAssumption DEF NetInit, Nodes
    <3> QED BY <2>3, <3>1 DEF NetInit, TreeInv
  <2>5. AwayInv(up)
    <3>1. \A a \in Nodes : \A p \in Packets : ~Has(queue[a], p) /\ msg[a] # p
      BY HasEmpty, Numbers DEF NetInit
    <3>2. \A a \in Nodes : todo[a] = {}
      BY DEF NetInit
    <3> QED BY <2>3, <3>1, <3>2 DEF AwayInv
  <2> QED BY <2>1, <2>2, <2>4, <2>5 DEF PathInv
<1> QED BY <1>1, NetPathStep, NetInvariant, PTL DEF NetSpec

\* NoReturn from the paths: what is on a link goes away from its home.
THEOREM NetNoReturn == NetSpec => []NoReturn
<1>1. NetIInv /\ PathInv => NoReturn
  <2> SUFFICES ASSUME NetIInv, PathInv, NEW l \in Links, NEW i \in DOMAIN chan[l], home[chan[l][i]] = l[2]
               PROVE  FALSE
    BY DEF NoReturn
  <2>1. PICK a \in Nodes, b \in Nodes : a = l[1] /\ b = l[2] /\ a # b /\ l = <<a, b>>
    BY LinkPairs
  <2>2. PICK k \in Copies : k = chan[<<a, b>>][i] /\ home[k] = b
    BY <2>1, ElementOfSeq, LenProperties DEF NetIInv, NetTypeOK
  <2>3. OnLink(a, b, k)
    BY <2>1, <2>2 DEF OnLink, Has
  <2>4. PICK up \in [Nodes -> SUBSET Nodes] : Forest(up) /\ TreeInv(up) /\ AwayInv(up)
    BY DEF PathInv
  <2>5. Near(up, a, b) /\ Away(up, a, b, b)
    BY <2>1, <2>2, <2>3, <2>4 DEF TreeInv, AwayInv
  <2> QED BY <2>4, <2>5, NotHome
<1> QED BY <1>1, NetPaths, NetInvariant, PTL
=============================================================================
