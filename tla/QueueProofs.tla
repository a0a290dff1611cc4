----------------------------- MODULE QueueProofs -----------------------------
(***************************************************************************)
(* The linked list of Queue is sound, and implements FifoQueue, for any    *)
(* number of producers, nodes and messages.  The invariant says that there *)
(* is a sequence s of nodes, linked by next, that first and last, the      *)
(* count and the nodes in use agree with; push makes it Append(s, n), pop  *)
(* Tail(s).  That s is what List finds is an induction along the list      *)
(* (OneChain), by the least number for which it fails.                     *)
(***************************************************************************)
EXTENDS Queue, SequenceTheorems, FiniteSetTheorems, TLAPS

\* The list, for its nodes s: from first along next to NULL.
SoundInv(s) ==
  /\ s \in Seq(Nodes) /\ IsInjective(s)
  /\ \A i \in DOMAIN s : s[i] = IF i = 1 THEN first ELSE next[s[i - 1]]
  /\ (IF s = <<>> THEN first ELSE next[s[Len(s)]]) = Null
  /\ last = IF s = <<>> THEN Null ELSE s[Len(s)]
  /\ nElements = Len(s)

\* Who has a node that is not in the list yet, or not any more.
Owners == {t \in Users : pc[t] \in {"p_lock", "c_free"}}

\* Every node in use is in the list or one owner's, and carries a message.
OwnInv(s) ==
  /\ \A t \in Owners : node[t] \in Nodes \ Range(s) /\ load[node[t]] \in Messages
  /\ \A t, u \in Owners : node[t] = node[u] => t = u
  /\ \A p \in Producers : pc[p] = "p_lock" => next[node[p]] = Null
  /\ used = Range(s) \cup {node[t] : t \in Owners}
  /\ \A i \in DOMAIN s : load[s[i]] \in Messages

\* Where the threads are.
PlaceInv ==
  /\ pc \in [Users -> {"out", "p_lock", "p_signal", "c_lock", "c_wait", "c_free", "t_signal", "t_end"}]
  /\ \A p \in Producers : pc[p] \in {"out", "p_lock", "p_signal"}
  /\ pc[Consumer] \in {"out", "c_lock", "c_wait", "c_free"}
  /\ pc[Terminator] \in {"out", "t_signal", "t_end"}

QueueIInv == QueueTypeOK /\ PlaceInv /\ \E s \in Seq(Nodes) : SoundInv(s) /\ OwnInv(s)
-----------------------------------------------------------------------------
(* Sequences of nodes.                                                     *)

\* Every set of numbers has a least one.
LEMMA LeastNumber ==
  ASSUME NEW S \in SUBSET Nat, S # {}
  PROVE  \E x \in S : \A y \in S : x <= y
<1> DEFINE R == {ss \in Nat \X Nat : ss[1] < ss[2]}
<1>1. IsWellFoundedOn(R, Nat)
  BY NatLessThanWellFounded DEF OpToRel
<1>2. \A x, y \in Nat : <<y, x>> \in R <=> y < x
  OBVIOUS
<1> HIDE DEF R
<1>3. PICK x \in S : \A y \in S : ~ (<<y, x>> \in R)
  BY <1>1, WFMin
<1>4. \A y \in S : x \in Nat /\ y \in Nat /\ ~(y < x)
  BY <1>2, <1>3
<1>5. \A y \in S : x <= y
  BY <1>4
<1> QED BY <1>5

\* Different nodes: not more than there are.
LEMMA NotMore ==
  ASSUME NEW s \in Seq(Nodes), IsInjective(s)
  PROVE  Len(s) \in 0..Cardinality(Nodes)
<1>1. Len(s) \in Nat /\ s \in [1..Len(s) -> Nodes]
  BY LenProperties
<1>2. s \in Injection(1..Len(s), Nodes) /\ IsFiniteSet(Nodes)
  BY <1>1, QueueAssumption DEF Injection
<1>3. Cardinality(1..Len(s)) <= Cardinality(Nodes)
  BY <1>2, FS_Injection
<1>4. Cardinality(1..Len(s)) = Len(s)
  BY <1>1, FS_Interval
<1>5. Cardinality(Nodes) \in Nat
  BY <1>2, FS_CardinalityType
<1> QED BY <1>1, <1>3, <1>4, <1>5

\* From a node there is one way along the pointers to NULL.
LEMMA OneChain ==
  ASSUME NEW f, NEW nx, NEW s \in Chains, NEW t \in Chains, IsChain(f, nx, s), IsChain(f, nx, t)
  PROVE  s = t
<1>1. Cardinality(Nodes) \in Nat /\ Null \notin Nodes
  BY QueueAssumption, FS_CardinalityType
<1>2. PICK j \in 0..Cardinality(Nodes) : s \in [1..j -> Nodes]
  BY DEF Chains
<1>3. PICK k \in 0..Cardinality(Nodes) : t \in [1..k -> Nodes]
  BY DEF Chains
<1>4. /\ s \in Seq(Nodes) /\ Len(s) = j /\ t \in Seq(Nodes) /\ Len(t) = k /\ j \in Nat /\ k \in Nat
      /\ DOMAIN s = 1..j /\ DOMAIN t = 1..k
  BY <1>1, <1>2, <1>3
<1>5. \A i \in 1..j \cap 1..k : s[i] = t[i]
  <2> DEFINE Bad == {i \in 1..j \cap 1..k : s[i] # t[i]}
  <2> SUFFICES ASSUME Bad # {} PROVE FALSE
    OBVIOUS
  <2>1. PICK i \in Bad : \A y \in Bad : i <= y
    <3>1. Bad \in SUBSET Nat
      BY <1>4
    <3> HIDE DEF Bad
    <3> QED BY <3>1, LeastNumber
  <2>2. i \in DOMAIN s /\ i \in DOMAIN t /\ s[i] # t[i] /\ i \in Nat
    BY <1>4
  <2>3. i # 1
    BY <2>2 DEF IsChain
  <2>4. s[i - 1] = t[i - 1]
    <3>1. i - 1 \notin Bad
      BY <2>1, <2>2
    <3>2. i - 1 \in 1..j \cap 1..k
      BY <1>4, <2>2, <2>3
    <3> QED BY <3>1, <3>2
  <2>5. s[i] = nx[s[i - 1]] /\ t[i] = nx[t[i - 1]]
    BY <2>2, <2>3 DEF IsChain
  <2> QED BY <2>2, <2>4, <2>5
<1>6. j = k
  <2>1. ASSUME NEW u \in Seq(Nodes), NEW v \in Seq(Nodes), Len(u) < Len(v), IsChain(f, nx, u), IsChain(f, nx, v),
               Len(v) <= Cardinality(Nodes), \A i \in 1..Len(u) : u[i] = v[i]
        PROVE  FALSE
    <3>1. Len(u) \in Nat /\ Len(v) \in Nat /\ DOMAIN v = 1..Len(v) /\ Len(u) + 1 \in DOMAIN v
      BY <2>1, LenProperties
    <3>2. (IF u = <<>> THEN f ELSE nx[u[Len(u)]]) = Null
      BY <1>1, <2>1, <3>1 DEF IsChain
    <3>6. \A i \in DOMAIN v : v[i] = IF i = 1 THEN f ELSE nx[v[i - 1]]
      BY <2>1 DEF IsChain
    <3>3. v[Len(u) + 1] \in Nodes
      BY <3>1, ElementOfSeq
    <3>4. CASE u = <<>>
      <4>1. v[1] \in Nodes /\ v[1] = f
        <5>1. Len(u) = 0 /\ 1 \in DOMAIN v
          BY <3>1, <3>4, EmptySeq
        <5> QED BY <3>6, <3>3, <5>1
      <4> QED BY <1>1, <3>2, <3>4, <4>1
    <3>5. CASE u # <<>>
      <4>1. Len(u) # 0
        BY <3>5, EmptySeq
      <4>2. v[Len(u) + 1] = nx[v[Len(u)]] /\ v[Len(u)] = u[Len(u)]
        <5>1. PICK m \in DOMAIN v : m = Len(u) + 1
          BY <3>1
        <5>2. m # 1 /\ m - 1 = Len(u) /\ Len(u) \in 1..Len(u)
          BY <3>1, <4>1, <5>1
        <5>3. v[m] = nx[v[m - 1]]
          BY <3>6, <5>2
        <5>4. v[Len(u)] = u[Len(u)]
          BY <2>1, <5>2
        <5> QED BY <5>1, <5>2, <5>3, <5>4
      <4> QED BY <1>1, <3>2, <3>3, <3>5, <4>2
    <3> QED BY <3>4, <3>5
  <2>2. ~(j < k)
    BY <1>4, <1>5, <2>1
  <2>3. ~(k < j)
    BY <1>4, <1>5, <2>1
  <2> QED BY <1>4, <2>2, <2>3
<1> QED BY <1>4, <1>5, <1>6, SeqEqual

\* A sequence of different nodes linked from f to NULL is the one to find.
LEMMA FoundChain ==
  ASSUME NEW f, NEW nx, NEW s \in Seq(Nodes), IsInjective(s),
         \A i \in DOMAIN s : s[i] = IF i = 1 THEN f ELSE nx[s[i - 1]],
         (IF s = <<>> THEN f ELSE nx[s[Len(s)]]) = Null
  PROVE  /\ s \in Chains /\ IsChain(f, nx, s)
         /\ \A t \in Chains : IsChain(f, nx, t) => t = s
<1>1. IsChain(f, nx, s)
  BY DEF IsChain
<1>2. s \in Chains
  <2>1. Len(s) \in 0..Cardinality(Nodes) /\ s \in [1..Len(s) -> Nodes]
    BY NotMore, LenProperties
  <2> QED BY <2>1 DEF Chains
<1> QED BY <1>1, <1>2, OneChain
-----------------------------------------------------------------------------
(* One lemma for each action that changes the list or a node.              *)

\* What the assumptions say of the constants.
LEMMA Constants ==
  /\ Null \notin Nodes /\ Null \notin Messages /\ Null \notin Users
  /\ Producers \subseteq Users /\ Consumer \in Users /\ Terminator \in Users
  /\ Consumer \notin Producers /\ Terminator \notin Producers /\ Consumer # Terminator
  /\ Users = Producers \cup {Consumer, Terminator}
BY QueueAssumption DEF Users

\* The variables keep their types when the list and its count do.
LEMMA TypesStep ==
  ASSUME QueueTypeOK, PlaceInv, NEW s \in Seq(Nodes), SoundInv(s), OwnInv(s),
         QueueNext, nElements' \in 0..Cardinality(Nodes)
  PROVE  QueueTypeOK' /\ PlaceInv'
<1> USE Constants DEF Goto
<1>1. ASSUME NEW p \in Producers, NEW m \in Messages, NEW n \in Nodes, PushCall(p, m, n)
      PROVE  QueueTypeOK' /\ PlaceInv'
  <2>1. PlaceInv'
    BY <1>1 DEF PushCall, PlaceInv
  <2>2. pushed' \in [Producers -> Nat] /\ \A q \in Producers : pushed'[q] <= MaxPush[q]
    <3>1. \A q \in Producers : MaxPush[q] \in Nat
      BY QueueAssumption
    <3>2. pushed \in [Producers -> Nat] /\ \A q \in Producers : pushed[q] <= MaxPush[q]
      BY DEF QueueTypeOK
    <3>3. pushed[p] < MaxPush[p] /\ pushed' = [pushed EXCEPT ![p] = @ + 1]
      BY <1>1 DEF PushCall
    <3> QED BY <3>1, <3>2, <3>3
  <2>3. QueueTypeOK'
    BY <1>1, <2>2 DEF PushCall, QueueTypeOK
  <2> QED BY <2>1, <2>3
<1>2. ASSUME NEW p \in Producers, Produce(p) PROVE QueueTypeOK' /\ PlaceInv'
  <2>1. PlaceInv'
    BY <1>2 DEF Produce, PushRefuse, PushLink, PushSignal, PlaceInv
  <2>2. CASE PushRefuse(p)
    BY <2>1, <2>2 DEF PushRefuse, QueueTypeOK, list
  <2>3. CASE PushLink(p)
    <3>1. p \in Owners
      BY <2>3 DEF PushLink, Owners
    <3>2. node[p] \in Nodes
      BY <3>1 DEF OwnInv
    <3> QED BY <2>1, <2>3, <3>2 DEF PushLink, Link, QueueTypeOK, nodes, history
  <2>4. CASE PushSignal(p)
    BY <2>1, <2>4 DEF PushSignal, Signal, QueueTypeOK, list, nodes
  <2> QED BY <1>2, <2>1, <2>2, <2>3, <2>4 DEF Produce
<1>3. CASE Consume \/ PopWake
  <2>1. PlaceInv'
    BY <1>3 DEF Consume, PopCall, PopWait, PopWake, PopNull, PopTake, PopFree, PlaceInv
  <2>2. CASE PopCall \/ PopWait \/ PopWake \/ PopNull
    BY <2>1, <2>2 DEF PopCall, PopWait, PopWake, PopNull, QueueTypeOK, list, nodes, history
  <2>3. CASE PopTake
    <3>1. first \in Nodes
      <4>1. s # <<>>
        BY <2>3, EmptySeq DEF PopTake, SoundInv
      <4>2. 1 \in DOMAIN s
        BY <4>1, EmptySeq, LenProperties
      <4>3. s[1] = first /\ s[1] \in Nodes
        BY <4>2, ElementOfSeq, LenProperties DEF SoundInv
      <4> QED BY <4>3
    <3>2. next[first] \in Nodes \cup {Null}
      BY <3>1 DEF QueueTypeOK
    <3> QED BY <2>1, <2>3, <3>1, <3>2 DEF PopTake, LastAfterPop, QueueTypeOK, history
  <2>4. CASE PopFree
    <3>1. Consumer \in Owners
      BY <2>4 DEF PopFree, Owners
    <3>2. Popped \in Messages
      BY <3>1 DEF OwnInv, Popped
    <3>3. Append(out, Popped) \in Seq(Messages)
      BY <3>2, AppendProperties DEF QueueTypeOK
    <3> QED BY <2>1, <2>4, <3>2, <3>3 DEF PopFree, QueueTypeOK, list
  <2> QED BY <1>3, <2>1, <2>2, <2>3, <2>4 DEF Consume
<1>4. CASE TermSet \/ TermSignal
  <2>1. PlaceInv'
    BY <1>4 DEF TermSet, TermSignal, PlaceInv
  <2>2. QueueTypeOK'
    BY <1>4 DEF TermSet, TermSignal, Signal, QueueTypeOK, list, nodes, history
  <2> QED BY <2>1, <2>2
<1> QED BY <1>1, <1>2, <1>3, <1>4 DEF QueueNext

\* What the nodes of a sequence are.
LEMMA RangeOf ==
  ASSUME NEW s \in Seq(Nodes)
  PROVE  /\ Len(s) \in Nat /\ DOMAIN s = 1..Len(s) /\ (s = <<>> <=> Len(s) = 0)
         /\ \A i \in DOMAIN s : s[i] \in Nodes /\ s[i] \in Range(s)
         /\ \A x \in Range(s) : x \in Nodes /\ \E i \in DOMAIN s : s[i] = x
<1>1. Len(s) \in Nat /\ DOMAIN s = 1..Len(s) /\ (s = <<>> <=> Len(s) = 0)
  BY LenProperties, EmptySeq
<1>2. \A i \in DOMAIN s : s[i] \in Nodes
  BY <1>1, ElementOfSeq
<1> QED BY <1>1, <1>2 DEF Range

\* The call of a function, its return, and a signal leave list and nodes alone.
LEMMA KeepList ==
  ASSUME NEW s \in Seq(Nodes), SoundInv(s), OwnInv(s), UNCHANGED <<list, nodes>>,
         \A t \in Users : pc'[t] \in {"p_lock", "c_free"} \/ pc[t] \in {"p_lock", "c_free"} => pc'[t] = pc[t]
  PROVE  SoundInv(s)' /\ OwnInv(s)'
<1>1. SoundInv(s)'
  BY DEF SoundInv, list
<1>2. Owners' = Owners
  BY DEF Owners
<1>3. \A p \in Producers : pc'[p] = "p_lock" => pc[p] = "p_lock"
  BY Constants
<1>4. OwnInv(s)'
  BY <1>2, <1>3 DEF OwnInv, list, nodes
<1> QED BY <1>1, <1>4

\* malloc: a node that is in nobody's use gets an owner.
LEMMA PushCallList ==
  ASSUME QueueTypeOK, PlaceInv, NEW s \in Seq(Nodes), SoundInv(s), OwnInv(s),
         NEW p \in Producers, NEW m \in Messages, NEW n \in Nodes, PushCall(p, m, n)
  PROVE  SoundInv(s)' /\ OwnInv(s)'
<1> USE Constants
<1>1. /\ pc[p] = "out" /\ pc' = [pc EXCEPT ![p] = "p_lock"] /\ n \notin used /\ used' = used \cup {n}
      /\ next' = [next EXCEPT ![n] = Null] /\ load' = [load EXCEPT ![n] = m]
      /\ node' = [node EXCEPT ![p] = n] /\ UNCHANGED <<first, last, nElements>>
  BY DEF PushCall, Goto
<1>2. n \notin Range(s) /\ \A t \in Owners : node[t] # n
  BY <1>1 DEF OwnInv
<1>3. \A i \in DOMAIN s : s[i] # n /\ next'[s[i]] = next[s[i]] /\ load'[s[i]] = load[s[i]]
  BY <1>1, <1>2, RangeOf DEF QueueTypeOK
<1>4. SoundInv(s)'
  <2>1. \A i \in DOMAIN s : s[i] = IF i = 1 THEN first' ELSE next'[s[i - 1]]
    <3> SUFFICES ASSUME NEW i \in DOMAIN s, i # 1 PROVE s[i] = next'[s[i - 1]]
      BY <1>1 DEF SoundInv
    <3>1. i - 1 \in DOMAIN s /\ s[i] = next[s[i - 1]]
      BY RangeOf DEF SoundInv
    <3> QED BY <3>1, <1>3
  <2>2. (IF s = <<>> THEN first' ELSE next'[s[Len(s)]]) = Null
    <3>1. s # <<>> => Len(s) \in DOMAIN s
      BY RangeOf
    <3> QED BY <3>1, <1>1, <1>3 DEF SoundInv
  <2> QED BY <2>1, <2>2, <1>1 DEF SoundInv
<1>5. Owners' = Owners \cup {p} /\ p \notin Owners
  BY <1>1 DEF Owners, PlaceInv
<1>6. /\ node'[p] = n /\ load'[n] = m /\ next'[n] = Null
      /\ \A t \in Owners : t \in Users /\ t # p /\ node'[t] = node[t] /\ node[t] \in Nodes /\ load'[node[t]] = load[node[t]]
                           /\ next'[node[t]] = next[node[t]]
  BY <1>1, <1>2, <1>5 DEF QueueTypeOK, Owners, OwnInv
<1>7. OwnInv(s)'
  <2>1. \A t \in Owners' : node'[t] \in Nodes \ Range(s) /\ load'[node'[t]] \in Messages
    BY <1>2, <1>5, <1>6 DEF OwnInv
  <2>2. \A t, u \in Owners' : node'[t] = node'[u] => t = u
    BY <1>2, <1>5, <1>6 DEF OwnInv
  <2>3. \A q \in Producers : pc'[q] = "p_lock" => next'[node'[q]] = Null
    <3> SUFFICES ASSUME NEW q \in Producers, pc'[q] = "p_lock" PROVE next'[node'[q]] = Null
      OBVIOUS
    <3>1. CASE q = p
      BY <3>1, <1>6
    <3>2. CASE q # p
      <4>1. pc[q] = "p_lock" /\ q \in Owners
        BY <3>2, <1>1 DEF PlaceInv, Owners
      <4> QED BY <4>1, <1>6 DEF OwnInv
    <3> QED BY <3>1, <3>2
  <2>4. used' = Range(s) \cup {node'[t] : t \in Owners'}
    <3>1. {node'[t] : t \in Owners'} = {node[t] : t \in Owners} \cup {n}
      BY <1>5, <1>6
    <3>2. used = Range(s) \cup {node[t] : t \in Owners}
      BY DEF OwnInv
    <3> QED BY <1>1, <3>1, <3>2
  <2>5. \A i \in DOMAIN s : load'[s[i]] \in Messages
    BY <1>3 DEF OwnInv
  <2> QED BY <2>1, <2>2, <2>3, <2>4, <2>5 DEF OwnInv
<1> QED BY <1>4, <1>7

\* free, by a producer that is refused or by the broadcaster: one owner less.
LEMMA FreeList ==
  ASSUME PlaceInv, NEW s \in Seq(Nodes), SoundInv(s), OwnInv(s),
         NEW t \in Owners, pc' = [pc EXCEPT ![t] = "out"], used' = used \ {node[t]},
         UNCHANGED <<list, load, node>>
  PROVE  SoundInv(s)' /\ OwnInv(s)'
<1> USE Constants
<1>1. SoundInv(s)'
  BY DEF SoundInv, list
<1>2. Owners' = Owners \ {t}
  BY DEF Owners, PlaceInv
<1>3. node[t] \notin Range(s) /\ \A u \in Owners : u # t => node[u] # node[t]
  BY DEF OwnInv
<1>4. {node[u] : u \in Owners \ {t}} = {node[u] : u \in Owners} \ {node[t]}
  BY <1>3
<1>5. used' = Range(s) \cup {node[u] : u \in Owners \ {t}}
  <2>1. used = Range(s) \cup {node[u] : u \in Owners}
    BY DEF OwnInv
  <2> QED BY <2>1, <1>3, <1>4
<1>6. \A p \in Producers : pc'[p] = "p_lock" => pc[p] = "p_lock"
  BY DEF PlaceInv
<1>7. OwnInv(s)'
  BY <1>2, <1>5, <1>6 DEF OwnInv, list
<1> QED BY <1>1, <1>7

\* queue_push links its node behind the last one.
LEMMA PushLinkList ==
  ASSUME QueueTypeOK, PlaceInv, NEW s \in Seq(Nodes), SoundInv(s), OwnInv(s),
         NEW p \in Producers, PushLink(p), NEW n, n = node[p]
  PROVE  /\ Append(s, n) \in Seq(Nodes)
         /\ SoundInv(Append(s, n))' /\ OwnInv(Append(s, n))'
<1> USE Constants
<1> DEFINE t == Append(s, n)
           k == Len(s)
<1>1. /\ pc[p] = "p_lock" /\ pc' = [pc EXCEPT ![p] = "p_signal"]
      /\ next' = IF last = Null THEN next ELSE [next EXCEPT ![last] = n]
      /\ last' = n /\ first' = IF first = Null THEN n ELSE first
      /\ nElements' = nElements + 1 /\ UNCHANGED <<load, used, node>>
  BY DEF PushLink, Goto, Link, nodes
<1>2. p \in Owners /\ n \in Nodes \ Range(s) /\ load[n] \in Messages /\ next[n] = Null
  BY <1>1 DEF Owners, OwnInv
<1>3. /\ t \in Seq(Nodes) /\ Len(t) = k + 1 /\ k \in Nat /\ DOMAIN s = 1..k /\ DOMAIN t = 1..k + 1 /\ t # <<>>
      /\ \A i \in 1..k : t[i] = s[i] /\ s[i] \in Nodes /\ s[i] # n
      /\ t[k + 1] = n
  BY <1>2, RangeOf, AppendProperties
<1>4. Range(t) = Range(s) \cup {n}
  <2>1. \A x \in Range(t) : x \in Range(s) \cup {n}
    <3> SUFFICES ASSUME NEW i \in 1..k + 1 PROVE t[i] \in Range(s) \cup {n}
      BY <1>3 DEF Range
    <3>1. i \in 1..k \/ i = k + 1
      BY <1>3
    <3> QED BY <3>1, <1>3, RangeOf
  <2>2. \A x \in Range(s) : x \in Range(t)
    <3> SUFFICES ASSUME NEW i \in 1..k PROVE s[i] \in Range(t)
      BY <1>3, RangeOf
    <3>1. i \in DOMAIN t /\ t[i] = s[i]
      BY <1>3
    <3> QED BY <3>1 DEF Range
  <2>3. n \in Range(t)
    <3>1. k + 1 \in DOMAIN t
      BY <1>3
    <3> QED BY <3>1, <1>3 DEF Range
  <2> QED BY <2>1, <2>2, <2>3
<1>5. /\ k = 0 => first = Null /\ last = Null
      /\ k > 0 => first = s[1] /\ last = s[k] /\ first # Null /\ last # Null
  <2>1. CASE k = 0
    BY <2>1, RangeOf DEF SoundInv
  <2>2. CASE k > 0
    <3>1. 1 \in DOMAIN s /\ k \in DOMAIN s /\ s # <<>>
      BY <2>2, <1>3, RangeOf
    <3>2. first = s[1] /\ last = s[k] /\ s[1] \in Nodes /\ s[k] \in Nodes
      BY <3>1, <1>3 DEF SoundInv
    <3> QED BY <2>2, <3>2
  <2> QED BY <2>1, <2>2, <1>3
\* The node before the new one points to it, and it to NULL.
<1>6. \A x \in Nodes : next'[x] = IF k > 0 /\ x = s[k] THEN n ELSE next[x]
  <2>1. CASE k = 0
    BY <2>1, <1>1, <1>5
  <2>2. CASE k > 0
    BY <2>2, <1>1, <1>5 DEF QueueTypeOK
  <2> QED BY <2>1, <2>2, <1>3
<1> HIDE DEF t, k
<1>7. \A i, j \in 1..k + 1 : t[i] = t[j] => i = j
  <2>1. \A i, j \in 1..k : s[i] = s[j] => i = j
    BY <1>3 DEF SoundInv, IsInjective
  <2>2. \A i \in 1..k + 1 : i \in 1..k \/ i = k + 1
    BY <1>3
  <2> QED BY <1>3, <2>1, <2>2
<1>8. ASSUME NEW i \in 1..k + 1 PROVE t[i] = IF i = 1 THEN first' ELSE next'[t[i - 1]]
  <2>1. CASE i = 1
    <3>1. CASE k = 0
      BY <2>1, <3>1, <1>1, <1>3, <1>5
    <3>2. CASE k > 0
      <4>1. 1 \in 1..k
        BY <3>2, <1>3
      <4> QED BY <2>1, <3>2, <4>1, <1>1, <1>3, <1>5
    <3> QED BY <3>1, <3>2, <1>3
  <2>2. CASE i # 1 /\ i = k + 1
    <3>1. k > 0 /\ i - 1 = k /\ k \in 1..k
      BY <2>2, <1>3
    <3>2. t[i - 1] = s[k] /\ s[k] \in Nodes
      BY <3>1, <1>3
    <3> QED BY <2>2, <3>1, <3>2, <1>3, <1>6
  <2>3. CASE i # 1 /\ i # k + 1
    <3>1. PICK j \in 1..k : j = i - 1 /\ j # k /\ i \in 1..k
      BY <2>3, <1>3
    <3>2. s[j] # s[k] /\ s[j] \in Nodes /\ t[j] = s[j] /\ t[i] = s[i]
      <4>1. k \in 1..k
        BY <3>1, <1>3
      <4> QED BY <3>1, <4>1, <1>3 DEF SoundInv, IsInjective
    <3>3. next'[s[j]] = next[s[j]]
      BY <3>2, <1>6
    <3>4. s[i] = next[s[i - 1]]
      BY <2>3, <3>1, <1>3 DEF SoundInv
    <3> QED BY <2>3, <3>1, <3>2, <3>3, <3>4
  <2> QED BY <2>1, <2>2, <2>3
<1>9. next'[n] = Null
  <2>1. k > 0 => s[k] # n
    <3>1. k > 0 => k \in 1..k
      BY <1>3
    <3> QED BY <3>1, <1>3
  <2> QED BY <2>1, <1>2, <1>6
<1>10. SoundInv(t)'
  <2>1. IsInjective(t)
    BY <1>3, <1>7 DEF IsInjective
  <2>2. nElements' = k + 1
    BY <1>1 DEF SoundInv, k
  <2> QED BY <2>1, <2>2, <1>1, <1>3, <1>8, <1>9 DEF SoundInv
\* It is the producer's no longer, but the list's.
<1>11. Owners' = Owners \ {p}
  BY <1>1 DEF Owners, PlaceInv
<1>12. \A u \in Owners : u # p => node[u] # n
  BY <1>2 DEF OwnInv
<1>13. OwnInv(t)'
  <2>1. \A u \in Owners' : node'[u] \in Nodes \ Range(t) /\ load'[node'[u]] \in Messages
    BY <1>1, <1>4, <1>11, <1>12 DEF OwnInv
  <2>2. \A u, v \in Owners' : node'[u] = node'[v] => u = v
    BY <1>1, <1>11 DEF OwnInv
  <2>3. ASSUME NEW q \in Producers, pc'[q] = "p_lock" PROVE next'[node'[q]] = Null
    <3>1. q # p /\ pc[q] = "p_lock" /\ q \in Owners
      BY <2>3, <1>1 DEF PlaceInv, Owners
    <3>2. node[q] \in Nodes \ Range(s) /\ next[node[q]] = Null
      BY <3>1 DEF OwnInv
    <3>3. k > 0 => s[k] \in Range(s)
      <4>1. k > 0 => k \in 1..k
        BY <1>3
      <4> QED BY <4>1, <1>3, RangeOf
    <3> QED BY <3>2, <3>3, <1>1, <1>6
  <2>4. used' = Range(t) \cup {node'[u] : u \in Owners'}
    <3>1. used = Range(s) \cup {node[u] : u \in Owners}
      BY DEF OwnInv
    <3>2. {node[u] : u \in Owners} = {node[u] : u \in Owners \ {p}} \cup {n}
      BY <1>2
    <3> QED BY <3>1, <3>2, <1>1, <1>4, <1>11
  <2>5. \A i \in DOMAIN t : load'[t[i]] \in Messages
    <3>1. \A i \in 1..k + 1 : i \in 1..k \/ i = k + 1
      BY <1>3
    <3>2. \A i \in 1..k : load[s[i]] \in Messages
      BY <1>3 DEF OwnInv
    <3> QED BY <3>1, <3>2, <1>1, <1>2, <1>3
  <2> QED BY <2>1, <2>2, <2>3, <2>4, <2>5 DEF OwnInv
<1> QED BY <1>3, <1>10, <1>13 DEF t

\* queue_pop takes the first node: it is the broadcaster's then.
LEMMA PopTakeList ==
  ASSUME QueueTypeOK, PlaceInv, NEW s \in Seq(Nodes), SoundInv(s), OwnInv(s), PopTake
  PROVE  /\ s # <<>> /\ Head(s) = first /\ Tail(s) \in Seq(Nodes)
         /\ SoundInv(Tail(s))' /\ OwnInv(Tail(s))'
<1> USE Constants
<1> DEFINE t == Tail(s)
           k == Len(s)
           c == Consumer
<1>1. /\ pc[c] = "c_lock" /\ pc' = [pc EXCEPT ![c] = "c_free"] /\ nElements # 0
      /\ node' = [node EXCEPT ![c] = first]
      /\ first' = next[first] /\ last' = IF first = last THEN next[first] ELSE last
      /\ nElements' = nElements - 1 /\ UNCHANGED <<next, load, used>>
  BY DEF PopTake, Goto, LastAfterPop
<1>2. k \in Nat /\ k # 0 /\ s # <<>> /\ DOMAIN s = 1..k /\ 1 \in 1..k /\ k \in 1..k
  BY <1>1, RangeOf DEF SoundInv
<1>3. first = s[1] /\ last = s[k] /\ Head(s) = s[1] /\ next[s[k]] = Null
  BY <1>2 DEF SoundInv
<1>4. t \in Seq(Nodes) /\ Len(t) = k - 1 /\ DOMAIN t = 1..k - 1 /\ \A i \in 1..k - 1 : t[i] = s[i + 1] /\ i + 1 \in 1..k
  <2>1. t \in Seq(Nodes) /\ Len(t) = k - 1 /\ \A i \in 1..Len(t) : t[i] = s[i + 1]
    BY <1>2, HeadTailProperties
  <2>2. DOMAIN t = 1..Len(t)
    BY <2>1, LenProperties
  <2> QED BY <2>1, <2>2, <1>2
<1>5. \A i, j \in 1..k : s[i] = s[j] => i = j
  BY <1>2 DEF SoundInv, IsInjective
<1>6. \A i \in 1..k : i # 1 => s[i] = next[s[i - 1]]
  BY <1>2 DEF SoundInv
<1>7. Range(t) = Range(s) \ {first} /\ first \in Nodes
  <2>1. \A x \in Range(t) : x \in Range(s) \ {first}
    <3> SUFFICES ASSUME NEW i \in 1..k - 1 PROVE t[i] \in Range(s) /\ t[i] # first
      BY <1>4 DEF Range
    <3>1. t[i] = s[i + 1] /\ i + 1 \in 1..k /\ i + 1 # 1
      BY <1>4
    <3> QED BY <3>1, <1>2, <1>3, <1>5, RangeOf
  <2>2. \A x \in Range(s) \ {first} : x \in Range(t)
    <3> SUFFICES ASSUME NEW i \in 1..k, s[i] # first PROVE s[i] \in Range(t)
      BY <1>2, RangeOf
    <3>1. PICK j \in 1..k - 1 : j + 1 = i
      <4>1. i # 1 /\ i \in Nat
        BY <1>2, <1>3
      <4>2. i - 1 \in 1..k - 1 /\ i - 1 + 1 = i
        BY <4>1, <1>2
      <4> QED BY <4>2
    <3>2. t[j] = s[i] /\ j \in DOMAIN t
      BY <3>1, <1>4
    <3> QED BY <3>2 DEF Range
  <2>3. first \in Nodes
    BY <1>2, <1>3, RangeOf
  <2> QED BY <2>1, <2>2, <2>3
<1> HIDE DEF t, k
\* The list now starts at the second node, if there is one.
<1>8. SoundInv(t)'
  <2>1. IsInjective(t)
    <3> SUFFICES ASSUME NEW i \in 1..k - 1, NEW j \in 1..k - 1, t[i] = t[j] PROVE i = j
      BY <1>4 DEF IsInjective
    <3>1. i + 1 = j + 1
      BY <1>4, <1>5
    <3> QED BY <3>1
  <2>2. ASSUME NEW i \in 1..k - 1 PROVE t[i] = IF i = 1 THEN first' ELSE next'[t[i - 1]]
    <3>1. PICK j \in 1..k : j = i + 1 /\ j # 1 /\ j - 1 = i /\ t[i] = s[j]
      BY <1>4
    <3>2. s[j] = next[s[i]]
      BY <3>1, <1>6
    <3>3. CASE i = 1
      BY <3>1, <3>2, <3>3, <1>1, <1>3
    <3>4. CASE i # 1
      <4>1. PICK h \in 1..k - 1 : h = i - 1 /\ h + 1 = i
        BY <3>4, <1>2
      <4>2. t[h] = s[i]
        BY <4>1, <1>4
      <4> QED BY <3>1, <3>2, <3>4, <4>1, <4>2, <1>1
    <3> QED BY <3>3, <3>4
  <2>3. CASE k = 1
    <3>1. t = <<>> /\ first' = Null /\ last' = Null
      BY <2>3, <1>1, <1>3, <1>4, RangeOf
    <3>2. nElements' = Len(t)
      BY <1>1, <1>2, <1>4 DEF SoundInv, k
    <3> QED BY <3>1, <3>2, <2>1, <2>2, <1>4 DEF SoundInv
  <2>4. CASE k # 1
    <3>1. PICK h \in 1..k - 1 : h = k - 1 /\ h + 1 = k
      BY <2>4, <1>2
    <3>2. t # <<>> /\ t[Len(t)] = s[k]
      BY <3>1, <1>4, RangeOf
    <3>3. first # last
      BY <2>4, <1>2, <1>3, <1>5
    <3>4. last' = s[k] /\ next'[s[k]] = Null
      BY <3>3, <1>1, <1>3
    <3>5. nElements' = Len(t)
      BY <1>1, <1>2, <1>4 DEF SoundInv, k
    <3> QED BY <3>2, <3>4, <3>5, <2>1, <2>2, <1>4 DEF SoundInv
  <2> QED BY <2>3, <2>4
<1>9. Owners' = Owners \cup {c} /\ c \notin Owners
  BY <1>1 DEF Owners, PlaceInv
<1>10. node'[c] = first /\ \A u \in Owners : u \in Users /\ u # c /\ node'[u] = node[u] /\ node[u] # first
  <2>1. first \in Range(s)
    BY <1>2, <1>3, RangeOf
  <2> QED BY <2>1, <1>1, <1>9 DEF QueueTypeOK, Owners, OwnInv
<1>11. OwnInv(t)'
  <2>1. load[first] \in Messages
    BY <1>2, <1>3 DEF OwnInv
  <2>2. \A u \in Owners' : node'[u] \in Nodes \ Range(t) /\ load'[node'[u]] \in Messages
    BY <2>1, <1>1, <1>7, <1>9, <1>10 DEF OwnInv
  <2>3. \A u, v \in Owners' : node'[u] = node'[v] => u = v
    BY <1>9, <1>10 DEF OwnInv
  <2>4. ASSUME NEW q \in Producers, pc'[q] = "p_lock" PROVE next'[node'[q]] = Null
    <3>1. q # c /\ pc[q] = "p_lock" /\ q \in Owners
      BY <2>4, <1>1 DEF PlaceInv, Owners
    <3> QED BY <3>1, <1>1, <1>10 DEF OwnInv
  <2>5. used' = Range(t) \cup {node'[u] : u \in Owners'}
    <3>1. used = Range(s) \cup {node[u] : u \in Owners} /\ first \in Range(s)
      BY <1>2, <1>3, RangeOf DEF OwnInv
    <3>2. {node'[u] : u \in Owners'} = {node[u] : u \in Owners} \cup {first}
      BY <1>9, <1>10
    <3> QED BY <3>1, <3>2, <1>1, <1>7
  <2>6. \A i \in DOMAIN t : load'[t[i]] \in Messages
    BY <1>1, <1>2, <1>4 DEF OwnInv
  <2> QED BY <2>2, <2>3, <2>4, <2>5, <2>6 DEF OwnInv
<1> QED BY <1>2, <1>3, <1>4, <1>8, <1>11 DEF t
-----------------------------------------------------------------------------
(* What the list carries.                                                  *)

Carried(ld, s) == [i \in DOMAIN s |-> ld[s[i]]]

\* ... is a sequence of messages, one for each node ...
LEMMA CarriedSeq ==
  ASSUME NEW ld, NEW s \in Seq(Nodes), \A i \in DOMAIN s : ld[s[i]] \in Messages
  PROVE  /\ Carried(ld, s) \in Seq(Messages) /\ Len(Carried(ld, s)) = Len(s)
         /\ \A i \in 1..Len(s) : Carried(ld, s)[i] = ld[s[i]]
<1>1. Len(s) \in Nat /\ DOMAIN s = 1..Len(s)
  BY LenProperties
<1>2. Carried(ld, s) \in [1..Len(s) -> Messages]
  BY <1>1 DEF Carried
<1>3. Carried(ld, s) \in Seq(Messages)
  BY <1>1, <1>2
<1>4. Len(Carried(ld, s)) = Len(s)
  BY <1>1, <1>2, <1>3
<1> QED BY <1>1, <1>3, <1>4 DEF Carried

\* ... one more when a node is added ...
LEMMA CarriedAppend ==
  ASSUME NEW ld, NEW s \in Seq(Nodes), \A i \in DOMAIN s : ld[s[i]] \in Messages,
         NEW n \in Nodes, ld[n] \in Messages
  PROVE  Carried(ld, Append(s, n)) = Append(Carried(ld, s), ld[n])
<1> DEFINE t == Append(s, n)
           x == Carried(ld, s)
           y == Append(x, ld[n])
<1>1. Len(s) \in Nat /\ DOMAIN s = 1..Len(s)
  BY LenProperties
<1>2. t \in Seq(Nodes) /\ Len(t) = Len(s) + 1 /\ t[Len(s) + 1] = n /\ \A i \in 1..Len(s) : t[i] = s[i]
  BY AppendProperties
<1>3. x \in Seq(Messages) /\ Len(x) = Len(s) /\ \A i \in 1..Len(s) : x[i] = ld[s[i]]
  BY CarriedSeq
<1>4. DOMAIN t = 1..Len(s) + 1
  BY <1>2, LenProperties
<1> HIDE DEF t, x
<1>5. y \in Seq(Messages) /\ Len(y) = Len(s) + 1 /\ y[Len(s) + 1] = ld[n] /\ \A i \in 1..Len(s) : y[i] = ld[s[i]]
  BY <1>3, AppendProperties
<1> HIDE DEF y
<1>6. \A i \in 1..Len(s) + 1 : i \in 1..Len(s) \/ i = Len(s) + 1
  BY <1>1
<1>7. \A i \in DOMAIN t : ld[t[i]] = y[i] /\ ld[t[i]] \in Messages
  BY <1>1, <1>2, <1>4, <1>5, <1>6
<1>8. /\ Carried(ld, t) \in Seq(Messages) /\ Len(Carried(ld, t)) = Len(t)
      /\ \A i \in 1..Len(t) : Carried(ld, t)[i] = ld[t[i]]
  BY <1>2, <1>7, CarriedSeq
<1>9. Len(Carried(ld, t)) = Len(y) /\ \A i \in 1..Len(Carried(ld, t)) : Carried(ld, t)[i] = y[i]
  BY <1>2, <1>4, <1>5, <1>7, <1>8
<1>10. Carried(ld, t) = y
  BY <1>5, <1>8, <1>9, SeqEqual
<1> QED BY <1>10 DEF t, x, y

\* ... and one less when the first is taken.
LEMMA CarriedTail ==
  ASSUME NEW ld, NEW s \in Seq(Nodes), \A i \in DOMAIN s : ld[s[i]] \in Messages, s # <<>>
  PROVE  /\ Carried(ld, s) # <<>> /\ Head(Carried(ld, s)) = ld[s[1]]
         /\ Carried(ld, Tail(s)) = Tail(Carried(ld, s))
<1> DEFINE t == Tail(s)
           x == Carried(ld, s)
           y == Tail(x)
<1>1. Len(s) \in Nat /\ DOMAIN s = 1..Len(s) /\ Len(s) # 0
  BY LenProperties, EmptySeq
<1>2. t \in Seq(Nodes) /\ Len(t) = Len(s) - 1 /\ \A i \in 1..Len(t) : t[i] = s[i + 1]
  BY HeadTailProperties
<1>3. x \in Seq(Messages) /\ Len(x) = Len(s) /\ \A i \in 1..Len(s) : x[i] = ld[s[i]]
  BY CarriedSeq
<1>4. x # <<>> /\ Head(x) = x[1] /\ x[1] = ld[s[1]]
  BY <1>1, <1>3, EmptySeq
<1>5. DOMAIN t = 1..Len(t)
  BY <1>2, LenProperties
<1> HIDE DEF t, x
<1>6. y \in Seq(Messages) /\ Len(y) = Len(s) - 1 /\ \A i \in 1..Len(y) : y[i] = x[i + 1]
  BY <1>3, <1>4, HeadTailProperties
<1> HIDE DEF y
<1>7. \A i \in DOMAIN t : ld[t[i]] = y[i] /\ ld[t[i]] \in Messages
  <2> SUFFICES ASSUME NEW i \in 1..Len(t) PROVE ld[t[i]] = y[i] /\ ld[t[i]] \in Messages
    BY <1>5
  <2>1. i + 1 \in 1..Len(s) /\ i \in 1..Len(y)
    BY <1>1, <1>2, <1>6
  <2> QED BY <2>1, <1>1, <1>2, <1>3, <1>6
<1>8. /\ Carried(ld, t) \in Seq(Messages) /\ Len(Carried(ld, t)) = Len(t)
      /\ \A i \in 1..Len(t) : Carried(ld, t)[i] = ld[t[i]]
  BY <1>2, <1>7, CarriedSeq
<1>9. Len(Carried(ld, t)) = Len(y) /\ \A i \in 1..Len(Carried(ld, t)) : Carried(ld, t)[i] = y[i]
  BY <1>2, <1>5, <1>6, <1>7, <1>8
<1>10. Carried(ld, t) = y
  BY <1>6, <1>8, <1>9, SeqEqual
<1> QED BY <1>4, <1>10 DEF t, x, y
-----------------------------------------------------------------------------
\* A step of FifoQueue from the list s to the list u, or a stutter.
FifoStep(s, u) ==
  \/ Carried(load', u) = Carried(load, s) /\ Taken' = Taken
  \/ Taken' = Taken /\ \E m \in Messages : Carried(load', u) = Append(Carried(load, s), m)
  \/ /\ Carried(load, s) # <<>>
     /\ Taken' = Append(Taken, Head(Carried(load, s)))
     /\ Carried(load', u) = Tail(Carried(load, s))

\* Every step leaves a sound list, and is one of a queue.
LEMMA ListStep ==
  ASSUME QueueTypeOK, PlaceInv, NEW s \in Seq(Nodes), SoundInv(s), OwnInv(s), [QueueNext]_queueVars
  PROVE  \E u \in Seq(Nodes) : SoundInv(u)' /\ OwnInv(u)' /\ FifoStep(s, u)
<1> USE Constants
\* Calls, returns and signals.
<1>1. ASSUME UNCHANGED <<list, nodes, out>>,
             \A t \in Users : pc'[t] \in {"p_lock", "c_free"} \/ pc[t] \in {"p_lock", "c_free"} => pc'[t] = pc[t]
      PROVE  SoundInv(s)' /\ OwnInv(s)' /\ FifoStep(s, s)
  <2>1. SoundInv(s)' /\ OwnInv(s)'
    BY <1>1, KeepList
  <2>2. pc'[Consumer] = "c_free" <=> pc[Consumer] = "c_free"
    BY <1>1
  <2>3. Taken' = Taken
    BY <2>2, <1>1 DEF Taken, nodes
  <2>4. load' = load
    BY <1>1 DEF nodes
  <2> QED BY <2>1, <2>3, <2>4 DEF FifoStep
<1>2. ASSUME NEW p \in Producers, NEW m \in Messages, NEW n \in Nodes, PushCall(p, m, n)
      PROVE  SoundInv(s)' /\ OwnInv(s)' /\ FifoStep(s, s)
  <2>1. SoundInv(s)' /\ OwnInv(s)'
    BY <1>2, PushCallList
  <2>2. /\ n \notin used /\ load' = [load EXCEPT ![n] = m] /\ out' = out
        /\ node' = [node EXCEPT ![p] = n] /\ pc' = [pc EXCEPT ![p] = "p_lock"]
    BY <1>2 DEF PushCall, Goto
  <2>3. \A x \in used : load'[x] = load[x]
    BY <2>2 DEF QueueTypeOK
  <2>4. Carried(load', s) = Carried(load, s)
    <3>1. \A i \in DOMAIN s : s[i] \in used
      BY RangeOf DEF OwnInv
    <3> QED BY <2>3, <3>1 DEF Carried
  <2>5. Taken' = Taken
    <3>1. pc'[Consumer] = pc[Consumer] /\ node'[Consumer] = node[Consumer]
      BY <2>2 DEF PlaceInv, QueueTypeOK
    <3>2. pc[Consumer] = "c_free" => node[Consumer] \in used
      BY DEF OwnInv, Owners
    <3> QED BY <2>2, <2>3, <3>1, <3>2 DEF Taken
  <2> QED BY <2>1, <2>4, <2>5 DEF FifoStep
<1>3. ASSUME NEW p \in Producers, PushRefuse(p) PROVE SoundInv(s)' /\ OwnInv(s)' /\ FifoStep(s, s)
  <2>1. /\ pc[p] = "p_lock" /\ pc' = [pc EXCEPT ![p] = "out"] /\ used' = used \ {node[p]}
        /\ UNCHANGED <<list, load, node, out>>
    BY <1>3 DEF PushRefuse, Goto
  <2>2. SoundInv(s)' /\ OwnInv(s)'
    <3>1. p \in Owners
      BY <2>1 DEF Owners
    <3> QED BY <2>1, <3>1, FreeList
  <2>3. Taken' = Taken
    <3>1. pc'[Consumer] = pc[Consumer]
      BY <2>1 DEF PlaceInv
    <3> QED BY <2>1, <3>1 DEF Taken
  <2> QED BY <2>1, <2>2, <2>3 DEF FifoStep
<1>4. ASSUME NEW p \in Producers, PushLink(p), NEW n, n = node[p]
      PROVE  /\ Append(s, n) \in Seq(Nodes)
             /\ SoundInv(Append(s, n))' /\ OwnInv(Append(s, n))' /\ FifoStep(s, Append(s, n))
  <2>1. Append(s, n) \in Seq(Nodes) /\ SoundInv(Append(s, n))' /\ OwnInv(Append(s, n))'
    BY <1>4, PushLinkList
  <2>2. pc[p] = "p_lock" /\ pc' = [pc EXCEPT ![p] = "p_signal"] /\ UNCHANGED <<load, node, out>>
    BY <1>4 DEF PushLink, Goto, nodes, history
  <2>3. n \in Nodes /\ load[n] \in Messages
    BY <1>4, <2>2 DEF OwnInv, Owners
  <2>4. Carried(load, Append(s, n)) = Append(Carried(load, s), load[n])
    BY <2>3, CarriedAppend DEF OwnInv
  <2>5. Taken' = Taken
    <3>1. pc'[Consumer] = pc[Consumer]
      BY <2>2 DEF PlaceInv
    <3> QED BY <2>2, <3>1 DEF Taken
  <2>6. FifoStep(s, Append(s, n))
    BY <2>2, <2>3, <2>4, <2>5 DEF FifoStep
  <2> QED BY <2>1, <2>6
<1>5. CASE PopTake
  <2>1. s # <<>> /\ Head(s) = first /\ Tail(s) \in Seq(Nodes) /\ SoundInv(Tail(s))' /\ OwnInv(Tail(s))'
    BY <1>5, PopTakeList
  <2>2. /\ pc[Consumer] = "c_lock" /\ pc'[Consumer] = "c_free" /\ node'[Consumer] = first
        /\ UNCHANGED <<load, out>>
    BY <1>5 DEF PopTake, Goto, PlaceInv, QueueTypeOK, history
  <2>3. /\ Carried(load, s) # <<>> /\ Head(Carried(load, s)) = load[s[1]]
        /\ Carried(load, Tail(s)) = Tail(Carried(load, s))
    BY <2>1, CarriedTail DEF OwnInv
  <2>4. Taken = out /\ Taken' = Append(out, load[first])
    BY <2>2 DEF Taken
  <2>5. s[1] = first
    BY <2>1
  <2>6. FifoStep(s, Tail(s))
    BY <2>2, <2>3, <2>4, <2>5 DEF FifoStep
  <2> QED BY <2>1, <2>6
<1>6. ASSUME PopFree PROVE SoundInv(s)' /\ OwnInv(s)' /\ FifoStep(s, s)
  <2>1. /\ pc[Consumer] = "c_free" /\ pc' = [pc EXCEPT ![Consumer] = "out"]
        /\ used' = used \ {node[Consumer]} /\ out' = Append(out, load[node[Consumer]])
        /\ UNCHANGED <<list, load, node>>
    BY <1>6 DEF PopFree, Goto, Popped
  <2>2. SoundInv(s)' /\ OwnInv(s)'
    <3>1. Consumer \in Owners
      BY <2>1 DEF Owners
    <3> QED BY <2>1, <3>1, FreeList
  <2>3. Taken' = Taken
    <3>1. pc'[Consumer] = "out"
      BY <2>1 DEF PlaceInv
    <3> QED BY <2>1, <3>1 DEF Taken
  <2> QED BY <2>1, <2>2, <2>3 DEF FifoStep
<1>7. ASSUME NEW p \in Producers, PushSignal(p) PROVE SoundInv(s)' /\ OwnInv(s)' /\ FifoStep(s, s)
  <2>1. UNCHANGED <<list, nodes, out>> /\ pc[p] = "p_signal" /\ pc' = [pc EXCEPT ![p] = "out"]
    BY <1>7 DEF PushSignal, Goto
  <2> QED BY <2>1, <1>1 DEF PlaceInv
<1>8. ASSUME PopCall \/ PopWait \/ PopWake \/ PopNull PROVE SoundInv(s)' /\ OwnInv(s)' /\ FifoStep(s, s)
  <2>1. UNCHANGED <<list, nodes, out>>
    BY <1>8 DEF PopCall, PopWait, PopWake, PopNull, history
  <2>2. /\ pc[Consumer] \in {"out", "c_lock", "c_wait"}
        /\ \E to \in {"out", "c_lock", "c_wait"} : pc' = [pc EXCEPT ![Consumer] = to]
    BY <1>8 DEF PopCall, PopWait, PopWake, PopNull, Goto
  <2> QED BY <2>1, <2>2, <1>1 DEF PlaceInv
<1>9. ASSUME TermSet \/ TermSignal PROVE SoundInv(s)' /\ OwnInv(s)' /\ FifoStep(s, s)
  <2>1. UNCHANGED <<list, nodes, out>>
    BY <1>9 DEF TermSet, TermSignal, history
  <2>2. /\ pc[Terminator] \in {"out", "t_signal"}
        /\ \E to \in {"t_signal", "t_end"} : pc' = [pc EXCEPT ![Terminator] = to]
    BY <1>9 DEF TermSet, TermSignal, Goto
  <2> QED BY <2>1, <2>2, <1>1 DEF PlaceInv
<1>10. CASE UNCHANGED queueVars
  <2>1. UNCHANGED <<list, nodes, out, pc>>
    BY <1>10 DEF queueVars, history
  <2> QED BY <2>1, <1>1
<1> QED BY <1>2, <1>3, <1>4, <1>5, <1>6, <1>7, <1>8, <1>9, <1>10 DEF QueueNext, Produce, Consume

\* queue_create: the empty list.
THEOREM QueueStart == QueueInit => QueueIInv /\ SoundInv(<<>>)
<1> SUFFICES ASSUME QueueInit PROVE QueueIInv /\ SoundInv(<<>>)
  OBVIOUS
<1> USE Constants DEF QueueInit
<1>1. SoundInv(<<>>)
  BY EmptySeq DEF SoundInv, IsInjective
<1>2. Owners = {} /\ Range(<<>>) = {}
  BY DEF Owners, Range
<1>3. OwnInv(<<>>)
  BY <1>2 DEF OwnInv
<1>4. QueueTypeOK
  <2>1. Cardinality(Nodes) \in Nat
    BY QueueAssumption, FS_CardinalityType
  <2>2. nElements \in 0..Cardinality(Nodes)
    BY <2>1
  <2>3. pushed \in [Producers -> Nat] /\ \A p \in Producers : pushed[p] <= MaxPush[p]
    <3>1. \A p \in Producers : MaxPush[p] \in Nat
      BY QueueAssumption
    <3> QED BY <3>1
  <2>4. out \in Seq(Messages)
    BY EmptySeq
  <2> QED BY <2>2, <2>3, <2>4 DEF QueueTypeOK
<1>5. PlaceInv
  BY DEF PlaceInv
<1>6. <<>> \in Seq(Nodes)
  BY EmptySeq
<1> QED BY <1>1, <1>3, <1>4, <1>5, <1>6 DEF QueueIInv

\* Every step keeps the invariant.
THEOREM QueueStep == QueueIInv /\ [QueueNext]_queueVars => QueueIInv'
<1> SUFFICES ASSUME QueueTypeOK, PlaceInv, NEW s \in Seq(Nodes), SoundInv(s), OwnInv(s), [QueueNext]_queueVars
             PROVE  QueueIInv'
  BY DEF QueueIInv
<1>1. PICK u \in Seq(Nodes) : SoundInv(u)' /\ OwnInv(u)'
  BY ListStep
<1>2. nElements' \in 0..Cardinality(Nodes)
  BY <1>1, NotMore DEF SoundInv
<1>3. QueueTypeOK' /\ PlaceInv'
  <2>1. CASE QueueNext
    BY <2>1, <1>2, TypesStep
  <2>2. CASE UNCHANGED queueVars
    BY <2>2 DEF queueVars, list, nodes, history, QueueTypeOK, PlaceInv
  <2> QED BY <2>1, <2>2
<1> QED BY <1>1, <1>3 DEF QueueIInv

\* The list is a chain of the nodes that are in nobody's hands, and each of those in use
\* has one owner (queue.c:64-131).
THEOREM QueueInvariant == QueueSpec => []QueueIInv
BY QueueStart, QueueStep, PTL DEF QueueSpec

\* ListInv from the invariant: List is that chain.
THEOREM QueueListInv == QueueSpec => []ListInv
<1>1. QueueIInv => ListInv
  <2> SUFFICES ASSUME QueueTypeOK, NEW s \in Seq(Nodes), SoundInv(s), OwnInv(s) PROVE ListInv
    BY DEF QueueIInv
  <2>1. List = s
    <3>1. /\ s \in Chains /\ IsChain(first, next, s)
          /\ \A t \in Chains : IsChain(first, next, t) => t = s
      BY FoundChain DEF SoundInv
    <3> QED BY <3>1 DEF List
  <2>2. Owners = {u \in Users : pc[u] \in {"p_lock", "c_free"}}
    BY DEF Owners
  <2> QED BY <2>1, <2>2 DEF ListInv, SoundInv, OwnInv
<1> QED BY <1>1, QueueInvariant, PTL

\* The queue implements FifoQueue: PushLink is a Push of what the node carries, PopTake a
\* Pop, and every other step leaves what is queued and what is taken as it was.
THEOREM QueueIsFifo == QueueSpec => IsFifo
<1>1. \A s \in Seq(Nodes) : SoundInv(s) => Contents = Carried(load, s)
  <2> SUFFICES ASSUME NEW s \in Seq(Nodes), SoundInv(s) PROVE Contents = Carried(load, s)
    OBVIOUS
  <2>1. List = s
    <3>1. /\ s \in Chains /\ IsChain(first, next, s)
          /\ \A t \in Chains : IsChain(first, next, t) => t = s
      BY FoundChain DEF SoundInv
    <3> QED BY <3>1 DEF List
  <2> QED BY <2>1 DEF Contents, Carried
<1>2. \A s \in Seq(Nodes) : SoundInv(s)' => Contents' = Carried(load', s)
  <2> SUFFICES ASSUME NEW s \in Seq(Nodes), SoundInv(s)' PROVE Contents' = Carried(load', s)
    OBVIOUS
  <2>1. List' = s
    <3>1. /\ s \in Chains /\ IsChain(first', next', s)
          /\ \A t \in Chains : IsChain(first', next', t) => t = s
      BY FoundChain DEF SoundInv
    <3> QED BY <3>1 DEF List
  <2> QED BY <2>1 DEF Contents, Carried
<1>3. QueueInit => Fifo!Init
  <2> SUFFICES ASSUME QueueInit PROVE Fifo!Init
    OBVIOUS
  <2>1. Contents = Carried(load, <<>>)
    BY <1>1, QueueStart, EmptySeq
  <2>2. Carried(load, <<>>) = <<>>
    BY DEF Carried
  <2>3. Taken = <<>>
    BY Constants DEF QueueInit, Taken
  <2> QED BY <2>1, <2>2, <2>3 DEF Fifo!Init
<1>4. QueueIInv /\ [QueueNext]_queueVars => [Fifo!Next]_<<Contents, Taken>>
  <2> SUFFICES ASSUME QueueTypeOK, PlaceInv, NEW s \in Seq(Nodes), SoundInv(s), OwnInv(s), [QueueNext]_queueVars
               PROVE  [Fifo!Next]_<<Contents, Taken>>
    BY DEF QueueIInv
  <2>1. PICK u \in Seq(Nodes) : SoundInv(u)' /\ FifoStep(s, u)
    BY ListStep
  <2>2. Contents = Carried(load, s) /\ Contents' = Carried(load', u)
    BY <2>1, <1>1, <1>2
  <2> QED BY <2>1, <2>2 DEF FifoStep, Fifo!Next, Fifo!Push, Fifo!Pop
<1> QED BY <1>3, <1>4, QueueInvariant, PTL DEF QueueSpec, IsFifo, Fifo!Spec
=============================================================================
