--------------------------- MODULE TimeSyncProofs ---------------------------
(***************************************************************************)
(* TimeTypeOK and SkewBound of TimeSync, for any tree of clipboards, any   *)
(* width of the numbers, any delays, and clocks that are set at any time.  *)
(*                                                                         *)
(* The argument is about network times in steps of real time, around the   *)
(* circle of Cycle steps after which all clocks repeat.  Base(n) is how    *)
(* far the network time of n is ahead of real time, so that Base(n) minus  *)
(* the Base of the root of its tree does not change while time passes.     *)
(* Near(x, lo, hi) says that x is between lo and hi on the circle, however *)
(* often each clock went around.                                           *)
(***************************************************************************)
EXTENDS TimeSync, Integers, FiniteSetTheorems, SequenceTheorems, TLAPS

Cycle == Modulus * Grain

Near(x, lo, hi) == \E k \in Int : lo <= x + k * Cycle /\ x + k * Cycle <= hi

\* What the assumptions say of the numbers.
LEMMA TimeConstants ==
  /\ Modulus \in Nat /\ Modulus >= 1 /\ Grain \in Nat /\ Grain >= 1
  /\ Cycle \in Nat /\ Cycle >= 1
  /\ MaxDelay \in Nat /\ MaxAccept \in Nat /\ MaxQueue \in Nat /\ MaxSteps \in Nat
  /\ Round \in Nat /\ Behind \in Nat /\ Round = Grain - 1 /\ Behind = MaxDelay + Round
  /\ Root \in Nodes /\ Restless \subseteq Nodes /\ Jumps \subseteq Nat
  /\ \A n \in Nodes \ {Root} : Parent[n] \in Nodes
<1>1. /\ Modulus \in Nat /\ Modulus >= 1 /\ Grain \in Nat /\ Grain >= 1
      /\ MaxDelay \in Nat /\ MaxAccept \in Nat /\ MaxQueue \in Nat /\ MaxSteps \in Nat
      /\ Root \in Nodes /\ Restless \subseteq Nodes /\ Jumps \subseteq Nat
      /\ \A n \in Nodes \ {Root} : Parent[n] \in Nodes
  BY TimeAssumption
<1>2. Cycle \in Nat /\ Cycle >= 1
  BY <1>1 DEF Cycle
<1>3. Round \in Nat /\ Round = Grain - 1
  BY <1>1 DEF Round
<1>4. Behind \in Nat /\ Behind = MaxDelay + Round
  BY <1>1, <1>3 DEF Behind
<1> QED BY <1>1, <1>2, <1>3, <1>4

\* Division and remainder.
LEMMA DivMod ==
  ASSUME NEW x \in Int, NEW m \in Nat, m >= 1
  PROVE  /\ x \div m \in Int /\ x % m \in 0..(m - 1)
         /\ x = m * (x \div m) + (x % m)
<1>1. x \div m \in Int /\ x % m \in 0..(m - 1)
  OBVIOUS
<1>2. x = m * (x \div m) + (x % m)
  OBVIOUS
<1> QED BY <1>1, <1>2

LEMMA DivBounds ==
  ASSUME NEW m \in Nat, m >= 1, NEW x \in Nat
  PROVE  /\ x \div m \in Nat /\ m * (x \div m) <= x
         /\ \A a \in Int : m * a <= x => a <= x \div m
<1>1. x \div m \in Nat
  OBVIOUS
<1>2. m * (x \div m) <= x
  OBVIOUS
<1>3. ASSUME NEW a \in Int, m * a <= x PROVE a <= x \div m
  BY <1>3
<1> QED BY <1>1, <1>2, <1>3

\* A number on the circle moves by a, and around the circle.
LEMMA NearStep ==
  ASSUME NEW x \in Int, NEW lo \in Int, NEW hi \in Int, Near(x, lo, hi),
         NEW y \in Int, NEW lo2 \in Int, NEW hi2 \in Int, NEW a \in Int, NEW j \in Int,
         y = x + j * Cycle + a, lo2 <= lo + a, hi + a <= hi2
  PROVE  Near(y, lo2, hi2)
<1>1. PICK k \in Int : lo <= x + k * Cycle /\ x + k * Cycle <= hi
  BY DEF Near
<1>2. Cycle \in Int
  BY TimeConstants
<1>3. PICK c \in Int : c = Cycle
  BY <1>2
<1>4. (k - j) * c = k * c - j * c
  BY <1>3
<1>5. y + (k - j) * c = x + k * c + a
  BY <1>3, <1>4
<1>6. x + k * c \in Int
  BY <1>3
<1>7. lo2 <= y + (k - j) * c /\ y + (k - j) * c <= hi2
  BY <1>1, <1>3, <1>5, <1>6
<1>8. k - j \in Int
  OBVIOUS
<1> QED BY <1>3, <1>7, <1>8 DEF Near

LEMMA NearHere ==
  ASSUME NEW x \in Int, NEW lo \in Int, NEW hi \in Int, lo <= x, x <= hi
  PROVE  Near(x, lo, hi)
<1>1. 0 \in Int /\ x + 0 * Cycle = x
  BY TimeConstants
<1> QED BY <1>1 DEF Near

\* Whole seconds of remainders.
LEMMA ModScaled ==
  ASSUME NEW x \in Int
  PROVE  Mod(x) \in 0..(Modulus - 1) /\ \E q \in Int : Grain * Mod(x) = Grain * x + q * Cycle
<1>1. x \div Modulus \in Int /\ Mod(x) \in 0..(Modulus - 1) /\ x = Modulus * (x \div Modulus) + Mod(x)
  BY TimeConstants, DivMod DEF Mod
<1>2. PICK p \in Int, r \in Int : p = x \div Modulus /\ r = Mod(x)
  BY <1>1
<1>3. PICK m \in Int, g \in Int : m = Modulus /\ g = Grain
  BY TimeConstants
<1>6. PICK q \in Int : q = -p
  OBVIOUS
<1>7. x = m * p + r
  BY <1>1, <1>2, <1>3
<1>4. r = x + m * q
  BY <1>6, <1>7
<1>5. g * r = g * x + q * (m * g)
  BY <1>4
<1> QED BY <1>1, <1>2, <1>3, <1>5 DEF Cycle

LEMMA CycleTurn ==
  ASSUME NEW x \in Int
  PROVE  /\ x % (Modulus * Grain) \in 0..(Modulus * Grain - 1)
         /\ \E q \in Int : x % (Modulus * Grain) = x + q * Cycle
<1>1. PICK c \in Nat : c >= 1 /\ c = Cycle /\ c = Modulus * Grain
  BY TimeConstants DEF Cycle
<1>2. x \div c \in Int /\ x % c \in 0..(c - 1) /\ x = c * (x \div c) + (x % c)
  BY <1>1, DivMod
<1>3. PICK q \in Int : q = -(x \div c)
  BY <1>2
<1>4. x % c = x + q * c
  BY <1>2, <1>3
<1> QED BY <1>1, <1>2, <1>4

\* What a clock shows of x steps.
LEMMA ClockFace ==
  ASSUME NEW x \in Int
  PROVE  /\ (x % (Modulus * Grain)) \div Grain \in 0..(Modulus - 1)
         /\ \E q \in Int : \E r \in 0..Round : Grain * ((x % (Modulus * Grain)) \div Grain) = x + q * Cycle - r
<1>1. PICK y \in Int, q \in Int : y = x % (Modulus * Grain) /\ y = x + q * Cycle /\ y >= 0 /\ y <= Modulus * Grain - 1
  BY CycleTurn
<1>2. PICK m \in Nat, g \in Nat : m = Modulus /\ g = Grain /\ g >= 1 /\ m >= 1
  BY TimeConstants
<1>3. y \div g \in Int /\ y % g \in 0..(g - 1) /\ y = g * (y \div g) + (y % g)
  BY <1>2, DivMod
<1>4. PICK s \in Int, r \in Int : s = y \div g /\ r = y % g
  BY <1>3
<1>5. g * s = y - r /\ 0 <= r /\ r <= g - 1
  BY <1>3, <1>4
<1>6. 0 <= s
  <2>1. ASSUME s <= -1 PROVE FALSE
    <3>1. g * s <= -g
      BY <2>1
    <3> QED BY <1>1, <1>5, <3>1
  <2> QED BY <2>1
<1>7. s <= m - 1
  <2>1. ASSUME s >= m PROVE FALSE
    <3>1. g * s >= m * g
      BY <2>1
    <3> QED BY <1>1, <1>2, <1>5, <3>1
  <2> QED BY <2>1
<1>8. r \in 0..Round
  BY <1>2, <1>5, TimeConstants
<1>9. Grain * s = x + q * Cycle - r
  <2>1. PICK c \in Int : c = q * Cycle
    BY TimeConstants
  <2>2. Grain * s = y - r
    BY <1>2, <1>5
  <2>3. y = x + c
    BY <1>1, <2>1
  <2> QED BY <2>1, <2>2, <2>3
<1>10. s = (x % (Modulus * Grain)) \div Grain
  BY <1>1, <1>2, <1>4
<1> QED BY <1>2, <1>6, <1>7, <1>8, <1>9, <1>10

\* A difference in steps, in seconds: what is close in steps is as close in seconds, in
\* the arithmetic of the program.
LEMMA Rounded ==
  ASSUME NEW u \in Int, NEW lo \in Nat, NEW hi \in Nat, Near(Grain * u, -lo, hi)
  PROVE  Mod(u) <= hi \div Grain \/ Mod(u) >= Modulus - (lo \div Grain)
<1>1. PICK k \in Int : -lo <= Grain * u + k * Cycle /\ Grain * u + k * Cycle <= hi
  BY DEF Near
<1>2. PICK m \in Nat, g \in Nat : m = Modulus /\ g = Grain /\ g >= 1 /\ m >= 1
  BY TimeConstants
<1> DEFINE z == u + k * m
<1>3. z \in Int /\ g * z = Grain * u + k * Cycle
  <2>1. z \in Int
    OBVIOUS
  <2>2. g * (u + k * m) = g * u + k * (m * g)
    OBVIOUS
  <2> QED BY <1>2, <2>1, <2>2 DEF Cycle
<1>4. -lo <= g * z /\ g * z <= hi
  BY <1>1, <1>3
<1>5. z <= hi \div g
  BY <1>2, <1>3, <1>4, DivBounds
<1>6. -z <= lo \div g
  <2>1. g * (-z) = -(g * z) /\ -z \in Int
    BY <1>3
  <2>2. g * (-z) <= lo
    BY <1>3, <1>4, <2>1
  <2> QED BY <1>2, <2>1, <2>2, DivBounds
<1>7. Mod(u) = z % m
  <2>1. u \div m \in Int /\ u % m \in 0..(m - 1) /\ u = m * (u \div m) + (u % m)
    BY <1>2, DivMod
  <2>2. z \div m \in Int /\ z % m \in 0..(m - 1) /\ z = m * (z \div m) + (z % m)
    BY <1>2, <1>3, DivMod
  <2>3. PICK a \in Int : a = u \div m
    BY <2>1
  <2>11. PICK b \in Int : b = u % m
    BY <2>1
  <2>12. PICK c \in Int : c = z \div m
    BY <2>2
  <2>13. PICK d \in Int : d = z % m
    BY <2>2
  <2>14. u = m * a + b /\ u + k * m = m * c + d
    BY <2>1, <2>2, <2>3, <2>11, <2>12, <2>13
  <2>4. m * (a + k - c) = d - b
    BY <2>14
  <2>5. 0 <= b /\ b <= m - 1 /\ 0 <= d /\ d <= m - 1
    BY <2>1, <2>2, <2>11, <2>13
  <2>6. PICK e \in Int : e = a + k - c
    OBVIOUS
  <2>7. e <= 0
    <3>1. ASSUME e >= 1 PROVE FALSE
      <4>1. m * e >= m
        BY <1>2, <3>1
      <4> QED BY <2>4, <2>5, <2>6, <4>1
    <3> QED BY <3>1
  <2>8. e >= 0
    <3>1. ASSUME e <= -1 PROVE FALSE
      <4>1. m * e <= -m
        BY <1>2, <3>1
      <4> QED BY <2>4, <2>5, <2>6, <4>1
    <3> QED BY <3>1
  <2>9. e = 0 /\ m * e = 0
    BY <2>7, <2>8
  <2>10. d = b
    BY <2>4, <2>5, <2>6, <2>9
  <2> QED BY <1>2, <2>11, <2>13, <2>10 DEF Mod
<1> HIDE DEF z
<1>8. CASE z >= 0
  <2>1. z % m <= z
    BY <1>2, <1>3, <1>8
  <2>2. hi \div g \in Int /\ z % m \in Int
    BY <1>2, <1>3, DivMod
  <2> QED BY <1>2, <1>3, <1>5, <1>7, <2>1, <2>2
<1>9. CASE z < 0
  <2>1. lo \div g \in Int /\ z % m \in 0..(m - 1)
    BY <1>2, <1>3, DivMod
  <2>2. CASE z + m >= 0
    <3>1. (z + m) % m = z + m
      BY <1>2, <1>3, <1>9, <2>2
    <3>2. z % m = z + m
      BY <1>2, <1>3, <1>9, <2>2
    <3> QED BY <1>2, <1>3, <1>6, <1>7, <2>1, <3>2
  <2>3. CASE z + m < 0
    BY <1>2, <1>3, <1>6, <1>7, <2>1, <2>3
  <2> QED BY <1>2, <1>3, <2>2, <2>3
<1> QED BY <1>3, <1>8, <1>9
-----------------------------------------------------------------------------
(* The way up to the first of T.                                           *)

Closed(S, T) == \A k \in S \ T : Parent[k] \in S

LEMMA WayClosed ==
  ASSUME NEW T, Root \in T, NEW n \in Nodes
  PROVE  /\ n \in Way(n, T) /\ Way(n, T) \subseteq Nodes /\ Closed(Way(n, T), T)
         /\ \A S \in SUBSET Nodes : n \in S /\ Closed(S, T) => Way(n, T) \subseteq S
<1>1. n \in Way(n, T) /\ Way(n, T) \subseteq Nodes
  BY DEF Way
<1>2. \A S \in SUBSET Nodes : n \in S /\ Closed(S, T) => Way(n, T) \subseteq S
  BY DEF Way, Closed
<1>3. ASSUME NEW k \in Way(n, T) \ T PROVE Parent[k] \in Way(n, T)
  <2>1. k \in Nodes \ {Root}
    BY <1>1, <1>3
  <2>2. Parent[k] \in Nodes
    BY <2>1, TimeConstants
  <2>3. ASSUME NEW S \in SUBSET Nodes, n \in S, Closed(S, T) PROVE Parent[k] \in S
    <3>1. k \in S
      BY <1>2, <1>3, <2>3
    <3> QED BY <1>3, <2>3, <3>1 DEF Closed
  <2> QED BY <2>2, <2>3 DEF Way, Closed
<1> QED BY <1>1, <1>2, <1>3 DEF Closed

LEMMA WayOfTop ==
  ASSUME NEW T, Root \in T, NEW n \in Nodes, n \in T
  PROVE  Way(n, T) = {n}
<1>1. Closed({n}, T) /\ {n} \in SUBSET Nodes
  BY DEF Closed
<1>2. Way(n, T) \subseteq {n} /\ n \in Way(n, T)
  BY <1>1, WayClosed
<1> QED BY <1>2

\* A set that is closed under parents has the root, so the way is not a circle.
LEMMA WayOfChild ==
  ASSUME NEW T, Root \in T, NEW n \in Nodes, n \notin T
  PROVE  /\ Parent[n] \in Nodes
         /\ Way(n, T) = {n} \cup Way(Parent[n], T)
         /\ n \notin Way(Parent[n], T)
<1>1. Parent[n] \in Nodes
  BY TimeConstants
<1> DEFINE p == Parent[n]
<1>2. /\ n \in Way(n, T) /\ Way(n, T) \subseteq Nodes /\ Closed(Way(n, T), T)
      /\ \A S \in SUBSET Nodes : n \in S /\ Closed(S, T) => Way(n, T) \subseteq S
  BY WayClosed
<1>3. /\ p \in Way(p, T) /\ Way(p, T) \subseteq Nodes /\ Closed(Way(p, T), T)
      /\ \A S \in SUBSET Nodes : p \in S /\ Closed(S, T) => Way(p, T) \subseteq S
  BY <1>1, WayClosed
<1>4. p \in Way(n, T)
  BY <1>2 DEF Closed
<1>5. Way(p, T) \subseteq Way(n, T)
  BY <1>2, <1>3, <1>4
<1>6. Closed({n} \cup Way(p, T), T) /\ {n} \cup Way(p, T) \in SUBSET Nodes
  <2>1. ASSUME NEW k \in ({n} \cup Way(p, T)) \ T PROVE Parent[k] \in {n} \cup Way(p, T)
    <3>1. CASE k = n
      BY <1>3, <3>1
    <3>2. CASE k # n
      BY <1>3, <2>1, <3>2 DEF Closed
    <3> QED BY <3>1, <3>2
  <2> QED BY <1>3, <2>1 DEF Closed
<1>7. Way(n, T) = {n} \cup Way(p, T)
  <2>1. Way(n, T) \subseteq {n} \cup Way(p, T)
    BY <1>2, <1>6
  <2> QED BY <1>2, <1>5, <2>1
<1>8. ASSUME n \in Way(p, T) PROVE FALSE
  <2> DEFINE C == {k \in Way(p, T) : n \in Way(k, T)}
  <2>1. p \in C /\ C \in SUBSET Nodes
    BY <1>3, <1>8
  <2>2. ASSUME NEW k \in C PROVE k # Root /\ Parent[k] \in C
    <3>1. k \in Way(p, T) /\ n \in Way(k, T) /\ k \in Nodes
      BY <1>3
    <3>2. k \notin T
      <4>1. ASSUME k \in T PROVE FALSE
        <5>1. Way(k, T) = {k}
          BY <3>1, <4>1, WayOfTop
        <5> QED BY <3>1, <4>1, <5>1
      <4> QED BY <4>1
    <3>3. Parent[k] \in Way(p, T)
      BY <1>3, <3>1, <3>2 DEF Closed
    <3>4. n \in Way(Parent[k], T)
      <4>1. CASE k = n
        BY <1>8, <4>1
      <4>2. CASE k # n
        <5>1. Parent[k] \in Nodes
          BY <1>3, <3>3
        <5>2. /\ Parent[k] \in Way(Parent[k], T) /\ Way(Parent[k], T) \subseteq Nodes
              /\ Closed(Way(Parent[k], T), T)
          BY <5>1, WayClosed
        <5> DEFINE S == {k} \cup Way(Parent[k], T)
        <5>3. S \in SUBSET Nodes /\ k \in S
          BY <3>1, <5>2
        <5>4. Closed(S, T)
          <6>1. ASSUME NEW x \in S \ T PROVE Parent[x] \in S
            <7>1. CASE x = k
              BY <5>2, <7>1
            <7>2. CASE x # k
              BY <5>2, <6>1, <7>2 DEF Closed
            <7> QED BY <7>1, <7>2
          <6> QED BY <6>1 DEF Closed
        <5>5. Way(k, T) \subseteq S
          BY <3>1, <5>3, <5>4, WayClosed
        <5> QED BY <3>1, <4>2, <5>5
      <4> QED BY <4>1, <4>2
    <3> QED BY <3>2, <3>3, <3>4
  <2> HIDE DEF C
  <2>3. C # {} /\ Root \notin C
    BY <2>1, <2>2
  <2> QED BY <2>1, <2>2, <2>3, TimeAssumption
<1> QED BY <1>1, <1>7, <1>8

\* The way ends.
LEMMA WayEnds ==
  ASSUME NEW T, Root \in T, NEW n \in Nodes
  PROVE  Way(n, T) \cap T # {}
<1> SUFFICES ASSUME Way(n, T) \cap T = {} PROVE FALSE
  OBVIOUS
<1>1. n \in Way(n, T) /\ Way(n, T) \in SUBSET Nodes /\ Closed(Way(n, T), T)
  BY WayClosed
<1>2. \A k \in Way(n, T) : Parent[k] \in Way(n, T)
  BY <1>1 DEF Closed
<1>3. Root \in Way(n, T)
  BY <1>1, <1>2, TimeAssumption
<1> QED BY <1>3

\* One more in T, elsewhere, changes nothing.
LEMMA WayKept ==
  ASSUME NEW T, Root \in T, NEW n \in Nodes, NEW t \in Nodes, t \notin Way(n, T)
  PROVE  Way(n, T \cup {t}) = Way(n, T)
<1> DEFINE U == T \cup {t}
<1>1. /\ n \in Way(n, T) /\ Way(n, T) \subseteq Nodes /\ Closed(Way(n, T), T)
      /\ \A S \in SUBSET Nodes : n \in S /\ Closed(S, T) => Way(n, T) \subseteq S
  BY WayClosed
<1>2. /\ n \in Way(n, U) /\ Way(n, U) \subseteq Nodes /\ Closed(Way(n, U), U)
      /\ \A S \in SUBSET Nodes : n \in S /\ Closed(S, U) => Way(n, U) \subseteq S
  BY WayClosed
<1>3. Way(n, U) \subseteq Way(n, T)
  <2>1. Closed(Way(n, T), U)
    BY <1>1 DEF Closed
  <2> QED BY <1>1, <1>2, <2>1
<1>4. Way(n, T) \subseteq Way(n, U)
  <2>1. ASSUME NEW k \in Way(n, U) \ T PROVE Parent[k] \in Way(n, U)
    <3>1. k # t
      BY <1>3
    <3> QED BY <1>2, <2>1, <3>1 DEF Closed
  <2>2. Closed(Way(n, U), T)
    BY <2>1 DEF Closed
  <2> QED BY <1>1, <1>2, <2>2
<1> QED BY <1>3, <1>4

\* The reference and the distance, as functions of T.
TopIn(n, T) == CHOOSE m \in Way(n, T) \cap T : TRUE
DepthIn(n, T) == Cardinality(Way(n, T)) - 1

LEMMA TopParts ==
  ASSUME NEW T, Root \in T, NEW n \in Nodes
  PROVE  /\ TopIn(n, T) \in T /\ TopIn(n, T) \in Way(n, T) /\ TopIn(n, T) \in Nodes
         /\ DepthIn(n, T) \in Nat
         /\ n \in T => TopIn(n, T) = n /\ DepthIn(n, T) = 0
         /\ n \notin T => TopIn(n, T) = TopIn(Parent[n], T) /\ DepthIn(n, T) = DepthIn(Parent[n], T) + 1
<1>1. n \in Way(n, T) /\ Way(n, T) \subseteq Nodes
  BY WayClosed
<1>2. TopIn(n, T) \in Way(n, T) \cap T
  BY WayEnds DEF TopIn
<1>3. \A m \in Nodes : IsFiniteSet(Way(m, T)) /\ Cardinality(Way(m, T)) \in Nat
  <2> TAKE m \in Nodes
  <2>1. Way(m, T) \subseteq Nodes
    BY WayClosed
  <2>2. IsFiniteSet(Way(m, T))
    BY <2>1, FS_Subset, TimeAssumption
  <2> QED BY <2>2, FS_CardinalityType
<1>4. DepthIn(n, T) \in Nat
  <2>1. Cardinality(Way(n, T)) # 0
    BY <1>1, <1>3, FS_EmptySet
  <2> QED BY <1>3, <2>1 DEF DepthIn
<1>5. ASSUME n \in T PROVE TopIn(n, T) = n /\ DepthIn(n, T) = 0
  <2>1. Way(n, T) = {n}
    BY <1>5, WayOfTop
  <2>2. Cardinality({n}) = 1
    BY FS_Singleton
  <2>3. TopIn(n, T) = n
    BY <1>2, <2>1
  <2> QED BY <2>1, <2>2, <2>3 DEF DepthIn
<1>6. ASSUME n \notin T
      PROVE  TopIn(n, T) = TopIn(Parent[n], T) /\ DepthIn(n, T) = DepthIn(Parent[n], T) + 1
  <2>1. Parent[n] \in Nodes /\ Way(n, T) = {n} \cup Way(Parent[n], T) /\ n \notin Way(Parent[n], T)
    BY <1>6, WayOfChild
  <2>2. Way(n, T) \cap T = Way(Parent[n], T) \cap T
    BY <1>6, <2>1
  <2>3. TopIn(n, T) = TopIn(Parent[n], T)
    BY <2>2, Zenon DEF TopIn
  <2>4. Way(n, T) = Way(Parent[n], T) \cup {n}
    BY <2>1
  <2>5. Cardinality(Way(n, T)) = Cardinality(Way(Parent[n], T)) + 1
    BY <1>3, <2>1, <2>4, FS_AddElement
  <2>6. Cardinality(Way(Parent[n], T)) \in Nat
    BY <1>3, <2>1
  <2> QED BY <2>3, <2>5, <2>6 DEF DepthIn
<1> QED BY <1>1, <1>2, <1>4, <1>5, <1>6
-----------------------------------------------------------------------------
(* The inductive invariant.                                                *)

\* What the program measures when nobody sets the clock: half of a trip.
HalfTrip == ((MaxAccept + MaxDelay + Round) \div Grain) \div 2

\* How far the network time of n is ahead of real time, in steps.
Base(n) == offset[n] - Grain * timeStarted[n]

\* The places of the slave and of the start agree with the link.
TimePlaces ==
  /\ chan \in [Nodes -> Seq(Packets)]
  /\ link[Root] = "top"
  /\ \A n \in Nodes :
       /\ link[n] = "off" => waited[n] = 0
       /\ link[n] = "hello" => chan[n] # <<>>
       /\ spc[n] = "store" => link[n] = "up"

\* Each hop adds to what the time of a clipboard may be off.
SkewAt(n) == Near(Base(n) - Base(Top(n)), -(Depth(n) * Behind), Depth(n) * Ahead)

\* A time in a packet is that of the sender when it was sent, in full seconds.
Carried(n) == {chan[n][i] : i \in DOMAIN chan[n]}
GoodPacket(n, p) ==
  p.good => Near(Grain * p.time - now - Base(Top(n)),
                 -(Depth(Parent[n]) * Behind + Round + p.age), Depth(Parent[n]) * Ahead)
PacketAt(n) == \A p \in Carried(n) : GoodPacket(n, p)

\* What time_m_sync is about to store.
StoreAt(n) ==
  spc[n] = "store" /\ sync[n].good =>
    Near(offset[n] - Grain * sync[n].real + Grain * sync[n].now - Base(Top(n)),
         -(Depth(n) * Behind), Depth(n) * Ahead)

\* What is measured while a clipboard joins.
MeasureAt(n) ==
  /\ link[n] = "connect" => Near(now + offset[n] - Grain * t1[n], 0, waited[n] + Round)
  /\ link[n] = "hello" => Near(now + offset[n] - Grain * t1[n], 0, MaxAccept + chan[n][1].age + Round)
  /\ link[n] = "up" => parentDelay[n] <= HalfTrip

SkewInv == \A n \in trusted : SkewAt(n)
PacketInv == \A n \in Nodes \ Tops : PacketAt(n)
StoreInv == \A n \in Nodes : StoreAt(n)
MeasureInv == \A n \in measured : MeasureAt(n)

TimeIInv == TimeTypeOK /\ TimePlaces /\ SkewInv /\ PacketInv /\ StoreInv /\ MeasureInv
-----------------------------------------------------------------------------
(* The arithmetic of the program, near the network time.                   *)

Face(x) == (x % (Modulus * Grain)) \div Grain

LEMMA TripConstants ==
  /\ HalfTrip \in Nat /\ Ahead \in Nat /\ Ahead = Grain * HalfTrip + Round
  /\ HalfTrip = ((MaxAccept + MaxDelay + Round) \div Grain) \div 2
<1>1. (MaxAccept + MaxDelay + Round) \div Grain \in Nat
  <2>1. MaxAccept + MaxDelay + Round \in Nat
    BY TimeConstants
  <2> QED BY <2>1, TimeConstants, DivBounds
<1>2. HalfTrip \in Nat
  BY <1>1 DEF HalfTrip
<1>3. Ahead = Grain * HalfTrip + Round
  BY DEF Ahead, HalfTrip
<1> QED BY <1>2, <1>3, TimeConstants DEF HalfTrip

LEMMA Hop ==
  ASSUME NEW d \in Nat
  PROVE  /\ d * Behind \in Nat /\ d * Ahead \in Nat
         /\ (d + 1) * Behind = d * Behind + Behind /\ (d + 1) * Ahead = d * Ahead + Ahead
         /\ 0 * Behind = 0 /\ 0 * Ahead = 0
BY TimeConstants, TripConstants

\* A clock shows a time that is no more than Round behind.
LEMMA FaceStep ==
  ASSUME NEW x \in Int
  PROVE  Face(x) \in 0..(Modulus - 1)
         /\ \E q \in Int : \E r \in 0..Round : Grain * Face(x) = x + q * Cycle - r
BY ClockFace DEF Face

\* time_m_now, b being where the network time is.
LEMMA SentTime ==
  ASSUME NEW x \in Int, NEW o \in Int, NEW s \in Int, NEW b \in Int, NEW lo \in Int, NEW hi \in Int,
         Near(o - Grain * s - b, lo, hi)
  PROVE  /\ Mod(Face(x + o) + Modulus - s) \in 0..(Modulus - 1)
         /\ Near(Grain * Mod(Face(x + o) + Modulus - s) - x - b, lo - Round, hi)
<1>1. PICK f \in Int : f = Face(x + o)
  BY FaceStep
<1>2. PICK q \in Int : \E r \in 0..Round : Grain * f = x + o + q * Cycle - r
  BY <1>1, FaceStep
<1>3. PICK r \in 0..Round : Grain * f = x + o + q * Cycle - r
  BY <1>2
<1>4. PICK m \in Int : m = Modulus
  BY TimeConstants
<1>5. PICK g \in Int : g = Grain
  BY TimeConstants
<1>6. PICK y \in Int : y = f + m - s
  OBVIOUS
<1>7. PICK p \in Int : Grain * Mod(y) = Grain * y + p * Cycle
  BY ModScaled
<1>8. Mod(y) \in 0..(Modulus - 1)
  BY ModScaled
<1>9. PICK v \in Int : v = Mod(y)
  BY <1>8, TimeConstants
<1>10. PICK j \in Int : j = q + p + 1
  OBVIOUS
<1>11. PICK c \in Int : c = Cycle /\ c = m * g
  BY <1>4, <1>5, TimeConstants DEF Cycle
<1>12. g * v - x - b = (o - g * s - b) + j * c + (-r)
  <2>1. g * f = x + o + q * c - r
    BY <1>3, <1>5, <1>11
  <2>2. g * v = g * y + p * c
    BY <1>5, <1>7, <1>9, <1>11
  <2>3. g * y = g * f + c - g * s
    BY <1>6, <1>11
  <2>4. j * c = q * c + p * c + c
    BY <1>10
  <2> QED BY <2>1, <2>2, <2>3, <2>4
<1>13. Near(g * v - x - b, lo - Round, hi)
  <2>1. -r \in Int /\ Round \in Int /\ g * v - x - b \in Int /\ o - g * s - b \in Int /\ lo - Round \in Int
    BY TimeConstants
  <2>2. lo - Round <= lo + (-r) /\ hi + (-r) <= hi
    BY TimeConstants
  <2>3. Near(o - g * s - b, lo, hi)
    BY <1>5
  <2> QED BY <1>11, <1>12, <2>1, <2>2, <2>3, NearStep
<1> QED BY <1>1, <1>4, <1>5, <1>6, <1>8, <1>9, <1>13

\* time_m_sync reads the clock, t being what came and dl the delay that is added.
LEMMA ReadTime ==
  ASSUME NEW x \in Int, NEW o \in Int, NEW t \in Int, NEW dl \in Nat, NEW b \in Int, NEW lo \in Int, NEW hi \in Int,
         Near(Grain * t - x - b, lo, hi)
  PROVE  Near(o - Grain * Face(x + o) + Grain * Mod(t + dl) - b, lo, hi + Round + Grain * dl)
<1>1. PICK f \in Int : f = Face(x + o)
  BY FaceStep
<1>2. PICK q \in Int : \E r \in 0..Round : Grain * f = x + o + q * Cycle - r
  BY <1>1, FaceStep
<1>3. PICK r \in 0..Round : Grain * f = x + o + q * Cycle - r
  BY <1>2
<1>5. PICK g \in Nat : g = Grain
  BY TimeConstants
<1>7. PICK p \in Int : Grain * Mod(t + dl) = Grain * (t + dl) + p * Cycle
  BY ModScaled
<1>8. Mod(t + dl) \in 0..(Modulus - 1)
  BY ModScaled
<1>9. PICK v \in Int : v = Mod(t + dl)
  BY <1>8, TimeConstants
<1>10. PICK j \in Int : j = p - q
  OBVIOUS
<1>11. PICK c \in Int : c = Cycle
  BY TimeConstants
<1>14. PICK a \in Int : a = r + g * dl
  BY TimeConstants
<1>12. o - g * f + g * v - b = (g * t - x - b) + j * c + a
  <2>1. g * f = x + o + q * c - r
    BY <1>3, <1>5, <1>11
  <2>2. g * v = g * t + g * dl + p * c
    <3>1. g * v = g * (t + dl) + p * c
      BY <1>5, <1>7, <1>9, <1>11
    <3>2. g * (t + dl) = g * t + g * dl
      OBVIOUS
    <3> QED BY <3>1, <3>2
  <2>4. j * c = p * c - q * c
    BY <1>10
  <2> QED BY <1>14, <2>1, <2>2, <2>4
<1>13. Near(o - g * f + g * v - b, lo, hi + Round + g * dl)
  <2>1. Round \in Int /\ o - g * f + g * v - b \in Int /\ g * t - x - b \in Int /\ hi + Round + g * dl \in Int
    BY TimeConstants
  <2>2. lo <= lo + a /\ hi + a <= hi + Round + g * dl
    <3>1. g * dl \in Nat
      OBVIOUS
    <3> QED BY <1>14, <3>1, TimeConstants
  <2>3. Near(g * t - x - b, lo, hi)
    BY <1>5
  <2> QED BY <1>11, <1>12, <2>1, <2>2, <2>3, NearStep
<1> QED BY <1>1, <1>5, <1>9, <1>13

\* time_started = real_now - now.
LEMMA StoredTime ==
  ASSUME NEW o \in Int, NEW real \in Int, NEW t \in Int, NEW b \in Int, NEW lo \in Int, NEW hi \in Int,
         Near(o - Grain * real + Grain * t - b, lo, hi)
  PROVE  Near(o - Grain * Since(real, t) - b, lo, hi)
<1>4. PICK m \in Int : m = Modulus
  BY TimeConstants
<1>5. PICK g \in Int : g = Grain
  BY TimeConstants
<1>6. PICK y \in Int : y = real + m - t
  OBVIOUS
<1>7. PICK p \in Int : Grain * Mod(y) = Grain * y + p * Cycle
  BY ModScaled
<1>8. Mod(y) \in 0..(Modulus - 1)
  BY ModScaled
<1>9. PICK v \in Int : v = Mod(y)
  BY <1>8, TimeConstants
<1>10. PICK j \in Int : j = -p - 1
  OBVIOUS
<1>11. PICK c \in Int : c = Cycle /\ c = m * g
  BY <1>4, <1>5, TimeConstants DEF Cycle
<1>12. o - g * v - b = (o - g * real + g * t - b) + j * c + 0
  <2>2. g * v = g * y + p * c
    BY <1>5, <1>7, <1>9, <1>11
  <2>3. g * y = g * real + c - g * t
    BY <1>6, <1>11
  <2>4. j * c = -(p * c) - c
    BY <1>10
  <2> QED BY <2>2, <2>3, <2>4
<1>13. Near(o - g * v - b, lo, hi)
  <2>1. o - g * v - b \in Int /\ o - g * real + g * t - b \in Int /\ lo <= lo + 0 /\ hi + 0 <= hi /\ 0 \in Int
    OBVIOUS
  <2>3. Near(o - g * real + g * t - b, lo, hi)
    BY <1>5
  <2> QED BY <1>11, <1>12, <2>1, <2>3, NearStep
<1> QED BY <1>4, <1>5, <1>6, <1>9, <1>13 DEF Since

\* parentDelay, when the clock was not set in between.
LEMMA MeasuredTime ==
  ASSUME NEW x \in Int, NEW s \in Int, NEW w \in Int, w <= MaxAccept + MaxDelay + Round,
         Near(x - Grain * s, 0, w)
  PROVE  /\ Mod(Face(x) + Modulus - s) \div 2 \in 0..(Modulus - 1)
         /\ Mod(Face(x) + Modulus - s) \div 2 <= HalfTrip
<1>1. PICK f \in Int : f = Face(x)
  BY FaceStep
<1>2. PICK q \in Int : \E r \in 0..Round : Grain * f = x + q * Cycle - r
  BY <1>1, FaceStep
<1>3. PICK r \in 0..Round : Grain * f = x + q * Cycle - r
  BY <1>2
<1>4. PICK m \in Int : m = Modulus
  BY TimeConstants
<1>5. PICK g \in Int : g = Grain
  BY TimeConstants
<1>6. PICK y \in Int : y = f + m - s
  OBVIOUS
<1>7. PICK most \in Nat : most = MaxAccept + MaxDelay + Round
  BY TimeConstants
<1>11. PICK c \in Int : c = Cycle /\ c = m * g
  BY <1>4, <1>5, TimeConstants DEF Cycle
<1>10. PICK j \in Int : j = q + 1
  OBVIOUS
<1>12. g * y = (x - g * s) + j * c + (-r)
  <2>1. g * f = x + q * c - r
    BY <1>3, <1>5, <1>11
  <2>3. g * y = g * f + c - g * s
    BY <1>6, <1>11
  <2>4. j * c = q * c + c
    BY <1>10
  <2> QED BY <2>1, <2>3, <2>4
<1>13. Near(g * y, -Round, most)
  <2>1. PICK zero \in Int : zero = 0
    OBVIOUS
  <2>2. PICK a \in Int : a = -r
    BY TimeConstants
  <2>3. PICK low \in Int : low = -Round
    BY TimeConstants
  <2>4. PICK u \in Int : u = x - g * s
    OBVIOUS
  <2>5. PICK v \in Int : v = g * y
    OBVIOUS
  <2>6. low <= zero + a /\ w + a <= most
    BY <1>7, <2>1, <2>2, <2>3, TimeConstants
  <2>7. v = u + j * Cycle + a
    BY <1>11, <1>12, <2>2, <2>4, <2>5
  <2>8. Near(u, zero, w)
    BY <1>5, <2>1, <2>4
  <2>9. Near(v, low, most)
    BY <2>6, <2>7, <2>8, NearStep
  <2> QED BY <2>3, <2>5, <2>9
<1>14. Mod(y) <= most \div Grain \/ Mod(y) >= Modulus - (Round \div Grain)
  BY <1>5, <1>13, TimeConstants, Rounded
<1>15. Round \div Grain = 0
  BY TimeConstants
<1>16. Mod(y) \in 0..(Modulus - 1)
  BY ModScaled
<1>17. Mod(y) <= most \div Grain
  BY <1>14, <1>15, <1>16, TimeConstants
<1>18. PICK u \in Nat : u = Mod(y) /\ u <= Modulus - 1
  BY <1>16, TimeConstants
<1>19. PICK e \in Nat : e = most \div Grain
  BY TimeConstants, DivBounds
<1>20. u \div 2 <= e \div 2
  BY <1>17, <1>18, <1>19
<1>21. u \div 2 \in Nat /\ u \div 2 <= u
  OBVIOUS
<1> QED BY <1>1, <1>4, <1>6, <1>7, <1>18, <1>19, <1>20, <1>21, TimeConstants DEF HalfTrip
-----------------------------------------------------------------------------
(* The references, before and after a step.                                *)

LEMMA TopFacts ==
  ASSUME NEW n \in Nodes
  PROVE  /\ Root \in Tops /\ Tops \subseteq Nodes
         /\ Top(n) = TopIn(n, Tops) /\ Depth(n) = DepthIn(n, Tops)
         /\ Top(n) \in Tops /\ Top(n) \in Nodes /\ Top(n) \in Way(n, Tops) /\ Depth(n) \in Nat
         /\ n \in Tops => Top(n) = n /\ Depth(n) = 0
         /\ n \notin Tops => Top(n) = Top(Parent[n]) /\ Depth(n) = Depth(Parent[n]) + 1 /\ Parent[n] \in Nodes
<1>1. Root \in Tops /\ Tops \subseteq Nodes
  BY TimeConstants DEF Tops
<1>2. \A m : Top(m) = TopIn(m, Tops) /\ Depth(m) = DepthIn(m, Tops)
  BY DEF Top, TopIn, Depth, DepthIn
<1>3. n \notin Tops => Parent[n] \in Nodes
  BY <1>1, TimeConstants
<1> QED BY <1>1, <1>2, <1>3, TopParts

LEMMA TopNext ==
  \A m : Top(m)' = TopIn(m, Tops') /\ Depth(m)' = DepthIn(m, Tops')
<1>1. ASSUME NEW m PROVE Top(m)' = TopIn(m, Tops')
  BY DEF Top, TopIn, Way
<1>2. ASSUME NEW m PROVE Depth(m)' = DepthIn(m, Tops')
  BY DEF Depth, DepthIn, Way
<1> QED BY <1>1, <1>2

LEMMA TopsKept ==
  ASSUME Tops' = Tops
  PROVE  \A m \in Nodes : Top(m)' = Top(m) /\ Depth(m)' = Depth(m)
BY TopNext, TopFacts

LEMMA BaseFrame ==
  ASSUME NEW n \in Nodes, offset'[n] = offset[n], timeStarted'[n] = timeStarted[n]
  PROVE  Base(n)' = Base(n)
BY DEF Base

LEMMA TopBaseFrame ==
  ASSUME NEW n \in Nodes, Top(n)' = Top(n), offset'[Top(n)] = offset[Top(n)], timeStarted'[Top(n)] = timeStarted[Top(n)]
  PROVE  Base(Top(n))' = Base(Top(n))
BY DEF Base

\* What a step has to leave as it was for the parts of the invariant.
LEMMA SkewFrame ==
  ASSUME NEW n \in Nodes, SkewAt(n), Top(n)' = Top(n), Depth(n)' = Depth(n),
         Base(n)' = Base(n), Base(Top(n))' = Base(Top(n))
  PROVE  SkewAt(n)'
BY DEF SkewAt

LEMMA GoodFrame ==
  ASSUME NEW n \in Nodes, NEW p, GoodPacket(n, p), now' = now, Top(n)' = Top(n),
         Depth(Parent[n])' = Depth(Parent[n]), Base(Top(n))' = Base(Top(n))
  PROVE  GoodPacket(n, p)'
BY DEF GoodPacket

LEMMA StoreFrame ==
  ASSUME NEW n \in Nodes, StoreAt(n), Top(n)' = Top(n), Depth(n)' = Depth(n), Base(Top(n))' = Base(Top(n)),
         offset'[n] = offset[n], spc'[n] = spc[n], sync'[n] = sync[n]
  PROVE  StoreAt(n)'
BY DEF StoreAt

LEMMA MeasureFrame ==
  ASSUME NEW n \in Nodes, MeasureAt(n), now' = now, offset'[n] = offset[n], t1'[n] = t1[n], link'[n] = link[n],
         waited'[n] = waited[n], parentDelay'[n] = parentDelay[n], link[n] = "hello" => chan'[n][1].age = chan[n][1].age
  PROVE  MeasureAt(n)'
BY DEF MeasureAt

\* The kinds of what the proofs compute with.
LEMMA Kinds ==
  ASSUME TimeTypeOK, TimePlaces, NEW n \in Nodes
  PROVE  /\ now \in Int /\ offset[n] \in Int /\ timeStarted[n] \in Int /\ t1[n] \in Int
         /\ Base(n) \in Int /\ Base(Top(n)) \in Int
         /\ Local(n) = Face(now + offset[n]) /\ Local(n) \in 0..(Modulus - 1)
         /\ Now(n) \in 0..(Modulus - 1) /\ Now(n) = Mod(Face(now + offset[n]) + Modulus - timeStarted[n])
         /\ (n \in Tops <=> link[n] = "top")
<1>1. \A m \in Nodes : offset[m] \in Int /\ timeStarted[m] \in Int
  BY TimeConstants DEF TimeTypeOK
<1>2. now \in Int /\ t1[n] \in Int
  BY TimeConstants DEF TimeTypeOK
<1>3. \A m \in Nodes : Base(m) \in Int
  BY <1>1, TimeConstants DEF Base
<1>4. Top(n) \in Nodes
  BY TopFacts
<1>5. Local(n) = Face(now + offset[n])
  BY DEF Local, Face
<1>6. now + offset[n] \in Int
  BY <1>1, <1>2
<1>7. Local(n) \in 0..(Modulus - 1)
  BY <1>5, <1>6, FaceStep
<1>8. Now(n) = Mod(Face(now + offset[n]) + Modulus - timeStarted[n])
  BY <1>5 DEF Now
<1>9. Local(n) + Modulus - timeStarted[n] \in Int
  BY <1>1, <1>7, TimeConstants
<1>10. Now(n) \in 0..(Modulus - 1)
  BY <1>9, ModScaled DEF Now
<1>11. n \in Tops <=> link[n] = "top"
  BY DEF Tops, TimePlaces
<1> QED BY <1>1, <1>2, <1>3, <1>4, <1>5, <1>7, <1>8, <1>10, <1>11

\* The ends of a bound are numbers.
LEMMA Bounds ==
  ASSUME NEW n \in Nodes
  PROVE  /\ Depth(n) * Behind \in Nat /\ Depth(n) * Ahead \in Nat
         /\ -(Depth(n) * Behind) \in Int
         /\ n \notin Tops => /\ Depth(Parent[n]) * Behind \in Nat /\ Depth(Parent[n]) * Ahead \in Nat
                             /\ Depth(n) * Behind = Depth(Parent[n]) * Behind + Behind
                             /\ Depth(n) * Ahead = Depth(Parent[n]) * Ahead + Ahead
<1>1. Depth(n) \in Nat
  BY TopFacts
<1>2. Depth(n) * Behind \in Nat /\ Depth(n) * Ahead \in Nat
  BY <1>1, Hop
<1>3. ASSUME n \notin Tops
      PROVE  /\ Depth(Parent[n]) * Behind \in Nat /\ Depth(Parent[n]) * Ahead \in Nat
             /\ Depth(n) * Behind = Depth(Parent[n]) * Behind + Behind
             /\ Depth(n) * Ahead = Depth(Parent[n]) * Ahead + Ahead
  <2>1. Parent[n] \in Nodes /\ Depth(n) = Depth(Parent[n]) + 1
    BY <1>3, TopFacts
  <2>2. Depth(Parent[n]) \in Nat
    BY <2>1, TopFacts
  <2> QED BY <2>1, <2>2, Hop
<1>4. \A k \in Nat : -k \in Int
  OBVIOUS
<1> QED BY <1>2, <1>3, <1>4

\* A root is its own reference.
LEMMA NearSelf ==
  ASSUME NEW b \in Int, NEW d \in Int, d = 0
  PROVE  Near(b - b, -(d * Behind), d * Ahead)
<1>1. d * Behind = 0 /\ d * Ahead = 0 /\ b - b = 0
  BY TimeConstants, TripConstants
<1>2. PICK k \in Int : k = d * Behind
  BY <1>1
<1>3. -k = 0
  BY <1>1, <1>2
<1>4. Near(0, 0, 0)
  BY NearHere
<1> QED BY <1>1, <1>2, <1>3, <1>4

LEMMA SkewOfTop ==
  ASSUME TimeTypeOK, TimePlaces, NEW n \in Tops
  PROVE  SkewAt(n)
<1>1. n \in Nodes /\ Top(n) = n /\ Depth(n) = 0
  BY TopFacts, TimeConstants
<1>2. Base(n) \in Int
  BY <1>1, Kinds
<1> QED BY <1>1, <1>2, NearSelf DEF SkewAt

\* A packet that is sent is good.
LEMMA SentGood ==
  ASSUME TimeTypeOK, TimePlaces, NEW c \in Nodes \ Tops, NEW n \in Nodes, n = Parent[c], NEW s \in Int, NEW g,
         g => Near(offset[n] - Grain * s - Base(Top(n)), -(Depth(n) * Behind), Depth(n) * Ahead)
  PROVE  GoodPacket(c, Packet(Mod(Local(n) + Modulus - s), g))
<1> DEFINE p == Packet(Mod(Local(n) + Modulus - s), g)
<1>1. p.time = Mod(Local(n) + Modulus - s) /\ p.age = 0 /\ p.good = g
  BY DEF Packet
<1>2. SUFFICES ASSUME g
               PROVE  Near(Grain * p.time - now - Base(Top(c)),
                           -(Depth(Parent[c]) * Behind + Round + p.age), Depth(Parent[c]) * Ahead)
  BY <1>1 DEF GoodPacket
<1> HIDE DEF p
<1>3. Top(c) = Top(n)
  BY TopFacts
<1>4. PICK b \in Int : b = Base(Top(n))
  BY Kinds
<1>5. PICK o \in Int : o = offset[n]
  BY Kinds
<1>6. PICK x \in Int : x = now
  BY Kinds
<1>7. Local(n) = Face(x + o)
  BY <1>5, <1>6, Kinds
<1>8. PICK low \in Int : low = -(Depth(n) * Behind)
  BY Bounds
<1>9. PICK high \in Int : high = Depth(n) * Ahead
  BY Bounds
<1>10. Near(o - Grain * s - b, low, high)
  BY <1>2, <1>4, <1>5, <1>8, <1>9
<1>11. Near(Grain * Mod(Face(x + o) + Modulus - s) - x - b, low - Round, high)
  BY <1>10, SentTime
<1>12. low - Round = -(Depth(n) * Behind + Round + 0)
  BY <1>8, Bounds, TimeConstants
<1> QED BY <1>1, <1>3, <1>4, <1>6, <1>7, <1>9, <1>11, <1>12
-----------------------------------------------------------------------------
(* What the steps do to the packets.                                       *)

LEMMA MappedSeq ==
  ASSUME NEW S, NEW s \in Seq(S), NEW t, t = [i \in DOMAIN s |-> t[i]], \A i \in DOMAIN s : t[i] \in S
  PROVE  t \in Seq(S) /\ DOMAIN t = DOMAIN s /\ (s # <<>> => t # <<>> /\ 1 \in DOMAIN s)
<1>1. Len(s) \in Nat /\ DOMAIN s = 1..Len(s)
  BY LenProperties
<1>2. t \in [1..Len(s) -> S]
  BY <1>1
<1>3. t \in Seq(S)
  BY <1>1, <1>2, SeqDef
<1>4. DOMAIN t = DOMAIN s
  OBVIOUS
<1>5. ASSUME s # <<>> PROVE t # <<>> /\ 1 \in DOMAIN s
  <2>1. Len(s) >= 1
    BY <1>1, <1>5, EmptySeq
  <2>2. 1 \in DOMAIN s
    BY <1>1, <2>1
  <2>3. DOMAIN <<>> = {}
    BY EmptySeq
  <2> QED BY <1>4, <2>2, <2>3
<1> QED BY <1>3, <1>4, <1>5

LEMMA Appended ==
  ASSUME NEW S, NEW s \in Seq(S), NEW q \in S
  PROVE  /\ Append(s, q) \in Seq(S) /\ Append(s, q) # <<>>
         /\ s # <<>> => Append(s, q)[1] = s[1]
         /\ \A i \in DOMAIN Append(s, q) : Append(s, q)[i] = q \/ (i \in DOMAIN s /\ Append(s, q)[i] = s[i])
<1>1. Len(s) \in Nat /\ DOMAIN s = 1..Len(s)
  BY LenProperties
<1>2. /\ Append(s, q) \in Seq(S) /\ Len(Append(s, q)) = Len(s) + 1
      /\ \A i \in 1..Len(s) : Append(s, q)[i] = s[i]
      /\ Append(s, q)[Len(s) + 1] = q
  BY AppendProperties
<1>3. DOMAIN Append(s, q) = 1..(Len(s) + 1)
  BY <1>1, <1>2, LenProperties
<1>4. Append(s, q) # <<>>
  BY AppendProperties
<1>5. ASSUME s # <<>> PROVE Append(s, q)[1] = s[1]
  <2>1. Len(s) >= 1
    BY <1>1, <1>5, EmptySeq
  <2> QED BY <1>1, <1>2, <2>1
<1>6. ASSUME NEW i \in DOMAIN Append(s, q) PROVE Append(s, q)[i] = q \/ (i \in DOMAIN s /\ Append(s, q)[i] = s[i])
  <2>1. i = Len(s) + 1 \/ i \in 1..Len(s)
    BY <1>1, <1>3
  <2> QED BY <1>1, <1>2, <2>1
<1> QED BY <1>2, <1>4, <1>5, <1>6

LEMMA TakenFirst ==
  ASSUME NEW S, NEW s \in Seq(S), s # <<>>
  PROVE  /\ Tail(s) \in Seq(S) /\ Head(s) = s[1] /\ Head(s) \in S /\ 1 \in DOMAIN s
         /\ \A i \in DOMAIN Tail(s) : i + 1 \in DOMAIN s /\ Tail(s)[i] = s[i + 1]
<1>1. Len(s) \in Nat /\ DOMAIN s = 1..Len(s)
  BY LenProperties
<1>2. Len(s) >= 1
  BY <1>1, EmptySeq
<1>3. /\ Tail(s) \in Seq(S) /\ Head(s) = s[1] /\ Head(s) \in S
      /\ Len(Tail(s)) = Len(s) - 1 /\ \A i \in 1..Len(Tail(s)) : Tail(s)[i] = s[i + 1]
  BY HeadTailProperties
<1>4. DOMAIN Tail(s) = 1..(Len(s) - 1)
  BY <1>3, LenProperties
<1>5. \A i \in 1..(Len(s) - 1) : i + 1 \in 1..Len(s)
  BY <1>1
<1>6. 1 \in DOMAIN s
  BY <1>1, <1>2
<1> QED BY <1>1, <1>3, <1>4, <1>5, <1>6

LEMMA PutFirst ==
  ASSUME NEW S, NEW s \in Seq(S), NEW q \in S
  PROVE  /\ <<q>> \o s \in Seq(S) /\ <<q>> \o s # <<>> /\ (<<q>> \o s)[1] = q
         /\ \A i \in DOMAIN (<<q>> \o s) : (<<q>> \o s)[i] = q \/ (i - 1 \in DOMAIN s /\ (<<q>> \o s)[i] = s[i - 1])
<1> DEFINE h == <<q>>
<1>1. h \in Seq(S) /\ Len(h) = 1 /\ h[1] = q
  OBVIOUS
<1> HIDE DEF h
<1>2. Len(s) \in Nat /\ DOMAIN s = 1..Len(s)
  BY LenProperties
<1>3. /\ h \o s \in Seq(S) /\ Len(h \o s) = 1 + Len(s)
      /\ \A i \in 1..(1 + Len(s)) : (h \o s)[i] = IF i <= 1 THEN h[i] ELSE s[i - 1]
  <2>1. /\ h \o s \in Seq(S) /\ Len(h \o s) = Len(h) + Len(s)
        /\ \A i \in 1..(Len(h) + Len(s)) : (h \o s)[i] = IF i <= Len(h) THEN h[i] ELSE s[i - Len(h)]
    BY <1>1, ConcatProperties, Zenon
  <2> QED BY <1>1, <2>1
<1>4. DOMAIN (h \o s) = 1..(1 + Len(s))
  BY <1>3, LenProperties
<1>5. (h \o s)[1] = q
  BY <1>1, <1>2, <1>3
<1>6. h \o s # <<>>
  BY <1>2, <1>3, EmptySeq
<1>7. ASSUME NEW i \in DOMAIN (h \o s) PROVE (h \o s)[i] = q \/ (i - 1 \in DOMAIN s /\ (h \o s)[i] = s[i - 1])
  <2>1. i = 1 \/ i \in 2..(1 + Len(s))
    BY <1>2, <1>4
  <2>2. CASE i = 1
    BY <1>5, <2>2
  <2>3. CASE i \in 2..(1 + Len(s))
    BY <1>2, <1>3, <2>3
  <2> QED BY <2>1, <2>2, <2>3
<1> QED BY <1>3, <1>5, <1>6, <1>7 DEF h

\* clipif_broadcast.
LEMMA SendStep ==
  ASSUME TimeTypeOK, TimePlaces, NEW n \in Nodes, NEW q \in Packets, Send(n, q)
  PROVE  /\ chan' \in [Nodes -> Seq(Packets)]
         /\ \A c \in Nodes :
              /\ chan[c] # <<>> => chan'[c] # <<>> /\ chan'[c][1] = chan[c][1]
              /\ \A p \in Carried(c)' : p \in Carried(c) \/ (p = q /\ c \in Nodes \ Tops /\ Parent[c] = n)
<1>1. PICK late \in SUBSET {c \in Children(n) : link[c] = "connect"} :
        LET to == late \cup {c \in Children(n) : link[c] \in {"hello", "up"}}
        IN chan' = [c \in Nodes |-> IF c \in to THEN Append(chan[c], q) ELSE chan[c]]
  BY DEF Send
<1>2. PICK to \in SUBSET {c \in Children(n) : link[c] \in {"connect", "hello", "up"}} :
        chan' = [c \in Nodes |-> IF c \in to THEN Append(chan[c], q) ELSE chan[c]]
  BY <1>1
<1>3. \A c \in Nodes : chan[c] \in Seq(Packets)
  BY DEF TimeTypeOK
<1>4. \A c \in Nodes : Append(chan[c], q) \in Seq(Packets)
  BY <1>3, Appended
<1>5. chan' \in [Nodes -> Seq(Packets)]
  BY <1>2, <1>3, <1>4
<1>6. ASSUME NEW c \in Nodes, chan[c] # <<>> PROVE chan'[c] # <<>> /\ chan'[c][1] = chan[c][1]
  BY <1>2, <1>3, <1>6, Appended
<1>7. ASSUME NEW c \in Nodes, NEW p \in Carried(c)'
      PROVE  p \in Carried(c) \/ (p = q /\ c \in Nodes \ Tops /\ Parent[c] = n)
  <2>1. PICK i \in DOMAIN chan'[c] : p = chan'[c][i]
    BY <1>7 DEF Carried
  <2>2. CASE c \in to
    <3>1. chan'[c] = Append(chan[c], q)
      BY <1>2, <2>2
    <3>2. p = q \/ (i \in DOMAIN chan[c] /\ p = chan[c][i])
      BY <1>3, <2>1, <3>1, Appended
    <3>3. c \in Children(n) /\ link[c] # "top"
      BY <1>2, <2>2
    <3>4. c \in Nodes \ Tops /\ Parent[c] = n
      BY <3>3, Kinds DEF Children
    <3> QED BY <3>2, <3>4 DEF Carried
  <2>3. CASE c \notin to
    <3>1. chan'[c] = chan[c]
      BY <1>2, <2>3
    <3> QED BY <2>1, <3>1 DEF Carried
  <2> QED BY <2>2, <2>3
<1> QED BY <1>5, <1>6, <1>7

\* The times that are no longer good.
LEMMA VoidStep ==
  ASSUME TimeTypeOK, TimePlaces, NEW N, Void(N)
  PROVE  /\ chan' \in [Nodes -> Seq(Packets)]
         /\ sync' \in [Nodes -> [now : 0..(Modulus - 1), real : 0..(Modulus - 1), age : 0..MaxDelay, good : BOOLEAN]]
         /\ \A c \in Nodes :
              /\ chan[c] # <<>> /\ link'[c] # "top" => chan'[c] # <<>> /\ chan'[c][1].age = chan[c][1].age
              /\ \A p \in Carried(c)' : (p \in Carried(c) /\ c \notin N) \/ ~p.good
              /\ (sync'[c] = sync[c] /\ c \notin N) \/ ~sync'[c].good
<1>1. \A c \in Nodes : chan[c] \in Seq(Packets)
  BY DEF TimeTypeOK
<1>2. \A p \in Packets : Bad(p) \in Packets /\ ~Bad(p).good /\ Bad(p).age = p.age
  BY DEF Bad, Packets
<1>3. \A c \in Nodes : chan'[c] = IF link'[c] = "top" THEN <<>>
                                   ELSE IF c \in N THEN [i \in DOMAIN chan[c] |-> Bad(chan[c][i])] ELSE chan[c]
  BY DEF Void
<1>4. \A c \in Nodes : \A i \in DOMAIN chan[c] : chan[c][i] \in Packets
  BY <1>1, ElementOfSeq, LenProperties
<1>5. ASSUME NEW c \in Nodes
      PROVE  /\ chan'[c] \in Seq(Packets)
             /\ chan[c] # <<>> /\ link'[c] # "top" => chan'[c] # <<>> /\ chan'[c][1].age = chan[c][1].age
             /\ \A p \in Carried(c)' : (p \in Carried(c) /\ c \notin N) \/ ~p.good
  <2>1. CASE link'[c] = "top"
    <3>1. chan'[c] = <<>>
      BY <1>3, <2>1
    <3>2. chan'[c] \in Seq(Packets) /\ DOMAIN chan'[c] = {}
      BY <3>1, EmptySeq
    <3>3. Carried(c)' = {}
      BY <3>2 DEF Carried
    <3> QED BY <2>1, <3>2, <3>3
  <2>2. CASE link'[c] # "top" /\ c \in N
    <3>1. chan'[c] = [i \in DOMAIN chan[c] |-> Bad(chan[c][i])]
      BY <1>3, <2>2
    <3>2. chan'[c] = [i \in DOMAIN chan[c] |-> chan'[c][i]] /\ \A i \in DOMAIN chan[c] : chan'[c][i] = Bad(chan[c][i])
      BY <3>1
    <3>3. \A i \in DOMAIN chan[c] : chan'[c][i] \in Packets /\ ~chan'[c][i].good /\ chan'[c][i].age = chan[c][i].age
      BY <1>2, <1>4, <3>2
    <3>4. chan'[c] \in Seq(Packets) /\ DOMAIN chan'[c] = DOMAIN chan[c]
          /\ (chan[c] # <<>> => chan'[c] # <<>> /\ 1 \in DOMAIN chan[c])
      BY <1>1, <3>2, <3>3, MappedSeq
    <3>5. \A p \in Carried(c)' : ~p.good
      BY <3>3, <3>4 DEF Carried
    <3> QED BY <3>3, <3>4, <3>5
  <2>3. CASE link'[c] # "top" /\ c \notin N
    <3>1. chan'[c] = chan[c]
      BY <1>3, <2>3
    <3>2. Carried(c)' = Carried(c)
      BY <3>1 DEF Carried
    <3> QED BY <1>1, <2>3, <3>1, <3>2
  <2> QED BY <2>1, <2>2, <2>3
<1>6. chan' = [c \in Nodes |-> chan'[c]]
  BY DEF Void
<1>7. chan' \in [Nodes -> Seq(Packets)]
  BY <1>5, <1>6
<1> DEFINE Syncs == [now : 0..(Modulus - 1), real : 0..(Modulus - 1), age : 0..MaxDelay, good : BOOLEAN]
<1>8. sync \in [Nodes -> Syncs]
  BY DEF TimeTypeOK
<1>9. ASSUME NEW y \in Syncs PROVE Bad(y) \in Syncs /\ ~Bad(y).good
  BY DEF Bad
<1> HIDE DEF Syncs
<1>10. sync' = [c \in Nodes |-> IF c \in N THEN Bad(sync[c]) ELSE sync[c]]
  BY DEF Void
<1>11. sync' \in [Nodes -> Syncs] /\ \A c \in Nodes : (sync'[c] = sync[c] /\ c \notin N) \/ ~sync'[c].good
  BY <1>8, <1>9, <1>10
<1> QED BY <1>5, <1>7, <1>11 DEF Syncs
-----------------------------------------------------------------------------
(* The steps.                                                              *)

LEMMA TopsSame ==
  ASSUME \A m \in Nodes : link'[m] = "top" <=> link[m] = "top"
  PROVE  Tops' = Tops
BY DEF Tops

\* Only clipboards in M that have a reference above them are touched.
LEMMA Still ==
  ASSUME TimeTypeOK, TimePlaces, Tops' = Tops, NEW M, M \cap Tops = {},
         \A m \in Nodes \ M : offset'[m] = offset[m] /\ timeStarted'[m] = timeStarted[m]
  PROVE  /\ \A m \in Nodes : /\ Top(m)' = Top(m) /\ Depth(m)' = Depth(m)
                             /\ Base(Top(m))' = Base(Top(m))
                             /\ m \notin Tops => Depth(Parent[m])' = Depth(Parent[m])
         /\ \A m \in Nodes \ M : SkewAt(m) => SkewAt(m)'
         /\ now' = now => \A m \in Nodes \ Tops : \A p : GoodPacket(m, p) => GoodPacket(m, p)'
         /\ \A m \in Nodes \ M : spc'[m] = spc[m] /\ sync'[m] = sync[m] /\ StoreAt(m) => StoreAt(m)'
<1>1. \A m \in Nodes : Top(m)' = Top(m) /\ Depth(m)' = Depth(m)
  BY TopsKept
<1>2. \A m \in Nodes \ M : Base(m)' = Base(m)
  BY BaseFrame
<1>3. ASSUME NEW m \in Nodes PROVE Base(Top(m))' = Base(Top(m))
  <2>1. Top(m) \in Nodes \ M
    BY TopFacts
  <2> QED BY <1>1, <2>1, TopBaseFrame
<1>4. ASSUME NEW m \in Nodes \ Tops PROVE Depth(Parent[m])' = Depth(Parent[m])
  <2>1. Parent[m] \in Nodes
    BY TopFacts
  <2> QED BY <1>1, <2>1
<1>5. ASSUME NEW m \in Nodes \ M, SkewAt(m) PROVE SkewAt(m)'
  BY <1>1, <1>2, <1>3, <1>5, SkewFrame
<1>6. ASSUME now' = now, NEW m \in Nodes \ Tops, NEW p, GoodPacket(m, p) PROVE GoodPacket(m, p)'
  BY <1>1, <1>3, <1>4, <1>6, GoodFrame
<1>7. ASSUME NEW m \in Nodes \ M, spc'[m] = spc[m] /\ sync'[m] = sync[m] /\ StoreAt(m) PROVE StoreAt(m)'
  BY <1>1, <1>3, <1>7, StoreFrame
<1> QED BY <1>1, <1>3, <1>4, <1>5, <1>6, <1>7

LEMMA NearWider ==
  ASSUME NEW x \in Int, NEW lo \in Int, NEW hi \in Int, NEW lo2 \in Int, NEW hi2 \in Int,
         Near(x, lo, hi), lo2 <= lo, hi <= hi2
  PROVE  Near(x, lo2, hi2)
<1>1. \A k \in Int : x + k * Cycle \in Int
  BY TimeConstants
<1> QED BY <1>1 DEF Near

\* A good time that is used in time takes the clipboard one hop below the sender.
LEMMA Learned ==
  ASSUME TimeTypeOK, TimePlaces, NEW n \in Nodes \ Tops, NEW p \in Packets, p.good, GoodPacket(n, p),
         NEW dl \in Nat, dl <= HalfTrip
  PROVE  Near(offset[n] - Grain * Local(n) + Grain * Mod(p.time + dl) - Base(Top(n)),
              -(Depth(n) * Behind), Depth(n) * Ahead)
<1>1. PICK b \in Int : b = Base(Top(n))
  BY Kinds
<1>2. PICK o \in Int : o = offset[n]
  BY Kinds
<1>3. PICK x \in Int : x = now
  BY Kinds
<1>4. PICK t \in Int : t = p.time
  BY TimeConstants DEF Packets
<1>5. PICK a \in Int : a = p.age /\ a <= MaxDelay
  BY TimeConstants DEF Packets
<1>6. Local(n) = Face(x + o) /\ Local(n) \in Int
  BY <1>2, <1>3, Kinds, TimeConstants
<1>7. PICK L \in Int : L = Depth(Parent[n]) * Behind
  BY Bounds
<1>8. PICK H \in Int : H = Depth(Parent[n]) * Ahead
  BY Bounds
<1>9. PICK low \in Int : low = -(L + Round + a)
  BY TimeConstants
<1>10. Near(Grain * t - x - b, low, H)
  BY <1>1, <1>3, <1>4, <1>5, <1>7, <1>8, <1>9 DEF GoodPacket
<1>11. Near(o - Grain * Face(x + o) + Grain * Mod(t + dl) - b, low, H + Round + Grain * dl)
  BY <1>10, ReadTime
<1>12. PICK g \in Nat : g = Grain
  BY TimeConstants
<1>13. g * dl <= g * HalfTrip /\ g * dl \in Int
  BY TripConstants
<1>14. PICK high \in Int : high = H + Round + Grain * dl
  BY <1>12, <1>13, TimeConstants
<1>15. PICK low2 \in Int : low2 = -(Depth(n) * Behind)
  BY Bounds
<1>16. PICK high2 \in Int : high2 = Depth(n) * Ahead
  BY Bounds
<1>17. low2 <= low
  <2>1. Depth(n) * Behind = L + Behind /\ Depth(n) * Behind \in Int
    BY <1>7, Bounds
  <2> QED BY <1>5, <1>9, <1>15, <2>1, TimeConstants
<1>18. high <= high2
  <2>1. high2 = H + Ahead
    BY <1>8, <1>16, Bounds
  <2> QED BY <1>12, <1>13, <1>14, <2>1, TripConstants, TimeConstants
<1>19. PICK y \in Int : y = o - Grain * Face(x + o) + Grain * Mod(t + dl) - b
  <2>1. Mod(t + dl) \in Int
    BY ModScaled, TimeConstants
  <2> QED BY <1>6, <2>1, TimeConstants
<1>20. Near(y, low2, high2)
  BY <1>11, <1>14, <1>17, <1>18, <1>19, NearWider
<1> QED BY <1>1, <1>2, <1>4, <1>6, <1>15, <1>16, <1>19, <1>20

LEMMA StepConnect ==
  ASSUME TimeIInv, NEW n \in Nodes \ {Root}, Connect(n)
  PROVE  TimeIInv'
<1>0. TimeTypeOK /\ TimePlaces /\ SkewInv /\ PacketInv /\ StoreInv /\ MeasureInv
  BY DEF TimeIInv
<1>1. /\ link[n] = "off" /\ link' = [link EXCEPT ![n] = "connect"] /\ t1' = [t1 EXCEPT ![n] = Local(n)]
      /\ now' = now /\ offset' = offset /\ timeStarted' = timeStarted /\ waited' = waited
      /\ parentDelay' = parentDelay /\ chan' = chan /\ spc' = spc /\ sync' = sync /\ trusted' = trusted
      /\ measured' = measured
  BY DEF Connect
<1>2. TimeTypeOK'
  <2>1. Local(n) \in 0..(Modulus - 1)
    BY <1>0, Kinds
  <2> QED BY <1>0, <1>1, <2>1 DEF TimeTypeOK
<1>3. link \in [Nodes -> {"off", "connect", "hello", "up", "top"}]
  BY <1>0 DEF TimeTypeOK
<1>4. TimePlaces'
  BY <1>0, <1>1, <1>3 DEF TimePlaces
<1>5. Tops' = Tops
  BY <1>1, <1>3, TopsSame
<1>6. /\ \A m \in Nodes : SkewAt(m) => SkewAt(m)'
      /\ \A m \in Nodes \ Tops : \A p : GoodPacket(m, p) => GoodPacket(m, p)'
      /\ \A m \in Nodes : StoreAt(m) => StoreAt(m)'
  <2>1. {} \cap Tops = {} /\ \A m \in Nodes \ {} : offset'[m] = offset[m] /\ timeStarted'[m] = timeStarted[m]
    BY <1>1
  <2>2. /\ \A m \in Nodes \ {} : SkewAt(m) => SkewAt(m)'
        /\ \A m \in Nodes \ Tops : \A p : GoodPacket(m, p) => GoodPacket(m, p)'
        /\ \A m \in Nodes \ {} : spc'[m] = spc[m] /\ sync'[m] = sync[m] /\ StoreAt(m) => StoreAt(m)'
    BY <1>0, <1>1, <1>5, <2>1, Still
  <2> QED BY <1>1, <2>2
<1>7. SkewInv'
  <2>1. trusted \subseteq Nodes
    BY <1>0 DEF TimeTypeOK
  <2> QED BY <1>0, <1>1, <1>6, <2>1 DEF SkewInv
<1>8. PacketInv'
  <2>1. ASSUME NEW c \in Nodes \ Tops PROVE PacketAt(c)'
    <3>1. Carried(c)' = Carried(c)
      BY <1>1 DEF Carried
    <3> QED BY <1>0, <1>6, <2>1, <3>1 DEF PacketInv, PacketAt
  <2> QED BY <1>5, <2>1 DEF PacketInv
<1>9. StoreInv'
  BY <1>0, <1>6 DEF StoreInv
<1>10. MeasureInv'
  <2>1. ASSUME NEW m \in measured, m # n PROVE MeasureAt(m)'
    <3>1. m \in Nodes
      BY <1>0, <2>1 DEF TimeTypeOK
    <3>2. MeasureAt(m) /\ t1'[m] = t1[m] /\ link'[m] = link[m]
      BY <1>0, <1>1, <1>3, <2>1, <3>1 DEF MeasureInv, TimeTypeOK
    <3> QED BY <1>1, <3>1, <3>2, MeasureFrame
  <2>2. MeasureAt(n)'
    <3>1. link'[n] = "connect" /\ t1'[n] = Local(n) /\ waited'[n] = 0
      BY <1>0, <1>1, <1>3 DEF TimeTypeOK, TimePlaces
    <3>2. Near(now + offset[n] - Grain * Local(n), 0, 0 + Round)
      <4>1. PICK x \in Int : x = now + offset[n]
        BY <1>0, Kinds
      <4>2. PICK f \in Int : f = Local(n)
        BY <1>0, Kinds, TimeConstants
      <4>3. f = Face(x)
        BY <1>0, <4>1, <4>2, Kinds
      <4>4. PICK q \in Int : \E r \in 0..Round : Grain * f = x + q * Cycle - r
        BY <4>3, FaceStep
      <4>5. PICK r \in 0..Round : Grain * f = x + q * Cycle - r
        BY <4>4
      <4>6. PICK c \in Int : c = q * Cycle
        BY TimeConstants
      <4>7. PICK y \in Int : y = x - Grain * f
        BY TimeConstants
      <4>8. y + c = r
        BY <4>5, <4>6, <4>7, TimeConstants
      <4>9. 0 <= y + q * Cycle /\ y + q * Cycle <= 0 + Round
        BY <4>6, <4>8, TimeConstants
      <4>11. now + offset[n] - Grain * Local(n) = y
        BY <1>0, <4>1, <4>2, <4>7, Kinds, TimeConstants
      <4>10. Near(y, 0, 0 + Round)
        BY <4>9 DEF Near
      <4> QED BY <4>10, <4>11
    <3>3. Near(now' + offset'[n] - Grain * t1'[n], 0, waited'[n] + Round)
      BY <1>1, <3>1, <3>2, Zenon
    <3> QED BY <3>1, <3>3 DEF MeasureAt
  <2> QED BY <1>1, <2>1, <2>2 DEF MeasureInv
<1> QED BY <1>2, <1>4, <1>7, <1>8, <1>9, <1>10 DEF TimeIInv

LEMMA StepAccept ==
  ASSUME TimeIInv, NEW n \in Nodes \ {Root}, Accept(n)
  PROVE  TimeIInv'
<1>0. TimeTypeOK /\ TimePlaces /\ SkewInv /\ PacketInv /\ StoreInv /\ MeasureInv
  BY DEF TimeIInv
<1> DEFINE q == Packet(Now(Parent[n]), Parent[n] \in trusted)
<1>1. /\ link[n] = "connect" /\ link' = [link EXCEPT ![n] = "hello"]
      /\ chan' = [chan EXCEPT ![n] = <<q>> \o chan[n]]
      /\ now' = now /\ offset' = offset /\ timeStarted' = timeStarted /\ waited' = waited /\ t1' = t1
      /\ parentDelay' = parentDelay /\ spc' = spc /\ sync' = sync /\ trusted' = trusted
      /\ measured' = measured
  BY DEF Accept
<1>2. Parent[n] \in Nodes
  BY TimeConstants
<1>3. q \in Packets /\ q.age = 0
  <2>1. Now(Parent[n]) \in 0..(Modulus - 1)
    BY <1>0, <1>2, Kinds
  <2> QED BY <2>1, TimeConstants DEF Packet, Packets
<1>4. link \in [Nodes -> {"off", "connect", "hello", "up", "top"}] /\ chan \in [Nodes -> Seq(Packets)]
  BY <1>0 DEF TimeTypeOK, TimePlaces
<1>5. n \in Nodes \ Tops
  BY <1>0, <1>1, Kinds
<1>6. GoodPacket(n, q)
  <2>1. ASSUME Parent[n] \in trusted
        PROVE  Near(offset[Parent[n]] - Grain * timeStarted[Parent[n]] - Base(Top(Parent[n])),
                    -(Depth(Parent[n]) * Behind), Depth(Parent[n]) * Ahead)
    BY <1>0, <2>1 DEF SkewInv, SkewAt, Base
  <2>2. timeStarted[Parent[n]] \in Int
    BY <1>0, <1>2, Kinds
  <2>3. GoodPacket(n, Packet(Mod(Local(Parent[n]) + Modulus - timeStarted[Parent[n]]), Parent[n] \in trusted))
    BY <1>0, <1>2, <1>5, <2>1, <2>2, SentGood
  <2> QED BY <2>3 DEF Now
<1> HIDE DEF q
<1>7. chan[n] \in Seq(Packets)
  BY <1>4
<1>8. <<q>> \o chan[n] \in Seq(Packets) /\ <<q>> \o chan[n] # <<>> /\ (<<q>> \o chan[n])[1] = q
  BY <1>3, <1>7, PutFirst
<1>9. chan' \in [Nodes -> Seq(Packets)]
  BY <1>1, <1>4, <1>8
<1>10. TimeTypeOK'
  BY <1>0, <1>1, <1>9 DEF TimeTypeOK
<1>11. TimePlaces'
  <2>1. chan'[n] # <<>> /\ \A m \in Nodes \ {n} : chan'[m] = chan[m]
    BY <1>1, <1>4, <1>8
  <2> QED BY <1>0, <1>1, <1>4, <1>9, <2>1 DEF TimePlaces
<1>12. Tops' = Tops
  BY <1>1, <1>4, TopsSame
<1>13. /\ \A m \in Nodes : SkewAt(m) => SkewAt(m)'
       /\ \A m \in Nodes \ Tops : \A p : GoodPacket(m, p) => GoodPacket(m, p)'
       /\ \A m \in Nodes : StoreAt(m) => StoreAt(m)'
  <2>1. {} \cap Tops = {} /\ \A m \in Nodes \ {} : offset'[m] = offset[m] /\ timeStarted'[m] = timeStarted[m]
    BY <1>1
  <2>2. /\ \A m \in Nodes \ {} : SkewAt(m) => SkewAt(m)'
        /\ \A m \in Nodes \ Tops : \A p : GoodPacket(m, p) => GoodPacket(m, p)'
        /\ \A m \in Nodes \ {} : spc'[m] = spc[m] /\ sync'[m] = sync[m] /\ StoreAt(m) => StoreAt(m)'
    BY <1>0, <1>1, <1>12, <2>1, Still
  <2> QED BY <1>1, <2>2
<1>14. SkewInv'
  <2>1. trusted \subseteq Nodes
    BY <1>0 DEF TimeTypeOK
  <2> QED BY <1>0, <1>1, <1>13, <2>1 DEF SkewInv
<1>15. PacketInv'
  <2>1. ASSUME NEW c \in Nodes \ Tops, NEW p \in Carried(c)' PROVE GoodPacket(c, p)
    <3>1. PICK i \in DOMAIN chan'[c] : p = chan'[c][i]
      BY <2>1 DEF Carried
    <3>2. CASE c = n
      <4>1. chan'[c] = <<q>> \o chan[n]
        BY <1>1, <1>4, <3>2
      <4>2. p = q \/ (i - 1 \in DOMAIN chan[n] /\ p = chan[n][i - 1])
        BY <1>3, <1>7, <3>1, <4>1, PutFirst
      <4>3. p = q \/ p \in Carried(n)
        BY <4>2 DEF Carried
      <4> QED BY <1>0, <1>5, <1>6, <3>2, <4>3 DEF PacketInv, PacketAt
    <3>3. CASE c # n
      <4>1. chan'[c] = chan[c]
        BY <1>1, <1>4, <3>3
      <4>2. p \in Carried(c)
        BY <3>1, <4>1 DEF Carried
      <4> QED BY <1>0, <4>2 DEF PacketInv, PacketAt
    <3> QED BY <3>2, <3>3
  <2> QED BY <1>12, <1>13, <2>1 DEF PacketInv, PacketAt
<1>16. StoreInv'
  BY <1>0, <1>13 DEF StoreInv
<1>17. MeasureInv'
  <2>1. ASSUME NEW m \in measured, m # n PROVE MeasureAt(m)'
    <3>1. m \in Nodes
      BY <1>0, <2>1 DEF TimeTypeOK
    <3>2. MeasureAt(m) /\ chan'[m] = chan[m] /\ link'[m] = link[m]
      BY <1>0, <1>1, <1>4, <2>1, <3>1 DEF MeasureInv
    <3> QED BY <1>1, <3>1, <3>2, MeasureFrame
  <2>2. ASSUME n \in measured PROVE MeasureAt(n)'
    <3>1. link'[n] = "hello" /\ chan'[n][1].age = 0
      BY <1>1, <1>3, <1>4, <1>8
    <3>2. PICK x \in Int : x = now + offset[n] - Grain * t1[n]
      BY <1>0, Kinds, TimeConstants
    <3>3. PICK w \in Int : w = waited[n] /\ w <= MaxAccept
      BY <1>0, TimeConstants DEF TimeTypeOK
    <3>4. Near(x, 0, w + Round)
      BY <1>0, <1>1, <2>2, <3>2, <3>3 DEF MeasureInv, MeasureAt
    <3>5. PICK most \in Int : most = MaxAccept + 0 + Round
      BY TimeConstants
    <3>6. w + Round \in Int /\ w + Round <= most /\ 0 \in Int /\ 0 <= 0
      BY <3>3, <3>5, TimeConstants
    <3>7. Near(x, 0, most)
      BY <3>4, <3>6, NearWider
    <3>8. now' + offset'[n] - Grain * t1'[n] = x /\ MaxAccept + chan'[n][1].age + Round = most
      BY <1>1, <3>1, <3>2, <3>5
    <3> QED BY <3>1, <3>7, <3>8 DEF MeasureAt
  <2> QED BY <1>1, <2>1, <2>2 DEF MeasureInv
<1> QED BY <1>10, <1>11, <1>14, <1>15, <1>16, <1>17 DEF TimeIInv

LEMMA StepSyncRead ==
  ASSUME TimeIInv, NEW n \in Nodes, SyncRead(n)
  PROVE  TimeIInv'
<1>0. TimeTypeOK /\ TimePlaces /\ SkewInv /\ PacketInv /\ StoreInv /\ MeasureInv
  BY DEF TimeIInv
<1> DEFINE p == Head(chan[n])
           y == [now |-> Mod(p.time + parentDelay[n]), real |-> Local(n), age |-> 0, good |-> p.good /\ n \in measured]
<1>1. /\ link[n] = "up" /\ spc[n] = "recv" /\ chan[n] # <<>>
      /\ sync' = [sync EXCEPT ![n] = y] /\ chan' = [chan EXCEPT ![n] = Tail(chan[n])]
      /\ spc' = [spc EXCEPT ![n] = "store"]
      /\ now' = now /\ offset' = offset /\ timeStarted' = timeStarted /\ waited' = waited /\ t1' = t1 /\ link' = link
      /\ parentDelay' = parentDelay /\ trusted' = trusted /\ measured' = measured
  <2>1. sync' = [sync EXCEPT ![n] = y]
    BY DEF SyncRead
  <2>2. /\ link[n] = "up" /\ spc[n] = "recv" /\ chan[n] # <<>>
        /\ chan' = [chan EXCEPT ![n] = Tail(chan[n])] /\ spc' = [spc EXCEPT ![n] = "store"]
    BY DEF SyncRead
  <2>3. /\ now' = now /\ offset' = offset /\ timeStarted' = timeStarted /\ waited' = waited /\ t1' = t1 /\ link' = link
        /\ parentDelay' = parentDelay /\ trusted' = trusted /\ measured' = measured
    BY DEF SyncRead
  <2> QED BY <2>1, <2>2, <2>3
<1> DEFINE Syncs == [now : 0..(Modulus - 1), real : 0..(Modulus - 1), age : 0..MaxDelay, good : BOOLEAN]
<1>2. /\ chan \in [Nodes -> Seq(Packets)] /\ spc \in [Nodes -> {"recv", "store"}] /\ sync \in [Nodes -> Syncs]
      /\ parentDelay \in [Nodes -> 0..(Modulus - 1)]
  BY <1>0 DEF TimeTypeOK, TimePlaces
<1>3. chan[n] \in Seq(Packets)
  BY <1>2
<1>4. /\ Tail(chan[n]) \in Seq(Packets) /\ p \in Packets /\ p \in Carried(n)
      /\ \A i \in DOMAIN Tail(chan[n]) : Tail(chan[n])[i] \in Carried(n)
  BY <1>1, <1>3, TakenFirst DEF Carried
<1>5. n \in Nodes \ Tops
  BY <1>0, <1>1, Kinds
<1>6. parentDelay[n] \in Nat /\ p.time \in Int
  <2>1. parentDelay[n] \in Nat
    BY <1>2, TimeConstants
  <2>2. PICK x \in Packets : x = p
    BY <1>4
  <2>3. x.time \in Int
    BY TimeConstants DEF Packets
  <2> QED BY <2>1, <2>2, <2>3
<1>7. y \in Syncs
  <2>1. p.time + parentDelay[n] \in Int
    BY <1>6
  <2>2. Mod(p.time + parentDelay[n]) \in 0..(Modulus - 1) /\ Local(n) \in 0..(Modulus - 1)
    BY <1>0, <2>1, ModScaled, Kinds
  <2>3. (p.good /\ n \in measured) \in BOOLEAN /\ 0 \in 0..MaxDelay
    BY TimeConstants
  <2> QED BY <2>2, <2>3
<1>8. ASSUME y.good
      PROVE  Near(offset[n] - Grain * y.real + Grain * y.now - Base(Top(n)), -(Depth(n) * Behind), Depth(n) * Ahead)
  <2>1. p.good /\ n \in measured
    BY <1>8
  <2>2. parentDelay[n] <= HalfTrip
    BY <1>0, <1>1, <2>1 DEF MeasureInv, MeasureAt
  <2>3. GoodPacket(n, p)
    BY <1>0, <1>4, <1>5 DEF PacketInv, PacketAt
  <2>4. Near(offset[n] - Grain * Local(n) + Grain * Mod(p.time + parentDelay[n]) - Base(Top(n)),
             -(Depth(n) * Behind), Depth(n) * Ahead)
    BY <1>0, <1>4, <1>5, <1>6, <2>1, <2>2, <2>3, Learned
  <2> QED BY <2>4
<1> HIDE DEF p, y, Syncs
<1>9. sync' \in [Nodes -> Syncs] /\ sync'[n] = y
  BY <1>1, <1>2, <1>7
<1>10. chan' \in [Nodes -> Seq(Packets)] /\ chan'[n] = Tail(chan[n]) /\ \A m \in Nodes \ {n} : chan'[m] = chan[m]
  BY <1>1, <1>2, <1>4
<1>11. TimeTypeOK'
  BY <1>0, <1>1, <1>9, <1>10 DEF TimeTypeOK, Syncs
<1>12. TimePlaces'
  BY <1>0, <1>1, <1>2, <1>10 DEF TimePlaces
<1>13. Tops' = Tops
  BY <1>1, TopsSame
<1>14. /\ \A m \in Nodes : /\ Top(m)' = Top(m) /\ Depth(m)' = Depth(m) /\ Base(Top(m))' = Base(Top(m))
       /\ \A m \in Nodes : SkewAt(m) => SkewAt(m)'
       /\ \A m \in Nodes \ Tops : \A x : GoodPacket(m, x) => GoodPacket(m, x)'
       /\ \A m \in Nodes : spc'[m] = spc[m] /\ sync'[m] = sync[m] /\ StoreAt(m) => StoreAt(m)'
  <2>1. {} \cap Tops = {} /\ \A m \in Nodes \ {} : offset'[m] = offset[m] /\ timeStarted'[m] = timeStarted[m]
    BY <1>1
  <2>2. /\ \A m \in Nodes : /\ Top(m)' = Top(m) /\ Depth(m)' = Depth(m) /\ Base(Top(m))' = Base(Top(m))
        /\ \A m \in Nodes \ {} : SkewAt(m) => SkewAt(m)'
        /\ \A m \in Nodes \ Tops : \A x : GoodPacket(m, x) => GoodPacket(m, x)'
        /\ \A m \in Nodes \ {} : spc'[m] = spc[m] /\ sync'[m] = sync[m] /\ StoreAt(m) => StoreAt(m)'
    BY <1>0, <1>1, <1>13, <2>1, Still
  <2> QED BY <2>2
<1>15. SkewInv'
  <2>1. trusted \subseteq Nodes
    BY <1>0 DEF TimeTypeOK
  <2> QED BY <1>0, <1>1, <1>14, <2>1 DEF SkewInv
<1>16. PacketInv'
  <2>1. ASSUME NEW c \in Nodes \ Tops, NEW x \in Carried(c)' PROVE GoodPacket(c, x)
    <3>1. PICK i \in DOMAIN chan'[c] : x = chan'[c][i]
      BY <2>1 DEF Carried
    <3>2. x \in Carried(c)
      <4>1. CASE c = n
        BY <1>4, <1>10, <3>1, <4>1
      <4>2. CASE c # n
        <5>1. chan'[c] = chan[c]
          BY <1>10, <4>2
        <5> QED BY <3>1, <5>1 DEF Carried
      <4> QED BY <4>1, <4>2
    <3> QED BY <1>0, <3>2 DEF PacketInv, PacketAt
  <2> QED BY <1>13, <1>14, <2>1 DEF PacketInv, PacketAt
<1>17. StoreInv'
  <2>1. ASSUME NEW m \in Nodes, m # n PROVE StoreAt(m)'
    <3>1. spc'[m] = spc[m] /\ sync'[m] = sync[m] /\ StoreAt(m)
      BY <1>0, <1>1, <1>2, <2>1 DEF StoreInv
    <3> QED BY <1>14, <3>1
  <2>2. StoreAt(n)'
    <3>1. SUFFICES ASSUME y.good
                   PROVE  Near(offset'[n] - Grain * sync'[n].real + Grain * sync'[n].now - Base(Top(n))',
                               -(Depth(n)' * Behind), Depth(n)' * Ahead)
      BY <1>9 DEF StoreAt
    <3>2. Near(offset[n] - Grain * y.real + Grain * y.now - Base(Top(n)), -(Depth(n) * Behind), Depth(n) * Ahead)
      BY <1>8, <3>1
    <3>3. Depth(n)' = Depth(n) /\ Base(Top(n))' = Base(Top(n)) /\ offset' = offset
      BY <1>1, <1>14
    <3> QED BY <1>9, <3>2, <3>3
  <2> QED BY <2>1, <2>2 DEF StoreInv
<1>18. MeasureInv'
  <2>1. ASSUME NEW m \in measured PROVE MeasureAt(m)'
    <3>1. m \in Nodes
      BY <1>0, <2>1 DEF TimeTypeOK
    <3>2. MeasureAt(m) /\ (link[m] = "hello" => chan'[m] = chan[m])
      BY <1>0, <1>1, <1>10, <2>1, <3>1 DEF MeasureInv
    <3> QED BY <1>1, <3>1, <3>2, MeasureFrame
  <2> QED BY <1>1, <2>1 DEF MeasureInv
<1> QED BY <1>11, <1>12, <1>15, <1>16, <1>17, <1>18 DEF TimeIInv

LEMMA StepClockMan ==
  ASSUME TimeIInv, NEW n \in Nodes, ClockMan(n)
  PROVE  TimeIInv'
<1>0. TimeTypeOK /\ TimePlaces /\ SkewInv /\ PacketInv /\ StoreInv /\ MeasureInv
  BY DEF TimeIInv
<1> DEFINE q == Packet(Now(n), TRUE)
<1>1. /\ link[n] = "top" /\ Send(n, q)
      /\ now' = now /\ offset' = offset /\ timeStarted' = timeStarted /\ link' = link /\ waited' = waited
      /\ t1' = t1 /\ parentDelay' = parentDelay /\ spc' = spc /\ sync' = sync /\ trusted' = trusted
      /\ measured' = measured
  BY DEF ClockMan
<1>2. q \in Packets
  <2>1. Now(n) \in 0..(Modulus - 1)
    BY <1>0, Kinds
  <2> QED BY <2>1, TimeConstants DEF Packet, Packets
<1>3. n \in Tops
  BY <1>0, <1>1, Kinds
<1>4. ASSUME NEW c \in Nodes \ Tops, Parent[c] = n PROVE GoodPacket(c, q)
  <2>1. Near(offset[n] - Grain * timeStarted[n] - Base(Top(n)), -(Depth(n) * Behind), Depth(n) * Ahead)
    BY <1>0, <1>3, SkewOfTop DEF SkewAt, Base
  <2>2. timeStarted[n] \in Int
    BY <1>0, Kinds
  <2>3. GoodPacket(c, Packet(Mod(Local(n) + Modulus - timeStarted[n]), TRUE))
    BY <1>0, <1>4, <2>1, <2>2, SentGood
  <2> QED BY <2>3 DEF Now
<1> HIDE DEF q
<1>5. /\ chan' \in [Nodes -> Seq(Packets)]
      /\ \A c \in Nodes :
           /\ chan[c] # <<>> => chan'[c] # <<>> /\ chan'[c][1] = chan[c][1]
           /\ \A p \in Carried(c)' : p \in Carried(c) \/ (p = q /\ c \in Nodes \ Tops /\ Parent[c] = n)
  BY <1>0, <1>1, <1>2, SendStep
<1>6. TimeTypeOK'
  BY <1>0, <1>1, <1>5 DEF TimeTypeOK
<1>7. TimePlaces'
  BY <1>0, <1>1, <1>5 DEF TimePlaces
<1>8. Tops' = Tops
  BY <1>1, TopsSame
<1>9. /\ \A m \in Nodes : SkewAt(m) => SkewAt(m)'
      /\ \A m \in Nodes \ Tops : \A p : GoodPacket(m, p) => GoodPacket(m, p)'
      /\ \A m \in Nodes : StoreAt(m) => StoreAt(m)'
  <2>1. {} \cap Tops = {} /\ \A m \in Nodes \ {} : offset'[m] = offset[m] /\ timeStarted'[m] = timeStarted[m]
    BY <1>1
  <2>2. /\ \A m \in Nodes \ {} : SkewAt(m) => SkewAt(m)'
        /\ \A m \in Nodes \ Tops : \A p : GoodPacket(m, p) => GoodPacket(m, p)'
        /\ \A m \in Nodes \ {} : spc'[m] = spc[m] /\ sync'[m] = sync[m] /\ StoreAt(m) => StoreAt(m)'
    BY <1>0, <1>1, <1>8, <2>1, Still
  <2> QED BY <1>1, <2>2
<1>10. SkewInv'
  <2>1. trusted \subseteq Nodes
    BY <1>0 DEF TimeTypeOK
  <2> QED BY <1>0, <1>1, <1>9, <2>1 DEF SkewInv
<1>11. PacketInv'
  <2>1. ASSUME NEW c \in Nodes \ Tops, NEW p \in Carried(c)' PROVE GoodPacket(c, p)
    BY <1>0, <1>4, <1>5 DEF PacketInv, PacketAt
  <2> QED BY <1>8, <1>9, <2>1 DEF PacketInv, PacketAt
<1>12. StoreInv'
  BY <1>0, <1>9 DEF StoreInv
<1>13. MeasureInv'
  <2>1. ASSUME NEW m \in measured PROVE MeasureAt(m)'
    <3>1. m \in Nodes
      BY <1>0, <2>1 DEF TimeTypeOK
    <3>2. MeasureAt(m) /\ (link[m] = "hello" => chan'[m][1] = chan[m][1])
      BY <1>0, <1>5, <2>1, <3>1 DEF MeasureInv, TimePlaces
    <3> QED BY <1>1, <3>1, <3>2, MeasureFrame
  <2> QED BY <1>1, <2>1 DEF MeasureInv
<1> QED BY <1>6, <1>7, <1>10, <1>11, <1>12, <1>13 DEF TimeIInv

LEMMA StepSyncStore ==
  ASSUME TimeIInv, NEW n \in Nodes, SyncStore(n)
  PROVE  TimeIInv'
<1>0. TimeTypeOK /\ TimePlaces /\ SkewInv /\ PacketInv /\ StoreInv /\ MeasureInv
  BY DEF TimeIInv
<1> DEFINE s == Since(sync[n].real, sync[n].now)
           g == sync[n].good
           q == Packet(Stamp(n), g)
<1>1. /\ spc[n] = "store" /\ timeStarted' = [timeStarted EXCEPT ![n] = s] /\ Send(n, q)
      /\ trusted' = IF g THEN trusted \cup {n} ELSE trusted \ {n}
      /\ spc' = [spc EXCEPT ![n] = "recv"] /\ sync' = [sync EXCEPT ![n] = NoSync]
      /\ now' = now /\ offset' = offset /\ link' = link /\ waited' = waited /\ t1' = t1
      /\ parentDelay' = parentDelay /\ measured' = measured
  BY DEF SyncStore
<1> DEFINE Syncs == [now : 0..(Modulus - 1), real : 0..(Modulus - 1), age : 0..MaxDelay, good : BOOLEAN]
<1>2. /\ timeStarted \in [Nodes -> 0..(Modulus - 1)] /\ spc \in [Nodes -> {"recv", "store"}] /\ sync \in [Nodes -> Syncs]
      /\ trusted \subseteq Nodes
  BY <1>0 DEF TimeTypeOK
<1>3. NoSync \in Syncs
  BY TimeConstants DEF NoSync
<1>4. sync[n].real \in Int /\ sync[n].now \in Int /\ g \in BOOLEAN
  <2>1. sync[n] \in Syncs
    BY <1>2
  <2> QED BY <2>1, TimeConstants
<1>5. s \in 0..(Modulus - 1)
  <2>1. sync[n].real + Modulus - sync[n].now \in Int
    BY <1>4, TimeConstants
  <2> QED BY <2>1, ModScaled DEF Since
<1>6. n \in Nodes \ Tops
  BY <1>0, <1>1, Kinds DEF TimePlaces
<1>7. g => Near(offset[n] - Grain * s - Base(Top(n)), -(Depth(n) * Behind), Depth(n) * Ahead)
  <2>1. SUFFICES ASSUME g PROVE Near(offset[n] - Grain * s - Base(Top(n)), -(Depth(n) * Behind), Depth(n) * Ahead)
    OBVIOUS
  <2>2. Near(offset[n] - Grain * sync[n].real + Grain * sync[n].now - Base(Top(n)),
             -(Depth(n) * Behind), Depth(n) * Ahead)
    BY <1>0, <1>1, <2>1 DEF StoreInv, StoreAt
  <2>3. offset[n] \in Int /\ Base(Top(n)) \in Int /\ -(Depth(n) * Behind) \in Int /\ Depth(n) * Ahead \in Int
    BY <1>0, Kinds, Bounds
  <2> QED BY <1>4, <2>2, <2>3, StoredTime
<1>8. timeStarted'[n] = s /\ Stamp(n) = Mod(Local(n) + Modulus - s)
  BY <1>1, <1>2 DEF Stamp
<1>9. q \in Packets
  <2>1. Local(n) + Modulus - s \in Int
    BY <1>0, <1>5, Kinds, TimeConstants
  <2>2. Stamp(n) \in 0..(Modulus - 1)
    BY <1>8, <2>1, ModScaled
  <2> QED BY <1>4, <2>2, TimeConstants DEF Packet, Packets
<1>10. ASSUME NEW c \in Nodes \ Tops, Parent[c] = n PROVE GoodPacket(c, q)
  <2>1. s \in Int
    BY <1>5, TimeConstants
  <2>2. GoodPacket(c, Packet(Mod(Local(n) + Modulus - s), g))
    BY <1>0, <1>7, <1>10, <2>1, SentGood
  <2> QED BY <1>8, <2>2
<1> HIDE DEF s, g, q, Syncs
<1>11. /\ chan' \in [Nodes -> Seq(Packets)]
       /\ \A c \in Nodes :
            /\ chan[c] # <<>> => chan'[c] # <<>> /\ chan'[c][1] = chan[c][1]
            /\ \A p \in Carried(c)' : p \in Carried(c) \/ (p = q /\ c \in Nodes \ Tops /\ Parent[c] = n)
  BY <1>0, <1>1, <1>9, SendStep
<1>12. TimeTypeOK'
  <2>1. timeStarted' \in [Nodes -> 0..(Modulus - 1)]
    BY <1>1, <1>2, <1>5
  <2>2. sync' \in [Nodes -> Syncs]
    BY <1>1, <1>2, <1>3
  <2>3. trusted' \subseteq Nodes /\ spc' \in [Nodes -> {"recv", "store"}]
    BY <1>1, <1>2
  <2> QED BY <1>0, <1>1, <1>11, <2>1, <2>2, <2>3 DEF TimeTypeOK, Syncs
<1>13. TimePlaces'
  BY <1>0, <1>1, <1>2, <1>11 DEF TimePlaces
<1>14. Tops' = Tops
  BY <1>1, TopsSame
<1>15. /\ \A m \in Nodes : /\ Top(m)' = Top(m) /\ Depth(m)' = Depth(m) /\ Base(Top(m))' = Base(Top(m))
       /\ \A m \in Nodes \ {n} : SkewAt(m) => SkewAt(m)'
       /\ \A m \in Nodes \ Tops : \A p : GoodPacket(m, p) => GoodPacket(m, p)'
       /\ \A m \in Nodes \ {n} : spc'[m] = spc[m] /\ sync'[m] = sync[m] /\ StoreAt(m) => StoreAt(m)'
  <2>1. {n} \cap Tops = {} /\ \A m \in Nodes \ {n} : offset'[m] = offset[m] /\ timeStarted'[m] = timeStarted[m]
    BY <1>1, <1>2, <1>6
  <2>2. /\ \A m \in Nodes : /\ Top(m)' = Top(m) /\ Depth(m)' = Depth(m) /\ Base(Top(m))' = Base(Top(m))
        /\ \A m \in Nodes \ {n} : SkewAt(m) => SkewAt(m)'
        /\ now' = now => \A m \in Nodes \ Tops : \A p : GoodPacket(m, p) => GoodPacket(m, p)'
        /\ \A m \in Nodes \ {n} : spc'[m] = spc[m] /\ sync'[m] = sync[m] /\ StoreAt(m) => StoreAt(m)'
    BY <1>0, <1>14, <2>1, Still
  <2> QED BY <1>1, <2>2
<1>16. SkewInv'
  <2>1. ASSUME NEW m \in trusted', m # n PROVE SkewAt(m)'
    BY <1>0, <1>1, <1>2, <1>15, <2>1 DEF SkewInv
  <2>2. ASSUME g PROVE SkewAt(n)'
    <3>1. Near(offset[n] - Grain * s - Base(Top(n)), -(Depth(n) * Behind), Depth(n) * Ahead)
      BY <1>7, <2>2
    <3>2. Base(n)' = offset[n] - Grain * s
      BY <1>1, <1>8 DEF Base
    <3>3. Depth(n)' = Depth(n) /\ Base(Top(n))' = Base(Top(n))
      BY <1>15
    <3> QED BY <3>1, <3>2, <3>3 DEF SkewAt
  <2> QED BY <1>1, <2>1, <2>2 DEF SkewInv
<1>17. PacketInv'
  <2>1. ASSUME NEW c \in Nodes \ Tops, NEW p \in Carried(c)' PROVE GoodPacket(c, p)
    BY <1>0, <1>10, <1>11 DEF PacketInv, PacketAt
  <2> QED BY <1>14, <1>15, <2>1 DEF PacketInv, PacketAt
<1>18. StoreInv'
  <2>1. ASSUME NEW m \in Nodes, m # n PROVE StoreAt(m)'
    <3>1. spc'[m] = spc[m] /\ sync'[m] = sync[m] /\ StoreAt(m)
      BY <1>0, <1>1, <1>2, <2>1 DEF StoreInv
    <3> QED BY <1>15, <2>1, <3>1
  <2>2. StoreAt(n)'
    BY <1>1, <1>2 DEF StoreAt
  <2> QED BY <2>1, <2>2 DEF StoreInv
<1>19. MeasureInv'
  <2>1. ASSUME NEW m \in measured PROVE MeasureAt(m)'
    <3>1. m \in Nodes
      BY <1>0, <2>1 DEF TimeTypeOK
    <3>2. MeasureAt(m) /\ (link[m] = "hello" => chan'[m][1] = chan[m][1])
      BY <1>0, <1>11, <2>1, <3>1 DEF MeasureInv, TimePlaces
    <3> QED BY <1>1, <3>1, <3>2, MeasureFrame
  <2> QED BY <1>1, <2>1 DEF MeasureInv
<1> QED BY <1>12, <1>13, <1>16, <1>17, <1>18, <1>19 DEF TimeIInv

LEMMA StepHello ==
  ASSUME TimeIInv, NEW n \in Nodes \ {Root}, Hello(n)
  PROVE  TimeIInv'
<1>0. TimeTypeOK /\ TimePlaces /\ SkewInv /\ PacketInv /\ StoreInv /\ MeasureInv
  BY DEF TimeIInv
<1> DEFINE d == Mod(Local(n) + Modulus - t1[n]) \div 2
           p == Head(chan[n])
           s == Since(Local(n), Mod(p.time + d))
<1>1. /\ link[n] = "hello" /\ link' = [link EXCEPT ![n] = "up"]
      /\ parentDelay' = [parentDelay EXCEPT ![n] = d] /\ timeStarted' = [timeStarted EXCEPT ![n] = s]
      /\ trusted' = IF p.good /\ n \in measured THEN trusted \cup {n} ELSE trusted \ {n}
      /\ chan' = [chan EXCEPT ![n] = Tail(chan[n])] /\ t1' = [t1 EXCEPT ![n] = 0]
      /\ now' = now /\ offset' = offset /\ waited' = waited /\ spc' = spc /\ sync' = sync /\ measured' = measured
  BY DEF Hello
<1>2. /\ chan \in [Nodes -> Seq(Packets)] /\ timeStarted \in [Nodes -> 0..(Modulus - 1)]
      /\ link \in [Nodes -> {"off", "connect", "hello", "up", "top"}] /\ t1 \in [Nodes -> 0..(Modulus - 1)]
      /\ parentDelay \in [Nodes -> 0..(Modulus - 1)] /\ trusted \subseteq Nodes
      /\ spc \in [Nodes -> {"recv", "store"}]
  BY <1>0 DEF TimeTypeOK, TimePlaces
<1>3. chan[n] \in Seq(Packets) /\ chan[n] # <<>>
  BY <1>0, <1>1, <1>2 DEF TimePlaces
<1>4. /\ Tail(chan[n]) \in Seq(Packets) /\ p = chan[n][1] /\ p \in Packets /\ p \in Carried(n)
      /\ \A i \in DOMAIN Tail(chan[n]) : Tail(chan[n])[i] \in Carried(n)
  BY <1>3, TakenFirst DEF Carried
<1>5. n \in Nodes \ Tops
  BY <1>0, <1>1, Kinds
<1>6. d \in 0..(Modulus - 1) /\ d \in Nat
  <2>1. Local(n) + Modulus - t1[n] \in Int
    BY <1>0, Kinds, TimeConstants
  <2>2. Mod(Local(n) + Modulus - t1[n]) \in 0..(Modulus - 1)
    BY <2>1, ModScaled
  <2>3. PICK u \in Nat : u = Mod(Local(n) + Modulus - t1[n]) /\ u <= Modulus - 1
    BY <2>2, TimeConstants
  <2>4. u \div 2 \in Nat /\ u \div 2 <= u
    OBVIOUS
  <2>5. d = u \div 2
    BY <2>3
  <2> QED BY <2>3, <2>4, <2>5, TimeConstants
<1>7. ASSUME n \in measured PROVE d <= HalfTrip
  <2>1. PICK x \in Int : x = now + offset[n]
    BY <1>0, Kinds
  <2>2. PICK w \in Int : w = MaxAccept + chan[n][1].age + Round /\ w <= MaxAccept + MaxDelay + Round
    <3>1. chan[n][1] \in Packets
      BY <1>4
    <3>2. chan[n][1].age \in 0..MaxDelay
      BY <3>1 DEF Packets
    <3> QED BY <3>2, TimeConstants
  <2>3. Near(now + offset[n] - Grain * t1[n], 0, MaxAccept + chan[n][1].age + Round)
    BY <1>0, <1>1, <1>7 DEF MeasureInv, MeasureAt
  <2>4. Near(x - Grain * t1[n], 0, w)
    <3>1. Near(now + offset[n] - Grain * t1[n], 0, w)
      BY <2>2, <2>3, Zenon
    <3>2. x - Grain * t1[n] = now + offset[n] - Grain * t1[n]
      BY <1>0, <2>1, Kinds, TimeConstants
    <3> QED BY <3>1, <3>2, Zenon
  <2>5. Local(n) = Face(x) /\ t1[n] \in Int
    BY <1>0, <2>1, Kinds
  <2>6. Mod(Face(x) + Modulus - t1[n]) \div 2 <= HalfTrip
    BY <2>2, <2>4, <2>5, MeasuredTime
  <2> QED BY <2>5, <2>6
<1>8. Local(n) \in Int /\ Mod(p.time + d) \in Int /\ s \in 0..(Modulus - 1)
  <2>1. Local(n) \in Int
    BY <1>0, Kinds, TimeConstants
  <2>2. p.time + d \in Int
    BY <1>4, <1>6, TimeConstants DEF Packets
  <2>3. Mod(p.time + d) \in Int
    BY <2>2, ModScaled, TimeConstants
  <2>4. Local(n) + Modulus - Mod(p.time + d) \in Int
    BY <2>1, <2>3, TimeConstants
  <2> QED BY <2>1, <2>3, <2>4, ModScaled DEF Since
<1>9. ASSUME p.good, n \in measured
      PROVE  Near(offset[n] - Grain * s - Base(Top(n)), -(Depth(n) * Behind), Depth(n) * Ahead)
  <2>1. GoodPacket(n, p)
    BY <1>0, <1>4, <1>5 DEF PacketInv, PacketAt
  <2>2. Near(offset[n] - Grain * Local(n) + Grain * Mod(p.time + d) - Base(Top(n)),
             -(Depth(n) * Behind), Depth(n) * Ahead)
    BY <1>0, <1>4, <1>5, <1>6, <1>7, <1>9, <2>1, Learned
  <2>3. offset[n] \in Int /\ Base(Top(n)) \in Int /\ -(Depth(n) * Behind) \in Int /\ Depth(n) * Ahead \in Int
    BY <1>0, Kinds, Bounds
  <2> QED BY <1>8, <2>2, <2>3, StoredTime
<1> HIDE DEF d, p, s
<1>10. chan' \in [Nodes -> Seq(Packets)] /\ chan'[n] = Tail(chan[n]) /\ \A m \in Nodes \ {n} : chan'[m] = chan[m]
  BY <1>1, <1>2, <1>4
<1>11. TimeTypeOK'
  <2>1. timeStarted' \in [Nodes -> 0..(Modulus - 1)] /\ parentDelay' \in [Nodes -> 0..(Modulus - 1)]
    BY <1>1, <1>2, <1>6, <1>8
  <2>2. t1' \in [Nodes -> 0..(Modulus - 1)]
    BY <1>1, <1>2, TimeConstants
  <2>3. trusted' \subseteq Nodes /\ link' \in [Nodes -> {"off", "connect", "hello", "up", "top"}]
    BY <1>1, <1>2
  <2> QED BY <1>0, <1>1, <1>10, <2>1, <2>2, <2>3 DEF TimeTypeOK
<1>12. TimePlaces'
  BY <1>0, <1>1, <1>2, <1>10 DEF TimePlaces
<1>13. Tops' = Tops
  BY <1>1, <1>2, TopsSame
<1>14. /\ \A m \in Nodes : /\ Top(m)' = Top(m) /\ Depth(m)' = Depth(m) /\ Base(Top(m))' = Base(Top(m))
       /\ \A m \in Nodes \ {n} : SkewAt(m) => SkewAt(m)'
       /\ \A m \in Nodes \ Tops : \A x : GoodPacket(m, x) => GoodPacket(m, x)'
       /\ \A m \in Nodes \ {n} : spc'[m] = spc[m] /\ sync'[m] = sync[m] /\ StoreAt(m) => StoreAt(m)'
  <2>1. {n} \cap Tops = {} /\ \A m \in Nodes \ {n} : offset'[m] = offset[m] /\ timeStarted'[m] = timeStarted[m]
    BY <1>1, <1>2, <1>5
  <2>2. /\ \A m \in Nodes : /\ Top(m)' = Top(m) /\ Depth(m)' = Depth(m) /\ Base(Top(m))' = Base(Top(m))
        /\ \A m \in Nodes \ {n} : SkewAt(m) => SkewAt(m)'
        /\ now' = now => \A m \in Nodes \ Tops : \A x : GoodPacket(m, x) => GoodPacket(m, x)'
        /\ \A m \in Nodes \ {n} : spc'[m] = spc[m] /\ sync'[m] = sync[m] /\ StoreAt(m) => StoreAt(m)'
    BY <1>0, <1>13, <2>1, Still
  <2> QED BY <1>1, <2>2
<1>15. SkewInv'
  <2>1. ASSUME NEW m \in trusted', m # n PROVE SkewAt(m)'
    BY <1>0, <1>1, <1>2, <1>14, <2>1 DEF SkewInv
  <2>2. ASSUME p.good /\ n \in measured PROVE SkewAt(n)'
    <3>1. Near(offset[n] - Grain * s - Base(Top(n)), -(Depth(n) * Behind), Depth(n) * Ahead)
      BY <1>9, <2>2
    <3>2. Base(n)' = offset[n] - Grain * s
      BY <1>1, <1>2 DEF Base
    <3>3. Depth(n)' = Depth(n) /\ Base(Top(n))' = Base(Top(n))
      BY <1>14
    <3> QED BY <3>1, <3>2, <3>3 DEF SkewAt
  <2> QED BY <1>1, <2>1, <2>2 DEF SkewInv
<1>16. PacketInv'
  <2>1. ASSUME NEW c \in Nodes \ Tops, NEW x \in Carried(c)' PROVE GoodPacket(c, x)
    <3>1. PICK i \in DOMAIN chan'[c] : x = chan'[c][i]
      BY <2>1 DEF Carried
    <3>2. x \in Carried(c)
      <4>1. CASE c = n
        BY <1>4, <1>10, <3>1, <4>1
      <4>2. CASE c # n
        <5>1. chan'[c] = chan[c]
          BY <1>10, <4>2
        <5> QED BY <3>1, <5>1 DEF Carried
      <4> QED BY <4>1, <4>2
    <3> QED BY <1>0, <3>2 DEF PacketInv, PacketAt
  <2> QED BY <1>13, <1>14, <2>1 DEF PacketInv, PacketAt
<1>17. StoreInv'
  <2>1. ASSUME NEW m \in Nodes, m # n PROVE StoreAt(m)'
    <3>1. spc'[m] = spc[m] /\ sync'[m] = sync[m] /\ StoreAt(m)
      BY <1>0, <1>1, <2>1 DEF StoreInv
    <3> QED BY <1>14, <2>1, <3>1
  <2>2. StoreAt(n)'
    <3>1. spc'[n] # "store"
      BY <1>0, <1>1 DEF TimePlaces
    <3> QED BY <3>1 DEF StoreAt
  <2> QED BY <2>1, <2>2 DEF StoreInv
<1>18. MeasureInv'
  <2>1. ASSUME NEW m \in measured, m # n PROVE MeasureAt(m)'
    <3>1. m \in Nodes
      BY <1>0, <2>1 DEF TimeTypeOK
    <3>2. MeasureAt(m) /\ chan'[m] = chan[m] /\ link'[m] = link[m] /\ t1'[m] = t1[m] /\ parentDelay'[m] = parentDelay[m]
      BY <1>0, <1>1, <1>2, <1>10, <2>1, <3>1 DEF MeasureInv
    <3> QED BY <1>1, <3>1, <3>2, MeasureFrame
  <2>2. ASSUME n \in measured PROVE MeasureAt(n)'
    <3>1. link'[n] = "up" /\ parentDelay'[n] = d
      BY <1>1, <1>2
    <3> QED BY <1>7, <2>2, <3>1 DEF MeasureAt
  <2> QED BY <1>1, <2>1, <2>2 DEF MeasureInv
<1> QED BY <1>11, <1>12, <1>15, <1>16, <1>17, <1>18 DEF TimeIInv

LEMMA StepSetClock ==
  ASSUME TimeIInv, NEW n \in Restless, NEW by \in Jumps, SetClock(n, by)
  PROVE  TimeIInv'
<1>0. TimeTypeOK /\ TimePlaces /\ SkewInv /\ PacketInv /\ StoreInv /\ MeasureInv
  BY DEF TimeIInv
<1> DEFINE o == (offset[n] + by) % (Modulus * Grain)
<1>1. /\ steps < MaxSteps /\ steps' = steps + 1 /\ link' = link
      /\ offset' = [offset EXCEPT ![n] = o]
      /\ measured' = IF Runs(n) THEN measured ELSE measured \ {n}
      /\ IF link[n] = "top"
         THEN trusted' = trusted \ Below(n) /\ Void(Below(n))
         ELSE trusted' = trusted \ {n} /\ sync' = [sync EXCEPT ![n] = Bad(sync[n])] /\ chan' = chan
      /\ now' = now /\ timeStarted' = timeStarted /\ waited' = waited /\ t1' = t1
      /\ parentDelay' = parentDelay /\ spc' = spc
  BY DEF SetClock
<1>2. n \in Nodes /\ by \in Int
  BY TimeConstants
<1> DEFINE Syncs == [now : 0..(Modulus - 1), real : 0..(Modulus - 1), age : 0..MaxDelay, good : BOOLEAN]
<1>3. /\ offset \in [Nodes -> 0..(Modulus * Grain - 1)] /\ sync \in [Nodes -> Syncs]
      /\ trusted \subseteq Nodes /\ measured \subseteq Nodes /\ chan \in [Nodes -> Seq(Packets)]
      /\ link \in [Nodes -> {"off", "connect", "hello", "up", "top"}]
  BY <1>0 DEF TimeTypeOK, TimePlaces
<1>4. offset' \in [Nodes -> 0..(Modulus * Grain - 1)] /\ \A m \in Nodes \ {n} : offset'[m] = offset[m]
  <2>1. offset[n] + by \in Int
    BY <1>0, <1>2, Kinds
  <2>2. o \in 0..(Modulus * Grain - 1)
    BY <2>1, CycleTurn
  <2> HIDE DEF o
  <2> QED BY <1>1, <1>3, <2>2
<1> HIDE DEF o, Syncs
<1>5. Tops' = Tops
  BY <1>1, TopsSame
<1>6. CASE link[n] # "top"
  <2>1. n \in Nodes \ Tops
    BY <1>0, <1>2, <1>6, Kinds
  <2>2. trusted' = trusted \ {n} /\ sync' = [sync EXCEPT ![n] = Bad(sync[n])] /\ chan' = chan
    BY <1>1, <1>6
  <2>3. sync' \in [Nodes -> Syncs] /\ ~sync'[n].good /\ \A m \in Nodes \ {n} : sync'[m] = sync[m]
    <3>1. ASSUME NEW y \in Syncs PROVE Bad(y) \in Syncs /\ ~Bad(y).good
      BY DEF Bad, Syncs
    <3> QED BY <1>2, <1>3, <2>2, <3>1
  <2>4. TimeTypeOK'
    BY <1>0, <1>1, <1>3, <1>4, <2>2, <2>3 DEF TimeTypeOK, Syncs
  <2>5. TimePlaces'
    BY <1>0, <1>1, <2>2 DEF TimePlaces
  <2>6. /\ \A m \in Nodes \ {n} : SkewAt(m) => SkewAt(m)'
        /\ \A m \in Nodes \ Tops : \A x : GoodPacket(m, x) => GoodPacket(m, x)'
        /\ \A m \in Nodes \ {n} : spc'[m] = spc[m] /\ sync'[m] = sync[m] /\ StoreAt(m) => StoreAt(m)'
    <3>1. {n} \cap Tops = {} /\ \A m \in Nodes \ {n} : offset'[m] = offset[m] /\ timeStarted'[m] = timeStarted[m]
      BY <1>1, <1>4, <2>1
    <3>2. /\ \A m \in Nodes \ {n} : SkewAt(m) => SkewAt(m)'
          /\ now' = now => \A m \in Nodes \ Tops : \A x : GoodPacket(m, x) => GoodPacket(m, x)'
          /\ \A m \in Nodes \ {n} : spc'[m] = spc[m] /\ sync'[m] = sync[m] /\ StoreAt(m) => StoreAt(m)'
      BY <1>0, <1>5, <3>1, Still
    <3> QED BY <1>1, <3>2
  <2>7. SkewInv'
    BY <1>0, <1>3, <2>2, <2>6 DEF SkewInv
  <2>8. PacketInv'
    <3>1. ASSUME NEW c \in Nodes \ Tops PROVE PacketAt(c)'
      <4>1. Carried(c)' = Carried(c)
        BY <2>2 DEF Carried
      <4> QED BY <1>0, <2>6, <3>1, <4>1 DEF PacketInv, PacketAt
    <3> QED BY <1>5, <3>1 DEF PacketInv
  <2>9. StoreInv'
    <3>1. ASSUME NEW m \in Nodes, m # n PROVE StoreAt(m)'
      BY <1>0, <1>1, <2>3, <2>6, <3>1 DEF StoreInv
    <3>2. StoreAt(n)'
      BY <2>3 DEF StoreAt
    <3> QED BY <3>1, <3>2 DEF StoreInv
  <2>10. MeasureInv'
    <3>1. ASSUME NEW m \in measured', m # n PROVE MeasureAt(m)'
      <4>1. m \in Nodes /\ m \in measured
        BY <1>1, <1>3, <3>1
      <4>2. MeasureAt(m) /\ offset'[m] = offset[m]
        BY <1>0, <1>4, <3>1, <4>1 DEF MeasureInv
      <4> QED BY <1>1, <2>2, <4>1, <4>2, MeasureFrame
    <3>2. ASSUME n \in measured' PROVE MeasureAt(n)'
      <4>1. n \in measured /\ link[n] = "up"
        BY <1>1, <1>6, <3>2 DEF Runs
      <4>2. parentDelay[n] <= HalfTrip
        BY <1>0, <4>1 DEF MeasureInv, MeasureAt
      <4>3. link'[n] = "up" /\ parentDelay'[n] = parentDelay[n]
        BY <1>1, <4>1
      <4> QED BY <4>2, <4>3 DEF MeasureAt
    <3> QED BY <3>1, <3>2 DEF MeasureInv
  <2> QED BY <2>4, <2>5, <2>7, <2>8, <2>9, <2>10 DEF TimeIInv
<1>7. CASE link[n] = "top"
  <2>1. n \in Tops
    BY <1>0, <1>2, <1>7, Kinds
  <2>2. trusted' = trusted \ Below(n) /\ Void(Below(n)) /\ measured' = measured
    BY <1>1, <1>7 DEF Runs
  <2>3. /\ chan' \in [Nodes -> Seq(Packets)]
        /\ sync' \in [Nodes -> Syncs]
        /\ \A c \in Nodes :
             /\ chan[c] # <<>> /\ link'[c] # "top" => chan'[c] # <<>> /\ chan'[c][1].age = chan[c][1].age
             /\ \A p \in Carried(c)' : (p \in Carried(c) /\ c \notin Below(n)) \/ ~p.good
             /\ (sync'[c] = sync[c] /\ c \notin Below(n)) \/ ~sync'[c].good
    BY <1>0, <2>2, VoidStep DEF Syncs
  <2>4. TimeTypeOK'
    <3>1. trusted' \subseteq Nodes
      BY <1>3, <2>2
    <3> QED BY <1>0, <1>1, <1>4, <2>2, <2>3, <3>1 DEF TimeTypeOK, Syncs
  <2>5. TimePlaces'
    <3>1. ASSUME NEW c \in Nodes, link'[c] = "hello" PROVE chan'[c] # <<>>
      BY <1>0, <1>1, <2>3, <3>1 DEF TimePlaces
    <3> QED BY <1>0, <1>1, <2>3, <3>1 DEF TimePlaces
  <2>6. \A m \in Nodes : Top(m)' = Top(m) /\ Depth(m)' = Depth(m)
    BY <1>5, TopsKept
  <2>7. ASSUME NEW m \in Nodes, m # n, m \notin Below(n)
        PROVE  Base(m)' = Base(m) /\ Base(Top(m))' = Base(Top(m))
    <3>1. Base(m)' = Base(m)
      BY <1>1, <1>4, <2>7, BaseFrame
    <3>2. n \notin Way(m, Tops)
      BY <1>2, <2>7 DEF Below
    <3>3. Top(m) # n /\ Top(m) \in Nodes
      BY <3>2, TopFacts
    <3>4. offset'[Top(m)] = offset[Top(m)] /\ timeStarted'[Top(m)] = timeStarted[Top(m)]
      BY <1>1, <1>4, <3>3
    <3> QED BY <2>6, <3>1, <3>4, TopBaseFrame
  <2>8. SkewInv'
    <3>1. ASSUME NEW m \in trusted', m # n PROVE SkewAt(m)'
      <4>1. m \in Nodes /\ m \notin Below(n) /\ SkewAt(m)
        BY <1>0, <1>3, <2>2, <3>1 DEF SkewInv
      <4> QED BY <2>6, <2>7, <3>1, <4>1, SkewFrame
    <3>2. SkewAt(n)'
      <4>1. Top(n)' = n /\ Depth(n)' = 0
        BY <1>2, <2>1, <2>6, TopFacts
      <4>2. Base(Top(n))' = Base(n)'
        BY <4>1 DEF Base
      <4>3. Base(n)' \in Int
        <5>1. offset'[n] \in Int /\ timeStarted'[n] \in Int
          BY <1>1, <1>2, <2>4, TimeConstants DEF TimeTypeOK
        <5> QED BY <5>1, TimeConstants DEF Base
      <4> QED BY <4>1, <4>2, <4>3, NearSelf DEF SkewAt
    <3> QED BY <3>1, <3>2 DEF SkewInv
  <2>9. PacketInv'
    <3>1. ASSUME NEW c \in Nodes \ Tops, NEW p \in Carried(c)' PROVE GoodPacket(c, p)'
      <4>1. CASE ~p.good
        BY <4>1 DEF GoodPacket
      <4>2. CASE p \in Carried(c) /\ c \notin Below(n)
        <5>1. GoodPacket(c, p)
          BY <1>0, <4>2 DEF PacketInv, PacketAt
        <5>2. c # n /\ Parent[c] \in Nodes
          BY <2>1, TopFacts
        <5>3. Top(c)' = Top(c) /\ Depth(Parent[c])' = Depth(Parent[c]) /\ Base(Top(c))' = Base(Top(c)) /\ now' = now
          BY <1>1, <2>6, <2>7, <4>2, <5>2
        <5> QED BY <5>1, <5>3, GoodFrame
      <4> QED BY <2>3, <4>1, <4>2
    <3> QED BY <1>5, <3>1 DEF PacketInv, PacketAt
  <2>10. StoreInv'
    <3>1. ASSUME NEW m \in Nodes PROVE StoreAt(m)'
      <4>1. CASE ~sync'[m].good
        BY <4>1 DEF StoreAt
      <4>2. CASE m = n
        <5>1. spc'[n] # "store"
          BY <1>0, <1>1, <1>2, <1>7 DEF TimePlaces
        <5> QED BY <4>2, <5>1 DEF StoreAt
      <4>3. CASE m # n /\ sync'[m] = sync[m] /\ m \notin Below(n)
        <5>1. /\ StoreAt(m) /\ offset'[m] = offset[m] /\ spc'[m] = spc[m]
              /\ Top(m)' = Top(m) /\ Depth(m)' = Depth(m) /\ Base(Top(m))' = Base(Top(m))
          BY <1>0, <1>1, <1>4, <2>6, <2>7, <4>3 DEF StoreInv
        <5> QED BY <4>3, <5>1, StoreFrame
      <4> QED BY <2>3, <4>1, <4>2, <4>3
    <3> QED BY <3>1 DEF StoreInv
  <2>11. MeasureInv'
    <3>1. ASSUME NEW m \in measured PROVE MeasureAt(m)'
      <4>1. m \in Nodes
        BY <1>3, <3>1
      <4>2. CASE m = n
        BY <1>1, <1>7, <4>2 DEF MeasureAt
      <4>3. CASE m # n
        <5>1. MeasureAt(m) /\ offset'[m] = offset[m]
          BY <1>0, <1>4, <3>1, <4>1, <4>3 DEF MeasureInv
        <5>2. link[m] = "hello" => chan'[m][1].age = chan[m][1].age
          BY <1>0, <1>1, <2>3, <4>1 DEF TimePlaces
        <5> QED BY <1>1, <4>1, <5>1, <5>2, MeasureFrame
      <4> QED BY <4>2, <4>3
    <3> QED BY <2>2, <3>1 DEF MeasureInv
  <2> QED BY <2>4, <2>5, <2>8, <2>9, <2>10, <2>11 DEF TimeIInv
<1> QED BY <1>6, <1>7

\* Clipboards that are not below the new root keep their reference.
LEMMA NewRoot ==
  ASSUME NEW n \in Nodes \ Tops, Tops' = Tops \cup {n}
  PROVE  /\ \A m \in Nodes \ (Below(n) \cup {n}) :
              /\ Top(m)' = Top(m) /\ Depth(m)' = Depth(m) /\ Top(m) # n
              /\ m \notin Tops => Depth(Parent[m])' = Depth(Parent[m])
         /\ Top(n)' = n /\ Depth(n)' = 0
<1>1. Root \in Tops /\ Root \in Tops'
  BY TopFacts
<1>2. ASSUME NEW m \in Nodes, n \notin Way(m, Tops)
      PROVE  Top(m)' = Top(m) /\ Depth(m)' = Depth(m) /\ Top(m) # n
  <2>1. Way(m, Tops \cup {n}) = Way(m, Tops)
    BY <1>1, <1>2, WayKept
  <2>2. Way(m, Tops \cup {n}) \cap (Tops \cup {n}) = Way(m, Tops) \cap Tops
    BY <1>2, <2>1
  <2>3. TopIn(m, Tops \cup {n}) = TopIn(m, Tops)
    BY <2>2, Zenon DEF TopIn
  <2>4. DepthIn(m, Tops \cup {n}) = DepthIn(m, Tops)
    BY <2>1, Zenon DEF DepthIn
  <2>5. Top(m)' = TopIn(m, Tops \cup {n}) /\ Depth(m)' = DepthIn(m, Tops \cup {n})
    BY TopNext
  <2>6. Top(m) = TopIn(m, Tops) /\ Depth(m) = DepthIn(m, Tops) /\ Top(m) \in Way(m, Tops)
    BY TopFacts
  <2>7. Top(m)' = Top(m)
    BY <2>3, <2>5, <2>6
  <2>8. Depth(m)' = Depth(m)
    BY <2>4, <2>5, <2>6
  <2> QED BY <1>2, <2>6, <2>7, <2>8
<1>3. ASSUME NEW m \in Nodes \ (Below(n) \cup {n}) PROVE n \notin Way(m, Tops)
  BY <1>3 DEF Below
<1>4. ASSUME NEW m \in Nodes \ (Below(n) \cup {n}), m \notin Tops PROVE Depth(Parent[m])' = Depth(Parent[m])
  <2>1. Parent[m] \in Nodes /\ Way(m, Tops) = {m} \cup Way(Parent[m], Tops)
    BY <1>1, <1>4, WayOfChild
  <2>2. n \notin Way(Parent[m], Tops)
    BY <1>3, <1>4, <2>1
  <2> QED BY <1>2, <2>1, <2>2
<1>5. Top(n)' = n /\ Depth(n)' = 0
  <2>1. n \in Tops' /\ n \in Nodes
    OBVIOUS
  <2>2. TopIn(n, Tops') = n /\ DepthIn(n, Tops') = 0
    BY <1>1, <2>1, TopParts
  <2> QED BY <2>2, TopNext
<1> QED BY <1>2, <1>3, <1>4, <1>5

LEMMA StepBecomeRoot ==
  ASSUME TimeIInv, NEW n \in Nodes \ {Root}, BecomeRoot(n)
  PROVE  TimeIInv'
<1>0. TimeTypeOK /\ TimePlaces /\ SkewInv /\ PacketInv /\ StoreInv /\ MeasureInv
  BY DEF TimeIInv
<1> DEFINE N == Below(n) \cup {n}
<1>1. /\ link[n] = "up" /\ spc[n] = "recv" /\ link' = [link EXCEPT ![n] = "top"]
      /\ trusted' = (trusted \ Below(n)) \cup {n} /\ Void(N)
      /\ now' = now /\ offset' = offset /\ timeStarted' = timeStarted /\ waited' = waited /\ t1' = t1
      /\ parentDelay' = parentDelay /\ spc' = spc /\ measured' = measured
  BY DEF BecomeRoot
<1> DEFINE Syncs == [now : 0..(Modulus - 1), real : 0..(Modulus - 1), age : 0..MaxDelay, good : BOOLEAN]
<1>2. /\ link \in [Nodes -> {"off", "connect", "hello", "up", "top"}] /\ trusted \subseteq Nodes /\ measured \subseteq Nodes
  BY <1>0 DEF TimeTypeOK
<1>3. n \in Nodes \ Tops
  BY <1>0, <1>1, Kinds
<1>4. Tops' = Tops \cup {n}
  BY <1>1, <1>2 DEF Tops
<1>5. n \in N
  OBVIOUS
<1>6. /\ \A m \in Nodes \ N :
           /\ Top(m)' = Top(m) /\ Depth(m)' = Depth(m) /\ Top(m) # n
           /\ m \notin Tops => Depth(Parent[m])' = Depth(Parent[m])
      /\ Top(n)' = n /\ Depth(n)' = 0
  BY <1>3, <1>4, NewRoot
<1> HIDE DEF N, Syncs
<1>7. /\ chan' \in [Nodes -> Seq(Packets)]
      /\ sync' \in [Nodes -> Syncs]
      /\ \A c \in Nodes :
           /\ chan[c] # <<>> /\ link'[c] # "top" => chan'[c] # <<>> /\ chan'[c][1].age = chan[c][1].age
           /\ \A p \in Carried(c)' : (p \in Carried(c) /\ c \notin N) \/ ~p.good
           /\ (sync'[c] = sync[c] /\ c \notin N) \/ ~sync'[c].good
  BY <1>0, <1>1, VoidStep DEF Syncs
<1>8. TimeTypeOK'
  <2>1. trusted' \subseteq Nodes /\ link' \in [Nodes -> {"off", "connect", "hello", "up", "top"}]
    BY <1>1, <1>2
  <2> QED BY <1>0, <1>1, <1>7, <2>1 DEF TimeTypeOK, Syncs
<1>9. TimePlaces'
  <2>1. ASSUME NEW c \in Nodes, link'[c] = "hello" PROVE chan'[c] # <<>>
    BY <1>0, <1>1, <1>2, <1>7, <2>1 DEF TimePlaces
  <2>2. ASSUME NEW c \in Nodes, spc'[c] = "store" PROVE link'[c] = "up"
    BY <1>0, <1>1, <1>2, <2>2 DEF TimePlaces
  <2>3. ASSUME NEW c \in Nodes, link'[c] = "off" PROVE waited'[c] = 0
    BY <1>0, <1>1, <1>2, <2>3 DEF TimePlaces
  <2>4. link'[Root] = "top"
    BY <1>0, <1>1, <1>2 DEF TimePlaces
  <2> QED BY <1>7, <2>1, <2>2, <2>3, <2>4 DEF TimePlaces
<1>10. ASSUME NEW m \in Nodes \ N PROVE Base(m)' = Base(m) /\ Base(Top(m))' = Base(Top(m))
  <2>1. Base(m)' = Base(m)
    BY <1>1, BaseFrame
  <2>2. Base(Top(m))' = Base(Top(m))
    BY <1>1, <1>6, <1>10, TopBaseFrame
  <2> QED BY <2>1, <2>2
<1>11. SkewInv'
  <2>1. ASSUME NEW m \in trusted', m # n PROVE SkewAt(m)'
    <3>1. m \in Nodes \ N /\ SkewAt(m)
      BY <1>0, <1>1, <1>2, <2>1 DEF SkewInv, N
    <3> QED BY <1>6, <1>10, <3>1, SkewFrame
  <2>2. SkewAt(n)'
    <3>1. Base(Top(n))' = Base(n)'
      BY <1>6 DEF Base
    <3>2. Base(n)' \in Int
      <4>1. offset'[n] \in Int /\ timeStarted'[n] \in Int
        BY <1>1, <1>3, <1>8, TimeConstants DEF TimeTypeOK
      <4> QED BY <4>1, TimeConstants DEF Base
    <3> QED BY <1>6, <3>1, <3>2, NearSelf DEF SkewAt
  <2> QED BY <2>1, <2>2 DEF SkewInv
<1>12. PacketInv'
  <2>1. ASSUME NEW c \in Nodes \ Tops', NEW p \in Carried(c)' PROVE GoodPacket(c, p)'
    <3>1. CASE ~p.good
      BY <3>1 DEF GoodPacket
    <3>2. CASE p \in Carried(c) /\ c \notin N
      <4>1. c \in Nodes \ Tops
        BY <1>4
      <4>2. GoodPacket(c, p)
        BY <1>0, <3>2, <4>1 DEF PacketInv, PacketAt
      <4>3. Top(c)' = Top(c) /\ Depth(Parent[c])' = Depth(Parent[c]) /\ Base(Top(c))' = Base(Top(c)) /\ now' = now
        BY <1>1, <1>6, <1>10, <3>2, <4>1
      <4> QED BY <4>1, <4>2, <4>3, GoodFrame
    <3> QED BY <1>7, <3>1, <3>2
  <2> QED BY <2>1 DEF PacketInv, PacketAt
<1>13. StoreInv'
  <2>1. ASSUME NEW m \in Nodes PROVE StoreAt(m)'
    <3>1. CASE ~sync'[m].good
      BY <3>1 DEF StoreAt
    <3>2. CASE sync'[m] = sync[m] /\ m \notin N
      <4>1. /\ StoreAt(m) /\ offset'[m] = offset[m] /\ spc'[m] = spc[m]
            /\ Top(m)' = Top(m) /\ Depth(m)' = Depth(m) /\ Base(Top(m))' = Base(Top(m))
        BY <1>0, <1>1, <1>6, <1>10, <3>2 DEF StoreInv
      <4> QED BY <3>2, <4>1, StoreFrame
    <3> QED BY <1>7, <3>1, <3>2
  <2> QED BY <2>1 DEF StoreInv
<1>14. MeasureInv'
  <2>1. ASSUME NEW m \in measured PROVE MeasureAt(m)'
    <3>1. m \in Nodes
      BY <1>2, <2>1
    <3>2. CASE m = n
      <4>1. link'[m] = "top"
        BY <1>1, <1>2, <3>1, <3>2
      <4> QED BY <4>1 DEF MeasureAt
    <3>3. CASE m # n
      <4>1. MeasureAt(m) /\ link'[m] = link[m]
        BY <1>0, <1>1, <1>2, <2>1, <3>1, <3>3 DEF MeasureInv
      <4>2. link[m] = "hello" => chan'[m][1].age = chan[m][1].age
        BY <1>0, <1>7, <3>1, <4>1 DEF TimePlaces
      <4> QED BY <1>1, <3>1, <4>1, <4>2, MeasureFrame
    <3> QED BY <3>2, <3>3
  <2> QED BY <1>1, <2>1 DEF MeasureInv
<1> QED BY <1>8, <1>9, <1>11, <1>12, <1>13, <1>14 DEF TimeIInv

\* Time passes, and the packet gets older.
LEMMA AgedGood ==
  ASSUME TimeTypeOK, TimePlaces, NEW n \in Nodes \ Tops, NEW p \in Packets, GoodPacket(n, p),
         now' = (now + 1) % (Modulus * Grain), Top(n)' = Top(n),
         Depth(Parent[n])' = Depth(Parent[n]), Base(Top(n))' = Base(Top(n))
  PROVE  GoodPacket(n, Older(p))'
<1>1. Older(p).good = p.good /\ Older(p).time = p.time /\ Older(p).age = p.age + 1
  BY DEF Older, Packets
<1>2. SUFFICES ASSUME p.good
               PROVE  Near(Grain * p.time - now' - Base(Top(n)),
                           -(Depth(Parent[n]) * Behind + Round + (p.age + 1)), Depth(Parent[n]) * Ahead)
  BY <1>1 DEF GoodPacket
<1>3. PICK b \in Int : b = Base(Top(n))
  BY Kinds
<1>4. PICK x \in Int : x = now
  BY Kinds
<1>5. PICK t \in Int : t = p.time
  BY TimeConstants DEF Packets
<1>6. PICK a \in Int : a = p.age
  BY TimeConstants DEF Packets
<1>7. PICK L \in Int : L = Depth(Parent[n]) * Behind
  BY Bounds
<1>8. PICK H \in Int : H = Depth(Parent[n]) * Ahead
  BY Bounds
<1>9. PICK low \in Int : low = -(L + Round + a)
  BY TimeConstants
<1>10. PICK low2 \in Int : low2 = -(L + Round + (a + 1))
  BY TimeConstants
<1>11. Near(Grain * t - x - b, low, H)
  BY <1>2, <1>3, <1>4, <1>5, <1>6, <1>7, <1>8, <1>9 DEF GoodPacket
<1>12. PICK z \in Int : z = now' /\ \E q \in Int : z = x + 1 + q * Cycle
  <2>1. x + 1 \in Int
    OBVIOUS
  <2>2. now' = (x + 1) % (Modulus * Grain)
    BY <1>4
  <2>3. now' \in 0..(Modulus * Grain - 1) /\ \E q \in Int : now' = x + 1 + q * Cycle
    BY <2>1, <2>2, CycleTurn
  <2> QED BY <2>3
<1>13. PICK q \in Int : z = x + 1 + q * Cycle
  BY <1>12
<1>14. PICK j \in Int : j = -q
  OBVIOUS
<1>15. PICK one \in Int : one = -1
  OBVIOUS
<1>16. PICK u \in Int : u = Grain * t - x - b
  BY TimeConstants
<1>17. PICK v \in Int : v = Grain * t - z - b
  BY TimeConstants
<1>18. v = u + j * Cycle + one
  <2>1. PICK c \in Int : c = Cycle
    BY TimeConstants
  <2>2. j * c = -(q * c)
    BY <1>14
  <2> QED BY <1>13, <1>15, <1>16, <1>17, <2>1, <2>2, TimeConstants
<1>19. low2 <= low + one /\ H + one <= H
  BY <1>9, <1>10, <1>15, TimeConstants
<1>20. Near(u, low, H)
  BY <1>11, <1>16
<1>21. Near(v, low2, H)
  BY <1>18, <1>19, <1>20, NearStep
<1> QED BY <1>3, <1>5, <1>6, <1>7, <1>8, <1>10, <1>12, <1>17, <1>21

\* Time passes, and what is measured gets longer.
LEMMA AgedMeasure ==
  ASSUME TimeTypeOK, TimePlaces, NEW n \in Nodes, NEW w \in Int, Near(now + offset[n] - Grain * t1[n], 0, w),
         now' = (now + 1) % (Modulus * Grain)
  PROVE  Near(now' + offset[n] - Grain * t1[n], 0, w + 1)
<1>1. PICK x \in Int : x = now
  BY Kinds
<1>2. PICK o \in Int : o = offset[n]
  BY Kinds
<1>3. PICK s \in Int : s = t1[n]
  BY Kinds
<1>4. PICK z \in Int : z = now' /\ \E q \in Int : z = x + 1 + q * Cycle
  <2>1. x + 1 \in Int
    OBVIOUS
  <2>2. now' = (x + 1) % (Modulus * Grain)
    BY <1>1
  <2>3. now' \in 0..(Modulus * Grain - 1) /\ \E q \in Int : now' = x + 1 + q * Cycle
    BY <2>1, <2>2, CycleTurn
  <2> QED BY <2>3
<1>5. PICK q \in Int : z = x + 1 + q * Cycle
  BY <1>4
<1>6. PICK u \in Int : u = x + o - Grain * s
  BY TimeConstants
<1>7. PICK v \in Int : v = z + o - Grain * s
  BY TimeConstants
<1>8. PICK one \in Int : one = 1
  OBVIOUS
<1>9. v = u + q * Cycle + one
  <2>1. PICK c \in Int : c = q * Cycle
    BY TimeConstants
  <2> QED BY <1>5, <1>6, <1>7, <1>8, <2>1, TimeConstants
<1>10. Near(u, 0, w)
  BY <1>1, <1>2, <1>3, <1>6
<1>11. PICK zero \in Int : zero = 0
  OBVIOUS
<1>12. zero <= zero + one /\ w + one <= w + 1 /\ w + 1 \in Int
  BY <1>8, <1>11
<1>13. Near(u, zero, w)
  BY <1>10, <1>11
<1>14. Near(v, zero, w + 1)
  BY <1>9, <1>12, <1>13, NearStep
<1> QED BY <1>2, <1>3, <1>4, <1>7, <1>11, <1>14

LEMMA StepTick ==
  ASSUME TimeIInv, Tick
  PROVE  TimeIInv'
<1>0. TimeTypeOK /\ TimePlaces /\ SkewInv /\ PacketInv /\ StoreInv /\ MeasureInv
  BY DEF TimeIInv
<1>1. /\ \A n \in Nodes : \A i \in DOMAIN chan[n] : chan[n][i].age < MaxDelay
      /\ \A n \in Nodes : spc[n] = "store" => sync[n].age < MaxDelay
      /\ \A n \in Nodes : link[n] = "connect" => waited[n] < MaxAccept
      /\ now' = (now + 1) % (Modulus * Grain)
      /\ waited' = [n \in Nodes |-> IF link[n] = "connect" THEN waited[n] + 1 ELSE 0]
      /\ chan' = [n \in Nodes |-> [i \in DOMAIN chan[n] |-> Older(chan[n][i])]]
      /\ sync' = [n \in Nodes |-> IF spc[n] = "store" THEN Older(sync[n]) ELSE sync[n]]
      /\ offset' = offset /\ timeStarted' = timeStarted /\ link' = link /\ t1' = t1 /\ parentDelay' = parentDelay
      /\ spc' = spc /\ trusted' = trusted /\ measured' = measured
  BY DEF Tick
<1> DEFINE Syncs == [now : 0..(Modulus - 1), real : 0..(Modulus - 1), age : 0..MaxDelay, good : BOOLEAN]
<1>2. /\ sync \in [Nodes -> Syncs] /\ trusted \subseteq Nodes /\ measured \subseteq Nodes
      /\ chan \in [Nodes -> Seq(Packets)] /\ waited \in [Nodes -> 0..MaxAccept]
  BY <1>0 DEF TimeTypeOK, TimePlaces
<1>3. ASSUME NEW n \in Nodes
      PROVE  /\ chan'[n] \in Seq(Packets) /\ DOMAIN chan'[n] = DOMAIN chan[n]
             /\ \A i \in DOMAIN chan[n] : chan[n][i] \in Packets /\ chan'[n][i] = Older(chan[n][i])
             /\ chan[n] # <<>> => chan'[n] # <<>> /\ 1 \in DOMAIN chan[n]
  <2>1. chan[n] \in Seq(Packets) /\ chan'[n] = [i \in DOMAIN chan[n] |-> Older(chan[n][i])]
    BY <1>1, <1>2
  <2>2. chan'[n] = [i \in DOMAIN chan[n] |-> chan'[n][i]] /\ \A i \in DOMAIN chan[n] : chan'[n][i] = Older(chan[n][i])
    BY <2>1
  <2>3. \A i \in DOMAIN chan[n] : chan[n][i] \in Packets
    BY <2>1, ElementOfSeq, LenProperties
  <2>4. ASSUME NEW p \in Packets, p.age < MaxDelay PROVE Older(p) \in Packets
    BY <2>4, TimeConstants DEF Older, Packets
  <2>5. \A i \in DOMAIN chan[n] : chan'[n][i] \in Packets
    BY <1>1, <2>2, <2>3, <2>4
  <2> QED BY <2>1, <2>2, <2>3, <2>5, MappedSeq
<1>4. chan' \in [Nodes -> Seq(Packets)]
  <2>1. chan' = [n \in Nodes |-> chan'[n]]
    BY <1>1
  <2> QED BY <1>3, <2>1
<1>5. ASSUME NEW n \in Nodes
      PROVE  sync'[n] \in Syncs /\ sync'[n].good = sync[n].good /\ sync'[n].now = sync[n].now /\ sync'[n].real = sync[n].real
  <2>1. sync[n] \in Syncs
    BY <1>2
  <2>2. CASE spc[n] = "store"
    <3>1. sync[n].age < MaxDelay /\ sync'[n] = Older(sync[n])
      BY <1>1, <2>2
    <3>2. /\ Older(sync[n]).age = sync[n].age + 1 /\ Older(sync[n]).good = sync[n].good
          /\ Older(sync[n]).now = sync[n].now /\ Older(sync[n]).real = sync[n].real
          /\ Older(sync[n]) \in Syncs
      BY <2>1, <3>1, TimeConstants DEF Older
    <3> QED BY <3>1, <3>2
  <2>3. CASE spc[n] # "store"
    BY <1>1, <2>1, <2>3
  <2> QED BY <2>2, <2>3
<1>6. sync' \in [Nodes -> Syncs]
  <2>1. sync' = [n \in Nodes |-> sync'[n]]
    BY <1>1
  <2> HIDE DEF Syncs
  <2> QED BY <1>5, <2>1
<1> HIDE DEF Syncs
<1>7. TimeTypeOK'
  <2>1. now + 1 \in Int
    BY <1>0, TimeConstants DEF TimeTypeOK
  <2>2. now' \in 0..(Modulus * Grain - 1)
    BY <1>1, <2>1, CycleTurn
  <2>3. waited' \in [Nodes -> 0..MaxAccept]
    BY <1>1, <1>2, TimeConstants
  <2> QED BY <1>0, <1>1, <1>4, <1>6, <2>2, <2>3 DEF TimeTypeOK, Syncs
<1>8. TimePlaces'
  BY <1>0, <1>1, <1>3, <1>4 DEF TimePlaces
<1>9. Tops' = Tops
  BY <1>1, TopsSame
<1>10. /\ \A m \in Nodes : /\ Top(m)' = Top(m) /\ Depth(m)' = Depth(m)
                           /\ Base(Top(m))' = Base(Top(m))
                           /\ m \notin Tops => Depth(Parent[m])' = Depth(Parent[m])
       /\ \A m \in Nodes : SkewAt(m) => SkewAt(m)'
  <2>1. {} \cap Tops = {} /\ \A m \in Nodes \ {} : offset'[m] = offset[m] /\ timeStarted'[m] = timeStarted[m]
    BY <1>1
  <2>2. /\ \A m \in Nodes : /\ Top(m)' = Top(m) /\ Depth(m)' = Depth(m)
                            /\ Base(Top(m))' = Base(Top(m))
                            /\ m \notin Tops => Depth(Parent[m])' = Depth(Parent[m])
        /\ \A m \in Nodes \ {} : SkewAt(m) => SkewAt(m)'
    BY <1>0, <1>9, <2>1, Still
  <2> QED BY <2>2
<1>11. SkewInv'
  BY <1>0, <1>1, <1>2, <1>10 DEF SkewInv
<1>12. PacketInv'
  <2>1. ASSUME NEW c \in Nodes \ Tops, NEW p \in Carried(c)' PROVE GoodPacket(c, p)'
    <3>1. PICK i \in DOMAIN chan'[c] : p = chan'[c][i]
      BY <2>1 DEF Carried
    <3>2. chan[c][i] \in Packets /\ p = Older(chan[c][i]) /\ chan[c][i] \in Carried(c)
      BY <1>3, <3>1 DEF Carried
    <3>3. PICK x \in Packets : x = chan[c][i]
      BY <3>2
    <3>4. GoodPacket(c, x)
      BY <1>0, <3>2, <3>3 DEF PacketInv, PacketAt
    <3>5. GoodPacket(c, Older(x))'
      BY <1>0, <1>1, <1>10, <3>4, AgedGood
    <3> QED BY <3>2, <3>3, <3>5
  <2> QED BY <1>9, <2>1 DEF PacketInv, PacketAt
<1>13. StoreInv'
  <2>1. ASSUME NEW m \in Nodes PROVE StoreAt(m)'
    <3>1. StoreAt(m)
      BY <1>0 DEF StoreInv
    <3> QED BY <1>1, <1>5, <1>10, <3>1 DEF StoreAt
  <2> QED BY <2>1 DEF StoreInv
<1>14. MeasureInv'
  <2>1. ASSUME NEW m \in measured PROVE MeasureAt(m)'
    <3>1. m \in Nodes /\ MeasureAt(m)
      BY <1>0, <1>2, <2>1 DEF MeasureInv
    <3>2. CASE link[m] = "connect"
      <4>1. PICK w \in Int : w = waited[m] + Round
        BY <1>2, <3>1, TimeConstants
      <4>2. Near(now' + offset[m] - Grain * t1[m], 0, w + 1)
        BY <1>0, <1>1, <3>1, <3>2, <4>1, AgedMeasure DEF MeasureAt
      <4>3. waited'[m] + Round = w + 1
        <5>1. waited'[m] = waited[m] + 1 /\ waited[m] \in 0..MaxAccept
          BY <1>1, <1>2, <3>1, <3>2
        <5> QED BY <4>1, <5>1, TimeConstants
      <4>4. link'[m] = "connect" /\ offset' = offset /\ t1' = t1
        BY <1>1, <3>2
      <4>5. Near(now' + offset'[m] - Grain * t1'[m], 0, waited'[m] + Round)
        BY <4>2, <4>3, <4>4
      <4> QED BY <4>4, <4>5 DEF MeasureAt
    <3>3. CASE link[m] = "hello"
      <4>1. chan[m][1] \in Packets /\ chan'[m][1] = Older(chan[m][1])
        BY <1>0, <1>3, <3>1, <3>3 DEF TimePlaces
      <4>2. PICK a \in Int : a = chan[m][1].age /\ chan'[m][1].age = a + 1
        <5>1. PICK p \in Packets : p = chan[m][1]
          BY <4>1
        <5>2. p.age \in Int /\ Older(p).age = p.age + 1
          BY TimeConstants DEF Packets, Older
        <5> QED BY <4>1, <5>1, <5>2
      <4>3. PICK w \in Int : w = MaxAccept + a + Round
        BY TimeConstants
      <4>4. Near(now + offset[m] - Grain * t1[m], 0, w)
        BY <3>1, <3>3, <4>2, <4>3 DEF MeasureAt
      <4>5. Near(now' + offset[m] - Grain * t1[m], 0, w + 1)
        BY <1>0, <1>1, <3>1, <4>4, AgedMeasure
      <4>6. MaxAccept + chan'[m][1].age + Round = w + 1
        BY <4>2, <4>3, TimeConstants
      <4>7. link'[m] = "hello" /\ offset' = offset /\ t1' = t1
        BY <1>1, <3>3
      <4> QED BY <4>5, <4>6, <4>7 DEF MeasureAt
    <3>4. CASE link[m] \notin {"connect", "hello"}
      BY <1>1, <3>1, <3>4 DEF MeasureAt
    <3> QED BY <3>2, <3>3, <3>4
  <2> QED BY <1>1, <2>1 DEF MeasureInv
<1> QED BY <1>7, <1>8, <1>11, <1>12, <1>13, <1>14 DEF TimeIInv

LEMMA StepNothing ==
  ASSUME TimeIInv, UNCHANGED timeVars
  PROVE  TimeIInv'
<1>0. TimeTypeOK /\ TimePlaces /\ SkewInv /\ PacketInv /\ StoreInv /\ MeasureInv
  BY DEF TimeIInv
<1>1. /\ now' = now /\ offset' = offset /\ timeStarted' = timeStarted /\ link' = link /\ t1' = t1 /\ waited' = waited
      /\ parentDelay' = parentDelay /\ chan' = chan /\ spc' = spc /\ sync' = sync /\ trusted' = trusted
      /\ measured' = measured
  BY DEF timeVars
<1>2. TimeTypeOK' /\ TimePlaces'
  BY <1>0, <1>1 DEF TimeTypeOK, TimePlaces
<1>3. trusted \subseteq Nodes /\ measured \subseteq Nodes
  BY <1>0 DEF TimeTypeOK
<1>4. Tops' = Tops
  BY <1>1, TopsSame
<1>5. /\ \A m \in Nodes : SkewAt(m) => SkewAt(m)'
      /\ \A m \in Nodes \ Tops : \A p : GoodPacket(m, p) => GoodPacket(m, p)'
      /\ \A m \in Nodes : StoreAt(m) => StoreAt(m)'
  <2>1. {} \cap Tops = {} /\ \A m \in Nodes \ {} : offset'[m] = offset[m] /\ timeStarted'[m] = timeStarted[m]
    BY <1>1
  <2>2. /\ \A m \in Nodes \ {} : SkewAt(m) => SkewAt(m)'
        /\ \A m \in Nodes \ Tops : \A p : GoodPacket(m, p) => GoodPacket(m, p)'
        /\ \A m \in Nodes \ {} : spc'[m] = spc[m] /\ sync'[m] = sync[m] /\ StoreAt(m) => StoreAt(m)'
    BY <1>0, <1>1, <1>4, <2>1, Still
  <2> QED BY <1>1, <2>2
<1>6. SkewInv' /\ StoreInv'
  BY <1>0, <1>1, <1>3, <1>5 DEF SkewInv, StoreInv
<1>7. PacketInv'
  <2>1. ASSUME NEW c \in Nodes \ Tops PROVE PacketAt(c)'
    <3>1. Carried(c)' = Carried(c)
      BY <1>1 DEF Carried
    <3> QED BY <1>0, <1>5, <2>1, <3>1 DEF PacketInv, PacketAt
  <2> QED BY <1>4, <2>1 DEF PacketInv
<1>8. MeasureInv'
  <2>1. ASSUME NEW m \in measured PROVE MeasureAt(m)'
    <3>1. m \in Nodes /\ MeasureAt(m)
      BY <1>0, <1>3, <2>1 DEF MeasureInv
    <3> QED BY <1>1, <3>1, MeasureFrame
  <2> QED BY <1>1, <2>1 DEF MeasureInv
<1> QED BY <1>2, <1>6, <1>7, <1>8 DEF TimeIInv
-----------------------------------------------------------------------------
(* The theorems.                                                           *)

\* At the start only the root has a time, its own, and nobody is on the way.
THEOREM TimeStart == TimeInit => TimeIInv
<1> SUFFICES ASSUME TimeInit PROVE TimeIInv
  OBVIOUS
<1>1. now = 0 /\ 0 \in 0..(Modulus * Grain - 1) /\ 0 \in 0..(Modulus - 1) /\ 0 \in 0..MaxAccept
  BY TimeConstants, CycleTurn DEF TimeInit, Cycle
<1>2. <<>> \in Seq(Packets)
  BY EmptySeq
<1>3. TimeTypeOK
  <2>1. NoSync \in [now : 0..(Modulus - 1), real : 0..(Modulus - 1), age : 0..MaxDelay, good : BOOLEAN]
    BY TimeConstants DEF NoSync
  <2>2. offset \in [Nodes -> 0..(Modulus * Grain - 1)]
    BY TimeAssumption DEF TimeInit
  <2> QED BY <1>1, <1>2, <2>1, <2>2, TimeConstants DEF TimeInit, TimeTypeOK
<1>4. TimePlaces
  BY <1>2, TimeConstants DEF TimeInit, TimePlaces
<1>5. SkewInv
  <2>1. Root \in Tops
    BY TimeConstants DEF Tops
  <2> QED BY <1>3, <1>4, <2>1, SkewOfTop DEF TimeInit, SkewInv
<1>6. PacketInv
  <2>1. DOMAIN <<>> = {}
    BY EmptySeq
  <2>2. \A n \in Nodes : Carried(n) = {}
    BY <2>1 DEF TimeInit, Carried
  <2> QED BY <2>2 DEF PacketInv, PacketAt
<1>7. StoreInv
  BY DEF TimeInit, StoreInv, StoreAt
<1>8. MeasureInv
  BY DEF TimeInit, MeasureInv, MeasureAt
<1> QED BY <1>3, <1>4, <1>5, <1>6, <1>7, <1>8 DEF TimeIInv

\* Every step keeps the invariant.
THEOREM TimeStep == TimeIInv /\ [TimeNext]_timeVars => TimeIInv'
<1> SUFFICES ASSUME TimeIInv, [TimeNext]_timeVars PROVE TimeIInv'
  OBVIOUS
<1>1. CASE Tick
  BY <1>1, StepTick
<1>2. ASSUME NEW n \in Restless, NEW by \in Jumps, SetClock(n, by) PROVE TimeIInv'
  BY <1>2, StepSetClock
<1>3. ASSUME NEW n \in Nodes \ {Root}, Connect(n) \/ Accept(n) \/ Hello(n) \/ BecomeRoot(n) PROVE TimeIInv'
  BY <1>3, StepConnect, StepAccept, StepHello, StepBecomeRoot
<1>4. ASSUME NEW n \in Nodes, ClockMan(n) \/ Slave(n) PROVE TimeIInv'
  BY <1>4, StepClockMan, StepSyncRead, StepSyncStore DEF Slave
<1>5. CASE UNCHANGED timeVars
  BY <1>5, StepNothing
<1> QED BY <1>1, <1>2, <1>3, <1>4, <1>5 DEF TimeNext

\* Every good time, in a packet (clipif.c:63-68), between reading the clock and storing it
\* (time.c:14-17) or stored, is as near to that of the root as its distance allows.
THEOREM TimeInvariant == TimeSpec => []TimeIInv
BY TimeStart, TimeStep, PTL DEF TimeSpec

\* Unsigned arithmetic stays in its range, and packets keep their types.
THEOREM TimeTypes == TimeSpec => []TimeTypeOK
BY TimeInvariant, PTL DEF TimeIInv

\* SkewBound from the invariant: steps rounded to seconds, of clocks that wrap around at
\* different moments (time.c:20-28).
THEOREM TimeSkewBound == TimeSpec => []SkewBound
<1>1. TimeIInv => SkewBound
  <2> SUFFICES ASSUME TimeIInv, NEW n \in trusted
               PROVE  LET skew == Mod(Now(n) + Modulus - Now(Top(n)))
                      IN skew <= Seconds(Depth(n), Ahead) \/ skew >= Modulus - Seconds(Depth(n), Behind)
    BY DEF SkewBound
  <2>1. TimeTypeOK /\ TimePlaces /\ SkewAt(n) /\ n \in Nodes
    BY DEF TimeIInv, SkewInv, TimeTypeOK
  <2>2. Top(n) \in Nodes
    BY <2>1, TopFacts
  <2>3. PICK x \in Int : x = now
    BY <2>1, Kinds
  <2>4. PICK low \in Nat : low = Depth(n) * Behind
    BY <2>1, Bounds
  <2>5. PICK high \in Nat : high = Depth(n) * Ahead
    BY <2>1, Bounds
  <2>6. PICK a \in Int : a = Now(n)
    BY <2>1, Kinds, TimeConstants
  <2>7. PICK b \in Int : b = Now(Top(n))
    BY <2>1, <2>2, Kinds, TimeConstants
  <2>8. PICK base \in Int : base = Base(Top(n))
    BY <2>1, Kinds
  <2>9. Near(Grain * a - x - base, -low - Round, high)
    <3>1. offset[n] \in Int /\ timeStarted[n] \in Int
      BY <2>1, Kinds
    <3>2. a = Mod(Face(x + offset[n]) + Modulus - timeStarted[n])
      BY <2>1, <2>3, <2>6, Kinds
    <3>3. Near(offset[n] - Grain * timeStarted[n] - base, -low, high)
      BY <2>1, <2>4, <2>5, <2>8 DEF SkewAt, Base
    <3>4. -low \in Int
      OBVIOUS
    <3> QED BY <3>1, <3>2, <3>3, <3>4, SentTime
  <2>10. \E q \in Int : \E r \in 0..Round : Grain * b = x + base + q * Cycle - r
    <3>1. PICK o \in Int : o = offset[Top(n)]
      BY <2>1, <2>2, Kinds
    <3>2. PICK s \in Int : s = timeStarted[Top(n)]
      BY <2>1, <2>2, Kinds
    <3>3. PICK f \in Int : f = Face(x + o)
      BY FaceStep
    <3>4. b = Mod(f + Modulus - s)
      BY <2>1, <2>2, <2>3, <2>7, <3>1, <3>2, <3>3, Kinds
    <3>5. PICK q \in Int : \E r \in 0..Round : Grain * f = x + o + q * Cycle - r
      BY <3>3, FaceStep
    <3>6. PICK r \in 0..Round : Grain * f = x + o + q * Cycle - r
      BY <3>5
    <3>7. PICK m \in Int : m = Modulus
      BY TimeConstants
    <3>8. PICK g \in Int : g = Grain
      BY TimeConstants
    <3>9. PICK y \in Int : y = f + m - s
      OBVIOUS
    <3>10. PICK p \in Int : Grain * Mod(y) = Grain * y + p * Cycle
      BY ModScaled
    <3>11. PICK c \in Int : c = Cycle /\ c = m * g
      BY <3>7, <3>8, TimeConstants DEF Cycle
    <3>12. PICK j \in Int : j = q + p + 1
      OBVIOUS
    <3>13. base = o - g * s
      BY <2>8, <3>1, <3>2, <3>8 DEF Base
    <3>14. g * b = x + base + j * c - r
      <4>1. g * f = x + o + q * c - r
        BY <3>6, <3>8, <3>11
      <4>2. g * b = g * y + p * c
        BY <3>4, <3>7, <3>8, <3>9, <3>10, <3>11
      <4>3. g * y = g * f + c - g * s
        BY <3>9, <3>11
      <4>4. j * c = q * c + p * c + c
        BY <3>12
      <4> QED BY <3>13, <4>1, <4>2, <4>3, <4>4, TimeConstants
    <3> QED BY <3>8, <3>11, <3>14
  <2>11. PICK q \in Int : \E r \in 0..Round : Grain * b = x + base + q * Cycle - r
    BY <2>10
  <2>12. PICK r \in 0..Round : Grain * b = x + base + q * Cycle - r
    BY <2>11
  <2>13. PICK u \in Int : u = a + Modulus - b
    BY TimeConstants
  <2>14. PICK lo \in Nat : lo = low + Round
    BY TimeConstants
  <2>15. PICK hi \in Nat : hi = high + Round
    BY TimeConstants
  <2>16. Near(Grain * u, -lo, hi)
    <3>1. PICK g \in Int : g = Grain
      BY TimeConstants
    <3>2. PICK c \in Int : c = Cycle
      BY TimeConstants
    <3>3. PICK j \in Int : j = 1 - q
      OBVIOUS
    <3>4. PICK v \in Int : v = g * u
      OBVIOUS
    <3>5. PICK w \in Int : w = g * a - x - base
      OBVIOUS
    <3>6. PICK low2 \in Int : low2 = -low - Round
      BY TimeConstants
    <3>7. PICK low3 \in Int : low3 = -lo
      OBVIOUS
    <3>8. v = w + j * c + r
      <4>1. g * b = x + base + q * c - r
        BY <2>12, <3>1, <3>2
      <4>2. g * u = g * a + c - g * b
        <5>1. PICK m \in Int : m = Modulus
          BY TimeConstants
        <5>2. c = m * g /\ u = a + m - b
          BY <2>13, <3>1, <3>2, <5>1 DEF Cycle
        <5> QED BY <5>2
      <4>3. j * c = c - q * c
        BY <3>3
      <4> QED BY <3>4, <3>5, <4>1, <4>2, <4>3, TimeConstants
    <3>9. PICK e \in Int : e = r
      BY TimeConstants
    <3>10. low3 <= low2 + e /\ high + e <= hi
      BY <2>14, <2>15, <3>6, <3>7, <3>9, TimeConstants
    <3>11. v = w + j * Cycle + e
      BY <3>2, <3>8, <3>9
    <3>12. high \in Int /\ hi \in Int
      OBVIOUS
    <3>13. Near(w, low2, high)
      BY <2>9, <3>1, <3>5, <3>6
    <3>14. Near(v, low3, hi)
      BY <3>13, <3>10, <3>11, <3>12, NearStep
    <3> QED BY <3>1, <3>4, <3>7, <3>14
  <2>17. Mod(u) <= hi \div Grain \/ Mod(u) >= Modulus - (lo \div Grain)
    BY <2>16, Rounded
  <2>18. hi \div Grain = Seconds(Depth(n), Ahead) /\ lo \div Grain = Seconds(Depth(n), Behind)
    BY <2>4, <2>5, <2>14, <2>15 DEF Seconds
  <2>19. Mod(u) = Mod(Now(n) + Modulus - Now(Top(n)))
    BY <2>6, <2>7, <2>13
  <2> QED BY <2>17, <2>18, <2>19
<1> QED BY <1>1, TimeInvariant, PTL
=============================================================================
