--------------------------- MODULE ListenerProofs ---------------------------
(***************************************************************************)
(* The invariants of Listener and Mdns, for any number of objects, ports,  *)
(* addresses and protocols.                                                *)
(***************************************************************************)
EXTENDS Listener, FiniteSetTheorems, WellFoundedInduction, TLAPS

-----------------------------------------------------------------------------
(* The two lists.                                                          *)

OnceIn(s) == \A j, k \in 1 .. Len(s) : s[j] = s[k] => j = k
In(l, s) == \E k \in 1 .. Len(s) : s[k] = l

\* s has each of the objects 1 .. n, once.
Enumerates(s, n) ==
  /\ s \in Seq(1 .. n) /\ Len(s) = n
  /\ OnceIn(s)
  /\ \A l \in 1 .. n : In(l, s)

\* What ListsPartition says of a list that enumerates the objects.
LEMMA EnumeratesAll ==
  ASSUME NEW n \in Nat, NEW s, Enumerates(s, n)
  PROVE  Len(s) = n /\ ToSet(s) = 1 .. n
<1>1. DOMAIN s = 1 .. n /\ \A k \in 1 .. n : s[k] \in 1 .. n
  BY DEF Enumerates
<1>2. ToSet(s) \subseteq 1 .. n
  BY <1>1 DEF ToSet
<1>3. ASSUME NEW l \in 1 .. n PROVE l \in ToSet(s)
  <2>1. PICK k \in 1 .. n : s[k] = l
    BY DEF Enumerates, In
  <2> QED BY <1>1, <2>1 DEF ToSet
<1> QED BY <1>2, <1>3 DEF Enumerates

\* Two empty lists enumerate no objects.
LEMMA EmptyEnumerates == Enumerates(<<>> \o <<>>, 0)
BY DEF Enumerates, In, OnceIn

\* t is s in the order p, whose inverse is q.
Permutes(t, s, p, q, c) ==
  /\ p \in [1 .. c -> 1 .. c] /\ q \in [1 .. c -> 1 .. c]
  /\ \A k \in 1 .. c : q[p[k]] = k
  /\ \A k \in 1 .. c : p[q[k]] = k
  /\ \A k \in 1 .. c : t[k] = s[p[k]]

\* A list in another order has the same members.
LEMMA PermutedEnumerates ==
  ASSUME NEW c \in Nat, NEW s, Enumerates(s, c),
         NEW t \in Seq(1 .. c), Len(t) = c,
         NEW p, NEW q, Permutes(t, s, p, q, c)
  PROVE  Enumerates(t, c)
<1> USE DEF Permutes
<1>1. ASSUME NEW j \in 1 .. c, NEW k \in 1 .. c, t[j] = t[k] PROVE j = k
  <2>1. p[j] \in 1 .. c /\ p[k] \in 1 .. c /\ s[p[j]] = s[p[k]]
    BY <1>1
  <2>2. p[j] = p[k]
    BY <2>1 DEF Enumerates, OnceIn
  <2> QED BY <2>2
<1>2. ASSUME NEW l \in 1 .. c PROVE In(l, t)
  <2>1. PICK m \in 1 .. c : s[m] = l
    BY DEF Enumerates, In
  <2>2. q[m] \in 1 .. c /\ t[q[m]] = l
    BY <2>1
  <2> QED BY <2>2 DEF In
<1> QED BY <1>1, <1>2 DEF Enumerates, OnceIn

\* t is s with the first n of its first N members moved behind the others of
\* those, in reverse order.
Moved(t, s, N, n) ==
  /\ \A k \in 1 .. N - n : t[k] = s[n + k]
  /\ \A k \in 1 .. n : t[(N - n) + k] = s[(n - k) + 1]
  /\ \A k \in N + 1 .. Len(s) : t[k] = s[k]

\* Moving loses and repeats none.
LEMMA MovedEnumerates ==
  ASSUME NEW c \in Nat, NEW N \in 0 .. c, NEW n \in 0 .. N,
         NEW s, Enumerates(s, c),
         NEW t \in Seq(1 .. c), Len(t) = c, Moved(t, s, N, n)
  PROVE  Enumerates(t, c)
<1>0. /\ \A k \in 1 .. N - n : t[k] = s[n + k]
      /\ \A k \in 1 .. n : t[(N - n) + k] = s[(n - k) + 1]
      /\ \A k \in N + 1 .. c : t[k] = s[k]
  BY DEF Moved, Enumerates
<1> DEFINE p == [k \in 1 .. c |-> IF k <= N - n THEN n + k
                                  ELSE IF k <= N THEN (N - k) + 1 ELSE k]
           q == [k \in 1 .. c |-> IF k <= n THEN (N - k) + 1
                                  ELSE IF k <= N THEN k - n ELSE k]
<1>1. ASSUME NEW k \in 1 .. c PROVE t[k] = s[p[k]]
  <2>1. CASE k <= N - n
    BY <1>0, <2>1
  <2>2. CASE N - n < k /\ k <= N
    <3>1. /\ k - (N - n) \in 1 .. n
          /\ (N - n) + (k - (N - n)) = k
          /\ (n - (k - (N - n))) + 1 = (N - k) + 1
      BY <2>2
    <3>2. t[k] = s[(N - k) + 1]
      BY <1>0, <3>1
    <3>3. p[k] = (N - k) + 1
      BY <2>2
    <3> QED BY <3>2, <3>3
  <2>3. CASE N < k
    <3>1. k \in N + 1 .. c /\ p[k] = k
      BY <2>3
    <3> QED BY <1>0, <3>1
  <2> QED BY <2>1, <2>2, <2>3
<1>2. p \in [1 .. c -> 1 .. c]
  OBVIOUS
<1>3. q \in [1 .. c -> 1 .. c]
  OBVIOUS
<1>4. \A k \in 1 .. c : q[p[k]] = k
  OBVIOUS
<1>5. \A k \in 1 .. c : p[q[k]] = k
  OBVIOUS
<1> HIDE DEF p, q
<1>6. Permutes(t, s, p, q, c)
  BY <1>1, <1>2, <1>3, <1>4, <1>5 DEF Permutes
<1> QED BY <1>6, PermutedEnumerates

\* The members of two lists that are joined.
LEMMA Joined ==
  ASSUME NEW T, NEW x \in Seq(T), NEW y \in Seq(T), NEW z, z = x \o y
  PROVE  /\ z \in Seq(T) /\ Len(z) = Len(x) + Len(y)
         /\ \A k \in 1 .. Len(x) : z[k] = x[k]
         /\ \A k \in 1 .. Len(y) : z[Len(x) + k] = y[k]
<1>1. z \in Seq(T) /\ Len(z) = Len(x) + Len(y)
  OBVIOUS
<1>2. ASSUME NEW k \in 1 .. Len(x) PROVE z[k] = x[k]
  OBVIOUS
<1>3. ASSUME NEW k \in 1 .. Len(y) PROVE z[Len(x) + k] = y[k]
  OBVIOUS
<1> QED BY <1>1, <1>2, <1>3

\* The members n + 1 .. Len(a) of a, and the others in reverse order.
Rest(a, n) == SubSeq(a, n + 1, Len(a))
Turned(a, n) == Reverse(SubSeq(a, 1, n))

\* SubSeq, member by member.
LEMMA RestMembers ==
  ASSUME NEW T, NEW a \in Seq(T), NEW n \in 0 .. Len(a)
  PROVE  /\ Rest(a, n) \in Seq(T) /\ Len(Rest(a, n)) = Len(a) - n
         /\ \A k \in 1 .. Len(a) - n : Rest(a, n)[k] = a[n + k]
BY DEF Rest

\* Reverse of a front part, member by member.
LEMMA TurnedMembers ==
  ASSUME NEW T, NEW a \in Seq(T), NEW n \in 0 .. Len(a)
  PROVE  /\ Turned(a, n) \in Seq(T) /\ Len(Turned(a, n)) = n
         /\ \A k \in 1 .. n : Turned(a, n)[k] = a[(n - k) + 1]
BY DEF Turned, Reverse

\* Moving the front of the active list, as Unlink and Release do one by one, to
\* the front of the free list loses and repeats no object.
LEMMA StopEnumerates ==
  ASSUME NEW c \in Nat, NEW a \in Seq(1 .. c), NEW f \in Seq(1 .. c),
         Enumerates(a \o f, c), NEW n \in 0 .. Len(a)
  PROVE  Enumerates(Rest(a, n) \o (Turned(a, n) \o f), c)
<1>1. PICK r : r = Rest(a, n)
  OBVIOUS
<1>2. PICK u : u = Turned(a, n)
  OBVIOUS
<1>3. PICK v : v = u \o f
  OBVIOUS
<1>4. PICK t : t = r \o v
  OBVIOUS
<1>5. PICK s : s = a \o f
  OBVIOUS
<1>6. /\ r \in Seq(1 .. c) /\ Len(r) = Len(a) - n
      /\ \A k \in 1 .. Len(a) - n : r[k] = a[n + k]
  BY <1>1, RestMembers
<1>7. /\ u \in Seq(1 .. c) /\ Len(u) = n
      /\ \A k \in 1 .. n : u[k] = a[(n - k) + 1]
  BY <1>2, TurnedMembers
<1>8. r \in Seq(1 .. c) /\ u \in Seq(1 .. c)
  BY <1>6, <1>7
<1>9. /\ v \in Seq(1 .. c) /\ Len(v) = Len(u) + Len(f)
      /\ \A k \in 1 .. Len(u) : v[k] = u[k]
      /\ \A k \in 1 .. Len(f) : v[Len(u) + k] = f[k]
  BY <1>3, <1>8, Joined
<1>10. v \in Seq(1 .. c)
  BY <1>9
<1>11. /\ t \in Seq(1 .. c) /\ Len(t) = Len(r) + Len(v)
       /\ \A k \in 1 .. Len(r) : t[k] = r[k]
       /\ \A k \in 1 .. Len(v) : t[Len(r) + k] = v[k]
  BY <1>4, <1>8, <1>10, Joined
<1>12. /\ s \in Seq(1 .. c) /\ Len(s) = Len(a) + Len(f)
       /\ \A k \in 1 .. Len(a) : s[k] = a[k]
       /\ \A k \in 1 .. Len(f) : s[Len(a) + k] = f[k]
  BY <1>5, Joined
<1>13. Enumerates(s, c) /\ Len(s) = c
  BY <1>5 DEF Enumerates
<1>14. /\ Len(a) \in Nat /\ Len(f) \in Nat /\ Len(a) + Len(f) = c
       /\ Len(r) = Len(a) - n /\ Len(u) = n
       /\ Len(v) = Len(u) + Len(f) /\ Len(t) = Len(r) + Len(v)
  <2>1. Len(a) \in Nat /\ Len(f) \in Nat
    OBVIOUS
  <2>2. Len(s) = c
    BY <1>13
  <2>3. Len(s) = Len(a) + Len(f)
    BY <1>12
  <2>4. Len(r) = Len(a) - n /\ Len(u) = n
    BY <1>6, <1>7
  <2>5. Len(v) = Len(u) + Len(f) /\ Len(t) = Len(r) + Len(v)
    BY <1>9, <1>11
  <2> QED BY <2>1, <2>2, <2>3, <2>4, <2>5
<1>15. Len(a) \in 0 .. c /\ Len(t) = c
  <2>1. Len(t) = (Len(a) - n) + (n + Len(f))
    BY <1>14
  <2>2. PICK x \in Nat, y \in Nat : x = Len(a) /\ y = Len(f)
    BY <1>14
  <2>3. x + y = c /\ n \in 0 .. x /\ Len(t) = (x - n) + (n + y)
    BY <1>14, <2>1, <2>2
  <2>4. x \in 0 .. c /\ (x - n) + (n + y) = c
    BY <2>3
  <2> QED BY <2>2, <2>3, <2>4
<1>16. ASSUME NEW k \in 1 .. Len(a) - n PROVE t[k] = s[n + k]
  <2>1. n + k \in 1 .. Len(a) /\ k \in 1 .. Len(r)
    BY <1>14
  <2>2. t[k] = r[k]
    BY <1>11, <2>1
  <2>3. r[k] = a[n + k]
    BY <1>6
  <2>4. s[n + k] = a[n + k]
    BY <1>12, <2>1
  <2> QED BY <2>2, <2>3, <2>4
<1>17. ASSUME NEW k \in 1 .. n PROVE t[(Len(a) - n) + k] = s[(n - k) + 1]
  <2>1. (n - k) + 1 \in 1 .. Len(a) /\ k \in 1 .. Len(u) /\ k \in 1 .. Len(v)
    BY <1>14
  <2>2. t[Len(r) + k] = v[k]
    BY <1>11, <2>1
  <2>3. v[k] = u[k]
    BY <1>9, <2>1
  <2>4. u[k] = a[(n - k) + 1]
    BY <1>7
  <2>5. s[(n - k) + 1] = a[(n - k) + 1]
    BY <1>12, <2>1
  <2> QED BY <1>14, <2>2, <2>3, <2>4, <2>5
<1>18. ASSUME NEW k \in Len(a) + 1 .. c PROVE t[k] = s[k]
  <2> DEFINE j == k - Len(a)
  <2>1. j = k - Len(a)
    OBVIOUS
  <2> HIDE DEF j
  <2>2. j \in 1 .. Len(f) /\ Len(a) + j = k /\ n + j \in 1 .. n + Len(f)
        /\ (Len(a) - n) + (n + j) = k
    <3>1. PICK x \in Nat, y \in Nat : x = Len(a) /\ y = Len(f)
      BY <1>14
    <3>2. x + y = c /\ n \in 0 .. x /\ k \in x + 1 .. c /\ j = k - x
      BY <1>14, <2>1, <3>1
    <3>3. /\ j \in 1 .. y /\ x + j = k /\ n + j \in 1 .. n + y
          /\ (x - n) + (n + j) = k
      BY <3>2
    <3> QED BY <3>1, <3>3
  <2>3. n + j \in 1 .. Len(v)
    <3>1. Len(v) = n + Len(f)
      BY <1>14
    <3> QED BY <2>2, <3>1
  <2>4. t[Len(r) + (n + j)] = v[n + j]
    BY <1>11, <2>3
  <2>5. v[Len(u) + j] = f[j]
    BY <1>9, <2>2
  <2>6. s[Len(a) + j] = f[j]
    BY <1>12, <2>2
  <2>7. Len(r) = Len(a) - n /\ Len(u) = n
    BY <1>14
  <2> QED BY <2>2, <2>4, <2>5, <2>6, <2>7
<1>19. Moved(t, s, Len(a), n)
  BY <1>13, <1>16, <1>17, <1>18 DEF Moved
<1>20. Enumerates(t, c)
  BY <1>11, <1>13, <1>15, <1>19, MovedEnumerates
<1> QED BY <1>1, <1>2, <1>3, <1>4, <1>20

-----------------------------------------------------------------------------
(* The invariant.                                                          *)

\* The most listeners there can be without overlap.
HeapBound == Cardinality(Ports) * (IF Addresses = {} THEN 1
                                   ELSE Cardinality(Addresses))

\* Two listeners that do not compete.
Apart(x, y) ==
  x.port = y.port => IPADDR_ANY \notin {x.ip, y.ip} /\ x.ip # y.ip

\* The lists a and f, with the n objects o, on a processor that hangs or not.
Typed(a, f, n, o, h) ==
  /\ n \in 0 .. MaxListeners
  /\ a \in Seq(1 .. n) /\ f \in Seq(1 .. n)
  /\ o \in [Ids -> ListenerRec] /\ h \in BOOLEAN

Shown(a, o) == \A l \in Ids : o[l].listening <=> In(l, a)

AllApart(a, o) ==
  /\ \A k \in 1 .. Len(a) : o[a[k]].port \in Ports
  /\ \A j, k \in 1 .. Len(a) : j # k => Apart(o[a[j]], o[a[k]])

Good(a, f, n, o, h) ==
  /\ Typed(a, f, n, o, h)
  /\ Enumerates(a \o f, n)
  /\ ~h => Shown(a, o)
  /\ AllApart(a, o)
  /\ n <= HeapBound

ListenerInv == Good(activeList, freeList, created, obj, hung)

\* The invariant implies the properties.
LEMMA ListenerInvImplies ==
  ASSUME ListenerInv
  PROVE  /\ ListenerTypeOK /\ ListsPartition /\ ActiveMeansListening
         /\ NoOverlap /\ HeapBounded
<1> USE DEF ListenerInv, Good
<1>1. /\ created \in Nat /\ 1 .. created \subseteq Ids
      /\ activeList \in Seq(1 .. created) /\ freeList \in Seq(1 .. created)
  BY ListenerAssumption DEF Typed, Ids
<1>2. ListenerTypeOK
  <2>1. activeList \in Seq(Ids) /\ freeList \in Seq(Ids)
    BY <1>1
  <2> QED BY <2>1 DEF ListenerTypeOK, Typed
<1>3. ListsPartition
  BY <1>1, EnumeratesAll DEF ListsPartition
<1>4. DOMAIN activeList = 1 .. Len(activeList)
  BY <1>1
<1>5. ASSUME ~hung, NEW l \in Ids
      PROVE  obj[l].listening <=> l \in ToSet(activeList)
  <2>1. In(l, activeList) <=> l \in ToSet(activeList)
    BY <1>4 DEF In, ToSet
  <2> QED BY <1>5, <2>1 DEF Shown
<1>6. NoOverlap
  BY <1>4 DEF NoOverlap, AllApart, Apart
<1>7. HeapBounded
  BY DEF HeapBounded, HeapBound
<1> QED BY <1>2, <1>3, <1>5, <1>6, <1>7 DEF ActiveMeansListening

\* No listeners satisfy the invariant.
LEMMA NoListeners == Good(<<>>, <<>>, 0, [l \in Ids |-> NewListener], FALSE)
<1> DEFINE o == [l \in Ids |-> NewListener]
<1>1. Typed(<<>>, <<>>, 0, o, FALSE)
  <2>1. NewListener \in ListenerRec
    BY ListenerAssumption DEF NewListener, ListenerRec, Ips
  <2>2. o \in [Ids -> ListenerRec]
    BY <2>1
  <2>3. <<>> \in Seq(1 .. 0)
    OBVIOUS
  <2>4. 0 \in 0 .. MaxListeners
    BY ListenerAssumption
  <2> QED BY <2>2, <2>3, <2>4 DEF Typed
<1>2. Shown(<<>>, o) /\ AllApart(<<>>, o)
  BY DEF Shown, AllApart, In, NewListener
<1>3. HeapBound \in Nat
  <2>1. Cardinality(Ports) \in Nat /\ Cardinality(Addresses) \in Nat
    BY ListenerAssumption, FS_CardinalityType
  <2>2. CASE Addresses = {}
    <3>1. HeapBound = Cardinality(Ports) * 1
      BY <2>2 DEF HeapBound
    <3> QED BY <2>1, <3>1
  <2>3. CASE Addresses # {}
    <3>1. HeapBound = Cardinality(Ports) * Cardinality(Addresses)
      BY <2>3 DEF HeapBound
    <3> QED BY <2>1, <3>1
  <2> QED BY <2>2, <2>3
<1>4. 0 <= HeapBound
  BY <1>3
<1> HIDE DEF o
<1>5. Good(<<>>, <<>>, 0, o, FALSE)
  BY <1>1, <1>2, <1>4, EmptyEnumerates DEF Good
<1> QED BY <1>5 DEF o

\* Initially, and after a restart, there are no listeners.
LEMMA ListenerInitInv == ListenerInit => ListenerInv
BY NoListeners DEF ListenerInit, ListenerInv

-----------------------------------------------------------------------------
(* Stop.                                                                   *)

\* Some entry satisfies a condition first.
LEMMA Least ==
  ASSUME NEW T \in SUBSET Nat, T # {}
  PROVE  \E i \in T : \A j \in T : i <= j
<1>1. PICK i \in T : \A j \in T : ~ (<<j, i>> \in OpToRel(<, Nat))
  BY NatLessThanWellFounded, WFMin, Zenon
<1>2. ASSUME NEW j \in T PROVE i <= j
  <2>1. ~ (j < i)
    BY <1>1 DEF OpToRel
  <2> QED BY <2>1
<1> QED BY <1>2

\* What can be unlinked is the front of the list.
LEMMA UnlinkableIsFront ==
  ASSUME NEW m \in Nat, NEW S \in SUBSET (1 .. m)
  PROVE  \E n \in 0 .. m : /\ Unlinkable(S) = 1 .. n
                           /\ Cardinality(Unlinkable(S)) = n
                           /\ n + 1 \notin S
<1> DEFINE T == {k \in 1 .. m + 1 : k \notin S}
<1>1. T \in SUBSET Nat /\ m + 1 \in T
  OBVIOUS
<1>2. PICK i \in T : \A j \in T : i <= j
  BY <1>1, Least
<1>3. i \in 1 .. m + 1 /\ i \notin S
  BY <1>2
<1>4. \A k \in 1 .. i - 1 : k \in S
  BY <1>2, <1>3
<1>5. Unlinkable(S) = 1 .. i - 1
  <2>1. ASSUME NEW k \in 1 .. i - 1 PROVE k \in Unlinkable(S)
    BY <1>3, <1>4 DEF Unlinkable
  <2>2. ASSUME NEW k \in Unlinkable(S) PROVE k \in 1 .. i - 1
    <3>1. k \in S /\ k \in 1 .. m /\ 1 .. k \subseteq S
      BY DEF Unlinkable
    <3>2. ~ (i \in 1 .. k)
      BY <1>3, <3>1
    <3> QED BY <1>3, <3>1, <3>2
  <2> QED BY <2>1, <2>2
<1>6. Cardinality(1 .. i - 1) = i - 1
  <2>1. i \in Int /\ i - 1 >= 0
    BY <1>3
  <2> QED BY <2>1, FS_Interval
<1>7. i - 1 \in 0 .. m /\ (i - 1) + 1 = i
  BY <1>3
<1> QED BY <1>3, <1>5, <1>6, <1>7

\* What Stop leaves of object l.
Remains(x, y) == x = y \/ x = [y EXCEPT !.listening = FALSE]

\* The front is moved to the free list, and when Stop returns from every call
\* that is what was to be stopped.
LEMMA StoppedIs ==
  ASSUME Typed(activeList, freeList, created, obj, hung),
         NEW S \in SUBSET (1 .. Len(activeList))
  PROVE  \E n \in 0 .. Len(activeList) :
           /\ Stopped(S).active = Rest(activeList, n)
           /\ Stopped(S).free = Turned(activeList, n) \o freeList
           /\ Stopped(S).hung \in BOOLEAN
           /\ n + 1 \notin S
           /\ ~Stopped(S).hung =>
                S = 1 .. n /\ Stopped(S).obj = ClosedAt(S)
           /\ \E D \in SUBSET S : Stopped(S).obj = ClosedAt(D)
<1>1. Len(activeList) \in Nat
  BY DEF Typed
<1>2. PICK n \in 0 .. Len(activeList) :
        /\ Unlinkable(S) = 1 .. n /\ Cardinality(Unlinkable(S)) = n
        /\ n + 1 \notin S
  BY <1>1, UnlinkableIsFront
<1> DEFINE reached == {k \in S : \A j \in S : j < k => j \in Unlinkable(S)}
<1>3. /\ Stopped(S).active = Rest(activeList, n)
      /\ Stopped(S).free = Turned(activeList, n) \o freeList
      /\ Stopped(S).hung = (Unlinkable(S) # S)
      /\ Stopped(S).obj = ClosedAt(reached)
  BY <1>2 DEF Stopped, Rest, Turned
<1>4. ASSUME Unlinkable(S) = S PROVE reached = S
  BY <1>4
<1>5. reached \in SUBSET S
  OBVIOUS
<1> HIDE DEF reached
<1> QED BY <1>2, <1>3, <1>4, <1>5

\* What is closed keeps its other members.
LEMMA ClosedRemains ==
  ASSUME Typed(activeList, freeList, created, obj, hung), NEW D
  PROVE  /\ ClosedAt(D) \in [Ids -> ListenerRec]
         /\ \A l \in Ids : Remains(ClosedAt(D)[l], obj[l])
<1>1. ASSUME NEW l \in Ids
      PROVE  Remains(ClosedAt(D)[l], obj[l]) /\ ClosedAt(D)[l] \in ListenerRec
  <2>1. obj[l] \in ListenerRec
    BY DEF Typed
  <2>2. [obj[l] EXCEPT !.listening = FALSE] \in ListenerRec
    BY <2>1 DEF ListenerRec
  <2>3. ClosedAt(D)[l] \in {obj[l], [obj[l] EXCEPT !.listening = FALSE]}
    BY DEF ClosedAt
  <2> QED BY <2>1, <2>2, <2>3 DEF Remains
<1>2. ClosedAt(D) = [l \in Ids |-> ClosedAt(D)[l]]
  BY DEF ClosedAt
<1> QED BY <1>1, <1>2

\* Closing an object leaves what it was set up for.
LEMMA RemainsSame ==
  ASSUME NEW x, NEW y \in ListenerRec, Remains(x, y)
  PROVE  x.ip = y.ip /\ x.port = y.port /\ x.protocol = y.protocol
         /\ x.maxConnections = y.maxConnections
BY DEF Remains, ListenerRec

\* Where the members of what is left of a list were.
LEMMA InRest ==
  ASSUME NEW T, NEW a \in Seq(T), OnceIn(a), NEW n \in 0 .. Len(a)
  PROVE  /\ \A l : In(l, Rest(a, n)) <=>
                     In(l, a) /\ ~ \E k \in 1 .. n : l = a[k]
         /\ OnceIn(Rest(a, n))
<1>1. /\ Rest(a, n) \in Seq(T) /\ Len(Rest(a, n)) = Len(a) - n
      /\ \A k \in 1 .. Len(a) - n : Rest(a, n)[k] = a[n + k]
  BY RestMembers
<1>2. Len(a) \in Nat
  OBVIOUS
<1>3. \A k \in 1 .. Len(a) - n : n + k \in 1 .. Len(a)
  BY <1>2
<1>4. ASSUME NEW l, In(l, Rest(a, n)) PROVE In(l, a) /\ ~ \E k \in 1 .. n : l = a[k]
  <2>1. PICK k \in 1 .. Len(a) - n : Rest(a, n)[k] = l
    BY <1>1, <1>4 DEF In
  <2>2. l = a[n + k] /\ n + k \in 1 .. Len(a)
    BY <1>1, <1>3, <2>1
  <2>3. ASSUME NEW j \in 1 .. n, l = a[j] PROVE FALSE
    <3>1. j \in 1 .. Len(a) /\ j # n + k
      BY <1>2
    <3> QED BY <2>2, <2>3, <3>1 DEF OnceIn
  <2> QED BY <2>2, <2>3 DEF In
<1>5. ASSUME NEW l, In(l, a), ~ \E k \in 1 .. n : l = a[k] PROVE In(l, Rest(a, n))
  <2>1. PICK j \in 1 .. Len(a) : a[j] = l
    BY <1>5 DEF In
  <2>2. j \notin 1 .. n
    BY <1>5, <2>1
  <2>3. PICK k \in 1 .. Len(a) - n : n + k = j
    <3>1. j - n \in 1 .. Len(a) - n /\ n + (j - n) = j
      BY <1>2, <2>2
    <3> QED BY <3>1
  <2>4. Rest(a, n)[k] = l
    BY <1>1, <2>1, <2>3
  <2> QED BY <1>1, <2>4 DEF In
<1>6. ASSUME NEW j \in 1 .. Len(Rest(a, n)), NEW k \in 1 .. Len(Rest(a, n)),
             Rest(a, n)[j] = Rest(a, n)[k]
      PROVE  j = k
  <2>1. j \in 1 .. Len(a) - n /\ k \in 1 .. Len(a) - n
    BY <1>1
  <2>2. a[n + j] = a[n + k] /\ n + j \in 1 .. Len(a) /\ n + k \in 1 .. Len(a)
    BY <1>1, <1>3, <1>6, <2>1
  <2>3. n + j = n + k
    BY <2>2 DEF OnceIn
  <2> QED BY <2>1, <2>3
<1> QED BY <1>4, <1>5, <1>6 DEF OnceIn

\* What Stop leaves satisfies the invariant.  When it returns from every call
\* it has unlinked what it was to stop.
LEMMA StopKeeps ==
  ASSUME ListenerInv, ~hung, NEW S \in SUBSET (1 .. Len(activeList)),
         NEW s, s = Stopped(S)
  PROVE  /\ Good(s.active, s.free, created, s.obj, s.hung)
         /\ \A l \in Ids : Remains(s.obj[l], obj[l])
         /\ \E n \in 0 .. Len(activeList) :
              /\ s.active = Rest(activeList, n)
              /\ n + 1 \notin S
              /\ ~s.hung => S = 1 .. n
<1>1. Typed(activeList, freeList, created, obj, hung)
  BY DEF ListenerInv, Good
<1>2. PICK n \in 0 .. Len(activeList) :
        /\ s.active = Rest(activeList, n)
        /\ s.free = Turned(activeList, n) \o freeList
        /\ s.hung \in BOOLEAN
        /\ n + 1 \notin S
        /\ ~s.hung => S = 1 .. n /\ s.obj = ClosedAt(S)
        /\ \E D \in SUBSET S : s.obj = ClosedAt(D)
  BY <1>1, StoppedIs
<1>3. PICK D \in SUBSET S : s.obj = ClosedAt(D)
  BY <1>2
<1>4. /\ s.obj \in [Ids -> ListenerRec]
      /\ \A l \in Ids : Remains(s.obj[l], obj[l])
  BY <1>1, <1>3, ClosedRemains
<1>5. /\ created \in 0 .. MaxListeners /\ created \in Nat
      /\ 1 .. created \subseteq Ids
      /\ activeList \in Seq(1 .. created) /\ freeList \in Seq(1 .. created)
      /\ Len(activeList) \in Nat
  BY <1>1, ListenerAssumption DEF Typed, Ids
<1>6. /\ s.active \in Seq(1 .. created)
      /\ Len(s.active) = Len(activeList) - n
      /\ \A k \in 1 .. Len(activeList) - n : s.active[k] = activeList[n + k]
  BY <1>2, <1>5, RestMembers
<1>7. Turned(activeList, n) \in Seq(1 .. created)
  BY <1>5, TurnedMembers
<1>8. s.free \in Seq(1 .. created)
  BY <1>2, <1>5, <1>7
<1>9. Typed(s.active, s.free, created, s.obj, s.hung)
  BY <1>2, <1>4, <1>5, <1>6, <1>8 DEF Typed
<1>10. Enumerates(activeList \o freeList, created)
  BY DEF ListenerInv, Good
<1>11. Enumerates(s.active \o s.free, created)
  BY <1>2, <1>5, <1>10, StopEnumerates
<1>12. OnceIn(activeList)
  <2>1. /\ Len(activeList \o freeList) = Len(activeList) + Len(freeList)
        /\ \A k \in 1 .. Len(activeList) :
             (activeList \o freeList)[k] = activeList[k]
    BY <1>5, Joined
  <2>2. 1 .. Len(activeList) \subseteq 1 .. Len(activeList \o freeList)
    BY <1>5, <2>1
  <2> QED BY <1>10, <2>1, <2>2 DEF Enumerates, OnceIn
<1>13. \A l : In(l, s.active) <=>
                In(l, activeList) /\ ~ \E k \in 1 .. n : l = activeList[k]
  BY <1>2, <1>5, <1>12, InRest
<1>14. ASSUME ~s.hung PROVE Shown(s.active, s.obj)
  <2>1. S = 1 .. n /\ s.obj = ClosedAt(S)
    BY <1>2, <1>14
  <2>2. ASSUME NEW l \in Ids PROVE s.obj[l].listening <=> In(l, s.active)
    <3>1. CASE \E k \in 1 .. n : l = activeList[k]
      <4>1. s.obj[l] = [obj[l] EXCEPT !.listening = FALSE]
        BY <2>1, <3>1 DEF ClosedAt
      <4>2. s.obj[l].listening = FALSE
        BY <1>1, <4>1 DEF Typed, ListenerRec
      <4> QED BY <1>13, <3>1, <4>2
    <3>2. CASE ~ \E k \in 1 .. n : l = activeList[k]
      <4>1. s.obj[l] = obj[l]
        BY <2>1, <3>2 DEF ClosedAt
      <4>2. obj[l].listening <=> In(l, activeList)
        BY DEF ListenerInv, Good, Shown
      <4> QED BY <1>13, <3>2, <4>1, <4>2
    <3> QED BY <3>1, <3>2
  <2> QED BY <2>2 DEF Shown
<1>15. AllApart(s.active, s.obj)
  <2>1. AllApart(activeList, obj)
    BY DEF ListenerInv, Good
  <2>2. ASSUME NEW k \in 1 .. Len(s.active)
        PROVE  /\ n + k \in 1 .. Len(activeList)
               /\ s.obj[s.active[k]].port = obj[activeList[n + k]].port
               /\ s.obj[s.active[k]].ip = obj[activeList[n + k]].ip
    <3>1. k \in 1 .. Len(activeList) - n
      BY <1>6
    <3>2. n + k \in 1 .. Len(activeList) /\ s.active[k] = activeList[n + k]
      BY <1>5, <1>6, <3>1
    <3>3. activeList[n + k] \in Ids
      BY <1>5, <3>2
    <3>4. obj[activeList[n + k]] \in ListenerRec
      BY <1>1, <3>3 DEF Typed
    <3> QED BY <1>4, <3>2, <3>3, <3>4, RemainsSame
  <2>3. ASSUME NEW j \in 1 .. Len(s.active), NEW k \in 1 .. Len(s.active), j # k
        PROVE  Apart(s.obj[s.active[j]], s.obj[s.active[k]])
    <3>1. n + j # n + k
      BY <1>6, <2>3
    <3>2. Apart(obj[activeList[n + j]], obj[activeList[n + k]])
      BY <2>1, <2>2, <3>1 DEF AllApart
    <3> QED BY <2>2, <3>2 DEF Apart
  <2>4. \A k \in 1 .. Len(s.active) : s.obj[s.active[k]].port \in Ports
    BY <2>1, <2>2 DEF AllApart
  <2> QED BY <2>3, <2>4 DEF AllApart
<1>16. created <= HeapBound
  BY DEF ListenerInv, Good
<1> QED BY <1>2, <1>4, <1>9, <1>11, <1>14, <1>15, <1>16 DEF Good

-----------------------------------------------------------------------------
(* New listeners.                                                          *)

\* An object taken from the free list, or a new one, goes to the front.
LEMMA HeadEnumerates ==
  ASSUME NEW c \in Nat, NEW a \in Seq(1 .. c), NEW f \in Seq(1 .. c),
         Enumerates(a \o f, c), f # <<>>
  PROVE  /\ Head(f) \in 1 .. c /\ ~In(Head(f), a)
         /\ Enumerates((<<Head(f)>> \o a) \o Tail(f), c)
<1>1. PICK s : s = a \o f
  OBVIOUS
<1>2. PICK h : h = Head(f)
  OBVIOUS
<1>3. PICK w : w = Tail(f)
  OBVIOUS
<1>4. PICK b : b = <<h>> \o a
  OBVIOUS
<1>5. PICK t : t = b \o w
  OBVIOUS
<1>6. Len(f) >= 1 /\ Len(f) \in Nat /\ Len(a) \in Nat
  OBVIOUS
<1>7. /\ h = f[1] /\ h \in 1 .. c /\ w \in Seq(1 .. c) /\ Len(w) = Len(f) - 1
      /\ \A k \in 1 .. Len(f) - 1 : w[k] = f[k + 1]
  BY <1>2, <1>3, <1>6
<1>8. h \in 1 .. c /\ w \in Seq(1 .. c)
  BY <1>7
<1>9. /\ b \in Seq(1 .. c) /\ Len(b) = 1 + Len(a) /\ b[1] = h
      /\ \A k \in 1 .. Len(a) : b[1 + k] = a[k]
  BY <1>4, <1>8
<1>10. b \in Seq(1 .. c)
  BY <1>9
<1>11. /\ t \in Seq(1 .. c) /\ Len(t) = Len(b) + Len(w)
       /\ \A k \in 1 .. Len(b) : t[k] = b[k]
       /\ \A k \in 1 .. Len(w) : t[Len(b) + k] = w[k]
  BY <1>5, <1>8, <1>10, Joined
<1>12. /\ s \in Seq(1 .. c) /\ Len(s) = Len(a) + Len(f)
       /\ \A k \in 1 .. Len(a) : s[k] = a[k]
       /\ \A k \in 1 .. Len(f) : s[Len(a) + k] = f[k]
  BY <1>1, Joined
<1>13. Enumerates(s, c) /\ Len(s) = c /\ OnceIn(s)
  BY <1>1 DEF Enumerates
<1>14. PICK x \in Nat, y \in Nat : x = Len(a) /\ y = Len(f)
  BY <1>6
<1>15. x + y = c /\ y >= 1 /\ Len(b) = 1 + x /\ Len(w) = y - 1
  BY <1>6, <1>7, <1>9, <1>12, <1>13, <1>14
<1>16. Len(t) = c
  <2>1. Len(t) = (1 + x) + (y - 1)
    BY <1>11, <1>15
  <2> QED BY <1>15, <2>1
<1> DEFINE p == [k \in 1 .. c |-> IF k = 1 THEN x + 1
                                  ELSE IF k <= x + 1 THEN k - 1 ELSE k]
           q == [k \in 1 .. c |-> IF k = x + 1 THEN 1
                                  ELSE IF k <= x THEN k + 1 ELSE k]
<1>17. ASSUME NEW k \in 1 .. c PROVE t[k] = s[p[k]]
  <2>1. CASE k = 1
    <3>1. p[k] = x + 1
      BY <2>1
    <3>2. s[x + 1] = f[1]
      BY <1>6, <1>12, <1>14
    <3>3. t[1] = b[1]
      BY <1>11, <1>15
    <3> QED BY <1>7, <1>9, <2>1, <3>1, <3>2, <3>3
  <2>2. CASE k # 1 /\ k <= x + 1
    <3> DEFINE j == k - 1
    <3>1. j \in 1 .. x /\ 1 + j = k /\ p[k] = j
      BY <2>2
    <3> HIDE DEF j, p
    <3>2. b[1 + j] = a[j]
      BY <1>9, <1>14, <3>1
    <3>3. s[j] = a[j]
      BY <1>12, <1>14, <3>1
    <3>4. k \in 1 .. Len(b)
      BY <1>15, <2>2
    <3>5. t[k] = b[k]
      BY <1>11, <3>4
    <3> QED BY <3>1, <3>2, <3>3, <3>5
  <2>3. CASE x + 1 < k
    <3> DEFINE j == k - (1 + x)
    <3>1. j \in 1 .. y - 1 /\ (1 + x) + j = k /\ x + (j + 1) = k
          /\ j + 1 \in 1 .. y /\ p[k] = k
      BY <1>15, <2>3
    <3> HIDE DEF j, p
    <3>2. t[(1 + x) + j] = w[j]
      BY <1>11, <1>15, <3>1
    <3>3. w[j] = f[j + 1]
      BY <1>7, <1>14, <3>1
    <3>4. s[x + (j + 1)] = f[j + 1]
      BY <1>12, <1>14, <3>1
    <3> QED BY <3>1, <3>2, <3>3, <3>4
  <2> QED BY <2>1, <2>2, <2>3
<1>18. p \in [1 .. c -> 1 .. c] /\ q \in [1 .. c -> 1 .. c]
  BY <1>15
<1>19. \A k \in 1 .. c : q[p[k]] = k
  BY <1>15
<1>20. \A k \in 1 .. c : p[q[k]] = k
  BY <1>15
<1> HIDE DEF p, q
<1>21. Permutes(t, s, p, q, c)
  BY <1>17, <1>18, <1>19, <1>20 DEF Permutes
<1>22. Enumerates(t, c)
  BY <1>11, <1>13, <1>16, <1>21, PermutedEnumerates
<1>23. ASSUME In(h, a) PROVE FALSE
  <2>1. PICK k \in 1 .. x : a[k] = h
    BY <1>14, <1>23 DEF In
  <2>2. s[k] = h
    BY <1>12, <1>14, <2>1
  <2>3. s[x + 1] = h
    BY <1>6, <1>7, <1>12, <1>14
  <2>4. k \in 1 .. c /\ x + 1 \in 1 .. c /\ k # x + 1
    BY <1>15
  <2> QED BY <1>13, <2>2, <2>3, <2>4 DEF OnceIn
<1> QED BY <1>2, <1>3, <1>4, <1>5, <1>8, <1>22, <1>23

\* A list with members in S has members in a larger set.
LEMMA SeqWider ==
  ASSUME NEW S, NEW T, S \subseteq T, NEW a \in Seq(S)
  PROVE  a \in Seq(T)
OBVIOUS

\* The lists stay lists of all the objects when there is one more.
LEMMA NewEnumerates ==
  ASSUME NEW c \in Nat, NEW a \in Seq(1 .. c), Enumerates(a, c)
  PROVE  /\ Enumerates(<<c + 1>> \o a, c + 1)
         /\ Enumerates(a \o <<c + 1>>, c + 1)
         /\ ~In(c + 1, a)
<1>1. PICK d \in Nat : d = c + 1
  OBVIOUS
<1>2. a \in Seq(1 .. d) /\ <<d>> \in Seq(1 .. d) /\ Len(<<d>>) = 1 /\ <<d>>[1] = d
  <2>1. 1 .. c \subseteq 1 .. d /\ d \in 1 .. d
    BY <1>1
  <2> QED BY <2>1
<1>3. PICK t : t = <<d>> \o a
  OBVIOUS
<1>4. PICK u : u = a \o <<d>>
  OBVIOUS
<1>5. Len(a) = c /\ (\A k \in 1 .. c : a[k] \in 1 .. c) /\ OnceIn(a)
  BY DEF Enumerates
<1>6. ~ (d \in 1 .. c)
  BY <1>1
<1>7. /\ t \in Seq(1 .. d) /\ Len(t) = 1 + Len(a) /\ t[1] = d
      /\ \A k \in 1 .. Len(a) : t[1 + k] = a[k]
  BY <1>2, <1>3
<1>8. /\ u \in Seq(1 .. d) /\ Len(u) = Len(a) + 1 /\ u[c + 1] = d
      /\ \A k \in 1 .. Len(a) : u[k] = a[k]
  BY <1>2, <1>4, <1>5
<1>9. Len(t) = d /\ Len(u) = d
  BY <1>1, <1>5, <1>7, <1>8
<1>10. \A k \in 1 .. d : k = 1 \/ \E i \in 1 .. c : k = 1 + i
  <2>1. ASSUME NEW k \in 1 .. d, k # 1 PROVE \E i \in 1 .. c : k = 1 + i
    <3>1. k - 1 \in 1 .. c /\ k = 1 + (k - 1)
      BY <1>1, <2>1
    <3> QED BY <3>1
  <2> QED BY <2>1
<1>11. \A k \in 1 .. d : k = c + 1 \/ k \in 1 .. c
  BY <1>1
<1>12. ASSUME NEW j \in 1 .. d, NEW k \in 1 .. d, t[j] = t[k] PROVE j = k
  <2>1. CASE j = 1 /\ k = 1
    BY <2>1
  <2>2. ASSUME NEW i \in 1 .. c, j = 1 + i PROVE j = k
    <3>1. t[j] = a[i] /\ t[j] # d
      BY <1>5, <1>6, <1>7, <2>2
    <3>2. k # 1
      BY <1>7, <1>12, <3>1
    <3>3. PICK h \in 1 .. c : k = 1 + h
      BY <1>10, <3>2
    <3>4. t[k] = a[h]
      BY <1>5, <1>7, <3>3
    <3>5. h = i
      BY <1>5, <1>12, <3>1, <3>4 DEF OnceIn
    <3> QED BY <2>2, <3>3, <3>5
  <2>3. ASSUME NEW h \in 1 .. c, k = 1 + h, j = 1 PROVE FALSE
    <3>1. t[k] = a[h] /\ t[k] # d
      BY <1>5, <1>6, <1>7, <2>3
    <3> QED BY <1>7, <1>12, <2>3, <3>1
  <2> QED BY <1>10, <2>1, <2>2, <2>3
<1>13. ASSUME NEW j \in 1 .. d, NEW k \in 1 .. d, u[j] = u[k] PROVE j = k
  <2>1. CASE j \in 1 .. c /\ k \in 1 .. c
    BY <1>5, <1>8, <1>13, <2>1 DEF OnceIn
  <2>2. CASE j \in 1 .. c /\ k = c + 1
    <3>1. u[j] \in 1 .. c
      BY <1>5, <1>8, <2>2
    <3> QED BY <1>6, <1>8, <1>13, <2>2, <3>1
  <2>3. CASE k \in 1 .. c /\ j = c + 1
    <3>1. u[k] \in 1 .. c
      BY <1>5, <1>8, <2>3
    <3> QED BY <1>6, <1>8, <1>13, <2>3, <3>1
  <2> QED BY <1>11, <2>1, <2>2, <2>3
<1>14. ASSUME NEW l \in 1 .. d PROVE In(l, t) /\ In(l, u)
  <2>1. CASE l = d
    <3>1. 1 \in 1 .. d /\ c + 1 \in 1 .. d
      BY <1>1
    <3> QED BY <1>7, <1>8, <1>9, <2>1, <3>1 DEF In
  <2>2. CASE l # d
    <3>1. l \in 1 .. c
      BY <1>1, <2>2
    <3>2. PICK k \in 1 .. c : a[k] = l
      BY <1>5, <3>1 DEF Enumerates, In
    <3>3. t[1 + k] = l /\ u[k] = l
      BY <1>5, <1>7, <1>8, <3>2
    <3>4. 1 + k \in 1 .. d /\ k \in 1 .. d
      BY <1>1
    <3> QED BY <1>9, <3>3, <3>4 DEF In
  <2> QED BY <2>1, <2>2
<1>15. Enumerates(t, d) /\ Enumerates(u, d)
  BY <1>7, <1>8, <1>9, <1>12, <1>13, <1>14 DEF Enumerates, OnceIn
<1>16. ~In(d, a)
  BY <1>5, <1>6 DEF In
<1> QED BY <1>1, <1>3, <1>4, <1>15, <1>16

\* There are at most as many listeners that do not compete as HeapBound says.
LEMMA ApartBounded ==
  ASSUME NEW m \in Nat, NEW x \in [1 .. m -> ListenerRec],
         \A k \in 1 .. m : x[k].port \in Ports,
         \A j, k \in 1 .. m : j # k => Apart(x[j], x[k])
  PROVE  m <= HeapBound
<1>1. IsFiniteSet(Ports) /\ IsFiniteSet(Addresses)
  BY ListenerAssumption
<1>2. Cardinality(Ports) \in Nat /\ Cardinality(Addresses) \in Nat
  BY <1>1, FS_CardinalityType
<1>3. Cardinality(1 .. m) = m
  BY FS_Interval
<1>4. \A k \in 1 .. m : x[k].ip \in Ips
  BY DEF ListenerRec
<1>5. CASE Addresses = {}
  <2> DEFINE f == [k \in 1 .. m |-> x[k].port]
  <2>1. ASSUME NEW j \in 1 .. m, NEW k \in 1 .. m, f[j] = f[k] PROVE j = k
    <3>1. x[j].ip = IPADDR_ANY
      BY <1>4, <1>5 DEF Ips
    <3> QED BY <2>1, <3>1 DEF Apart
  <2>2. f \in Injection(1 .. m, Ports)
    BY <2>1 DEF Injection, IsInjective
  <2>3. m <= Cardinality(Ports)
    BY <1>1, <1>3, <2>2, FS_Injection
  <2>4. HeapBound = Cardinality(Ports) * 1
    BY <1>5 DEF HeapBound
  <2> QED BY <1>2, <2>3, <2>4
<1>6. CASE Addresses # {}
  <2>1. PICK b : b \in Addresses
    BY <1>6
  <2> DEFINE g(k) == IF x[k].ip = IPADDR_ANY THEN b ELSE x[k].ip
             f == [k \in 1 .. m |-> <<x[k].port, g(k)>>]
  <2>2. \A k \in 1 .. m : g(k) \in Addresses
    BY <1>4, <2>1 DEF Ips
  <2>3. ASSUME NEW j \in 1 .. m, NEW k \in 1 .. m, f[j] = f[k] PROVE j = k
    <3>1. x[j].port = x[k].port /\ g(j) = g(k)
      BY <2>3
    <3>2. CASE x[j].ip = IPADDR_ANY \/ x[k].ip = IPADDR_ANY
      BY <3>1, <3>2 DEF Apart
    <3>3. CASE ~ (x[j].ip = IPADDR_ANY \/ x[k].ip = IPADDR_ANY)
      <4>1. x[j].ip = x[k].ip
        BY <3>1, <3>3
      <4> QED BY <3>1, <4>1 DEF Apart
    <3> QED BY <3>2, <3>3
  <2>4. f \in [1 .. m -> Ports \X Addresses]
    <3>1. \A k \in 1 .. m : <<x[k].port, g(k)>> \in Ports \X Addresses
      BY <2>2
    <3> QED BY <3>1
  <2>5. f \in Injection(1 .. m, Ports \X Addresses)
    <3> HIDE DEF f
    <3> QED BY <2>3, <2>4 DEF Injection, IsInjective
  <2>6. /\ IsFiniteSet(Ports \X Addresses)
        /\ Cardinality(Ports \X Addresses)
             = Cardinality(Ports) * Cardinality(Addresses)
    BY <1>1, FS_Product
  <2>7. m <= Cardinality(Ports \X Addresses)
    BY <1>3, <2>5, <2>6, FS_Injection
  <2>8. HeapBound = Cardinality(Ports) * Cardinality(Addresses)
    BY <1>6 DEF HeapBound
  <2> QED BY <2>6, <2>7, <2>8
<1> QED BY <1>5, <1>6

\* A new listener y on object l, in front of the listeners a.
LEMMA OneMore ==
  ASSUME NEW n \in Nat, 1 .. n \subseteq Ids,
         NEW a \in Seq(1 .. n), NEW o \in [Ids -> ListenerRec],
         NEW l \in 1 .. n, ~In(l, a), NEW y \in ListenerRec, y.port \in Ports,
         Shown(a, o), AllApart(a, o),
         \A k \in 1 .. Len(a) : Apart(y, o[a[k]]) /\ Apart(o[a[k]], y)
  PROVE  /\ y.listening => /\ Shown(<<l>> \o a, [o EXCEPT ![l] = y])
                           /\ AllApart(<<l>> \o a, [o EXCEPT ![l] = y])
         /\ ~y.listening => /\ Shown(a, [o EXCEPT ![l] = y])
                            /\ AllApart(a, [o EXCEPT ![l] = y])
<1>1. PICK t : t = <<l>> \o a
  OBVIOUS
<1>2. PICK u : u = [o EXCEPT ![l] = y]
  OBVIOUS
<1>3. /\ Len(t) = 1 + Len(a) /\ t[1] = l /\ Len(a) \in Nat
      /\ \A k \in 1 .. Len(a) : t[1 + k] = a[k]
  BY <1>1
<1>4. \A k \in 1 .. Len(t) : k = 1 \/ \E i \in 1 .. Len(a) : k = 1 + i
  <2>1. ASSUME NEW k \in 1 .. Len(t), k # 1
        PROVE  \E i \in 1 .. Len(a) : k = 1 + i
    <3>1. k - 1 \in 1 .. Len(a) /\ k = 1 + (k - 1)
      BY <1>3, <2>1
    <3> QED BY <3>1
  <2> QED BY <2>1
<1>5. \A i \in 1 .. Len(a) : 1 + i \in 1 .. Len(t)
  BY <1>3
<1>6. 1 \in 1 .. Len(t)
  BY <1>3
<1>7. \A i \in 1 .. Len(a) : a[i] \in Ids /\ a[i] # l
  BY DEF In
<1>8. /\ u[l] = y
      /\ \A i \in 1 .. Len(a) : u[a[i]] = o[a[i]]
      /\ \A h \in Ids : h # l => u[h] = o[h]
  BY <1>2, <1>7
<1>9. ASSUME NEW h PROVE In(h, t) <=> h = l \/ In(h, a)
  <2>1. ASSUME In(h, t) PROVE h = l \/ In(h, a)
    <3>1. PICK k \in 1 .. Len(t) : t[k] = h
      BY <2>1 DEF In
    <3> QED BY <1>3, <1>4, <3>1 DEF In
  <2>2. ASSUME In(h, a) PROVE In(h, t)
    BY <1>3, <1>5, <2>2 DEF In
  <2>3. In(l, t)
    BY <1>3, <1>6 DEF In
  <2> QED BY <2>1, <2>2, <2>3
<1>10. ASSUME y.listening PROVE Shown(t, u)
  <2>1. ASSUME NEW h \in Ids PROVE u[h].listening <=> In(h, t)
    <3>1. CASE h = l
      BY <1>8, <1>9, <1>10, <3>1
    <3>2. CASE h # l
      BY <1>8, <1>9, <3>2 DEF Shown
    <3> QED BY <3>1, <3>2
  <2> QED BY <2>1 DEF Shown
<1>11. ASSUME ~y.listening PROVE Shown(a, u)
  <2>1. ASSUME NEW h \in Ids PROVE u[h].listening <=> In(h, a)
    <3>1. CASE h = l
      BY <1>8, <1>11, <3>1
    <3>2. CASE h # l
      BY <1>8, <3>2 DEF Shown
    <3> QED BY <3>1, <3>2
  <2> QED BY <2>1 DEF Shown
<1>12. AllApart(a, u)
  BY <1>8 DEF AllApart
<1>13. AllApart(t, u)
  <2>1. ASSUME NEW k \in 1 .. Len(t) PROVE u[t[k]].port \in Ports
    <3>1. CASE k = 1
      BY <1>3, <1>8, <3>1
    <3>2. ASSUME NEW i \in 1 .. Len(a), k = 1 + i
          PROVE  u[t[k]].port \in Ports
      <4>1. t[k] = a[i] /\ u[a[i]] = o[a[i]]
        BY <1>3, <1>8, <3>2
      <4> QED BY <4>1 DEF AllApart
    <3> QED BY <1>4, <3>1, <3>2
  <2>2. ASSUME NEW j \in 1 .. Len(t), NEW k \in 1 .. Len(t), j # k
        PROVE  Apart(u[t[j]], u[t[k]])
    <3>1. CASE j = 1
      <4>1. PICK i \in 1 .. Len(a) : k = 1 + i
        BY <1>4, <2>2, <3>1
      <4> QED BY <1>3, <1>8, <3>1, <4>1
    <3>2. CASE k = 1
      <4>1. PICK i \in 1 .. Len(a) : j = 1 + i
        BY <1>4, <2>2, <3>2
      <4> QED BY <1>3, <1>8, <3>2, <4>1
    <3>3. CASE j # 1 /\ k # 1
      <4>1. PICK i \in 1 .. Len(a) : j = 1 + i
        BY <1>4, <3>3
      <4>2. PICK h \in 1 .. Len(a) : k = 1 + h
        BY <1>4, <3>3
      <4>3. i # h
        BY <2>2, <4>1, <4>2
      <4>4. Apart(o[a[i]], o[a[h]])
        BY <4>3 DEF AllApart
      <4> QED BY <1>3, <1>8, <4>1, <4>2, <4>4
    <3> QED BY <3>1, <3>2, <3>3
  <2> QED BY <2>1, <2>2 DEF AllApart
<1> QED BY <1>1, <1>2, <1>10, <1>11, <1>12, <1>13

\* y competes with none of the listeners a.
Clear(y, a, o) ==
  \A k \in 1 .. Len(a) : Apart(y, o[a[k]]) /\ Apart(o[a[k]], y)

\* What SetUp writes into the object, and where Stop has left the lists.
Asked(ip, port, protocol, maxConns, ok) ==
  [ip |-> ip, port |-> port, protocol |-> protocol,
   maxConnections |-> maxConns, listening |-> ok]
Returned(a, f, o) == [active |-> a, free |-> f, obj |-> o, hung |-> FALSE]

\* With the lists a and f that the stopped listeners leave, SetUp keeps the
\* invariant, whether or not lwIP can listen.
LEMMA SetUpKeeps ==
  ASSUME NEW a, NEW f, NEW o,
         NEW ip \in Ips, NEW port \in Ports, NEW protocol \in Protocols,
         NEW maxConns \in 0 .. MaxConns, NEW ok \in BOOLEAN,
         created \in Nat, Good(a, f, created, o, FALSE),
         Clear(Asked(ip, port, protocol, maxConns, ok), a, o),
         SetUp(Returned(a, f, o), ip, port, protocol, maxConns, ok)
  PROVE  /\ ListenerInv'
         /\ hung' = FALSE
         /\ \E l \in Ids :
              /\ ~In(l, a)
              /\ obj' = [o EXCEPT ![l] = Asked(ip, port, protocol, maxConns, ok)]
              /\ activeList' = IF ok THEN <<l>> \o a ELSE a
<1> DEFINE y == Asked(ip, port, protocol, maxConns, ok)
           s == Returned(a, f, o)
<1> USE DEF Asked, Returned
<1>1. /\ Typed(a, f, created, o, FALSE) /\ Enumerates(a \o f, created)
      /\ Shown(a, o) /\ AllApart(a, o) /\ created <= HeapBound
  BY DEF Good
<1>0. \A k \in 1 .. Len(a) : Apart(y, o[a[k]]) /\ Apart(o[a[k]], y)
  BY DEF Clear
<1>2. /\ a \in Seq(1 .. created) /\ f \in Seq(1 .. created)
      /\ o \in [Ids -> ListenerRec] /\ created \in 0 .. MaxListeners
  BY <1>1 DEF Typed
<1>3. MaxListeners \in Nat
  BY ListenerAssumption
<1>4. y \in ListenerRec /\ y.port \in Ports /\ y.listening = ok
  BY DEF ListenerRec
<1> DEFINE l == Allocated(s)
           g == IF f # <<>> THEN Tail(f) ELSE <<>>
<1>5. /\ l <= MaxListeners
      /\ created' = IF l > created THEN l ELSE created
      /\ activeList' = IF ok THEN <<l>> \o a ELSE a
      /\ freeList' = IF ok THEN g ELSE <<l>> \o g
      /\ obj' = [o EXCEPT ![l] = y]
      /\ hung' = FALSE
  BY DEF SetUp, Becomes, Release
<1>6. l = IF f # <<>> THEN Head(f) ELSE created + 1
  BY DEF Allocated
<1> HIDE DEF l
<1>7. /\ created' \in 0 .. MaxListeners /\ l \in 1 .. created'
      /\ a \in Seq(1 .. created') /\ g \in Seq(1 .. created')
      /\ ~In(l, a) /\ created' <= HeapBound
      /\ Enumerates(activeList' \o freeList', created')
  <2>1. CASE f # <<>>
    <3>1. /\ l \in 1 .. created /\ ~In(l, a)
          /\ Enumerates((<<l>> \o a) \o Tail(f), created)
      BY <1>1, <1>2, <1>6, <2>1, HeadEnumerates
    <3>2. created' = created
      BY <1>5, <3>1
    <3>3. g = Tail(f) /\ g \in Seq(1 .. created)
      BY <1>2, <2>1
    <3>4. <<l>> \o Tail(f) = f
      BY <1>2, <1>6, <2>1
    <3>5. activeList' \o freeList' =
            IF ok THEN (<<l>> \o a) \o Tail(f) ELSE a \o f
      BY <1>5, <3>3, <3>4
    <3>6. Enumerates(activeList' \o freeList', created')
      BY <1>1, <3>1, <3>2, <3>5
    <3> QED BY <1>1, <1>2, <3>1, <3>2, <3>3, <3>6
  <2>2. CASE f = <<>>
    <3>1. l = created + 1 /\ created' = created + 1 /\ g = <<>>
      BY <1>5, <1>6, <2>2
    <3>2. a \o f = a
      BY <1>2, <2>2
    <3>3. Enumerates(a, created)
      BY <1>1, <3>2
    <3>4. /\ Enumerates(<<l>> \o a, created') /\ Enumerates(a \o <<l>>, created')
          /\ ~In(l, a)
      BY <1>2, <3>1, <3>3, NewEnumerates
    <3>5. 1 .. created \subseteq 1 .. created' /\ l \in 1 .. created'
          /\ created' \in 0 .. MaxListeners
      BY <1>3, <1>5, <3>1
    <3>6. a \in Seq(1 .. created') /\ g \in Seq(1 .. created')
          /\ <<l>> \in Seq(1 .. created')
      <4>1. PICK d : d = created'
        OBVIOUS
      <4>2. 1 .. created \subseteq 1 .. d /\ l \in 1 .. d
        BY <3>5, <4>1
      <4>3. a \in Seq(1 .. d)
        <5>1. a \in Seq(1 .. created)
          BY <1>2
        <5> QED BY <4>2, <5>1, SeqWider
      <4>4. <<>> \in Seq(1 .. d) /\ <<l>> \in Seq(1 .. d)
        BY <4>2
      <4> QED BY <3>1, <4>1, <4>3, <4>4
    <3>7. (<<l>> \o a) \o <<>> = <<l>> \o a
      <4>1. PICK t : t = <<l>> \o a
        OBVIOUS
      <4>2. t \in Seq(1 .. created')
        BY <3>6, <4>1
      <4>3. t \o <<>> = t
        BY <4>2
      <4> QED BY <4>1, <4>3
    <3>8. <<l>> \o <<>> = <<l>>
      BY <3>6
    <3>9. activeList' \o freeList' = IF ok THEN <<l>> \o a ELSE a \o <<l>>
      BY <1>5, <3>1, <3>7, <3>8
    <3>10. Enumerates(activeList' \o freeList', created')
      BY <3>4, <3>9
    <3>11. created + 1 <= HeapBound
      <4> DEFINE x == [k \in 1 .. created + 1 |->
                         IF k = created + 1 THEN y ELSE o[a[k]]]
      <4>1. Len(a) = created
        BY <3>3 DEF Enumerates
      <4>2. \A k \in 1 .. created : a[k] \in Ids
        BY <1>2, <1>3, <4>1 DEF Ids
      <4>3. \A k \in 1 .. created + 1 : k = created + 1 \/ k \in 1 .. created
        OBVIOUS
      <4>4. ~ (created + 1 \in 1 .. created)
        OBVIOUS
      <4>5. x \in [1 .. created + 1 -> ListenerRec]
        BY <1>2, <1>4, <4>2, <4>3
      <4>6. /\ x[created + 1] = y
            /\ \A k \in 1 .. created : x[k] = o[a[k]]
        <5>1. created + 1 \in 1 .. created + 1
          OBVIOUS
        <5>2. \A k \in 1 .. created : k \in 1 .. created + 1 /\ k # created + 1
          OBVIOUS
        <5> QED BY <5>1, <5>2
      <4> HIDE DEF x
      <4>7. ASSUME NEW k \in 1 .. created + 1 PROVE x[k].port \in Ports
        BY <1>1, <1>4, <4>1, <4>3, <4>6 DEF AllApart
      <4>8. ASSUME NEW j \in 1 .. created + 1, NEW k \in 1 .. created + 1, j # k
            PROVE  Apart(x[j], x[k])
        <5>1. CASE j \in 1 .. created /\ k \in 1 .. created
          BY <1>1, <4>1, <4>6, <4>8, <5>1 DEF AllApart
        <5>2. CASE j = created + 1 /\ k \in 1 .. created
          BY <1>0, <4>1, <4>6, <5>2
        <5>3. CASE k = created + 1 /\ j \in 1 .. created
          BY <1>0, <4>1, <4>6, <5>3
        <5> QED BY <4>3, <4>8, <5>1, <5>2, <5>3
      <4>9. created + 1 \in Nat
        OBVIOUS
      <4> QED BY <4>5, <4>7, <4>8, <4>9, ApartBounded
    <3> QED BY <3>1, <3>4, <3>5, <3>6, <3>10, <3>11
  <2> QED BY <2>1, <2>2
<1> HIDE DEF g
<1>8. created' \in Nat /\ 1 .. created' \subseteq Ids
  BY <1>3, <1>7 DEF Ids
<1>9. l \in Ids
  BY <1>7, <1>8
<1>10. obj' \in [Ids -> ListenerRec]
  BY <1>2, <1>4, <1>5
<1>11. <<l>> \o a \in Seq(1 .. created') /\ <<l>> \o g \in Seq(1 .. created')
  BY <1>7
<1>12. Typed(activeList', freeList', created', obj', hung')
  BY <1>5, <1>7, <1>10, <1>11 DEF Typed
<1>13. Shown(activeList', obj') /\ AllApart(activeList', obj')
  <2>1. /\ ok => /\ Shown(<<l>> \o a, [o EXCEPT ![l] = y])
                 /\ AllApart(<<l>> \o a, [o EXCEPT ![l] = y])
        /\ ~ok => /\ Shown(a, [o EXCEPT ![l] = y])
                  /\ AllApart(a, [o EXCEPT ![l] = y])
    BY <1>0, <1>1, <1>2, <1>4, <1>7, <1>8, OneMore
  <2>2. CASE ok
    BY <1>5, <2>1, <2>2
  <2>3. CASE ~ok
    BY <1>5, <2>1, <2>3
  <2> QED BY <2>2, <2>3
<1>14. ListenerInv'
  BY <1>7, <1>12, <1>13 DEF ListenerInv, Good
<1> QED BY <1>5, <1>7, <1>9, <1>14

-----------------------------------------------------------------------------
(* The steps.                                                              *)

\* There is a listener in a for protocol x on port y.
Serves(a, o, x, y) ==
  \E k \in 1 .. Len(a) : o[a[k]].protocol = x /\ o[a[k]].port = y

\* Listen keeps the invariant.  If it returns, it leaves the listeners on other
\* ports alone, and a new listener serves what was asked for.
LEMMA ListenKeeps ==
  ASSUME ListenerInv,
         NEW ip \in Ips, NEW port \in Ports, NEW protocol \in Protocols,
         NEW maxConns \in 0 .. MaxConns, NEW ok \in BOOLEAN,
         Listen(ip, port, protocol, maxConns, ok)
  PROVE  /\ ListenerInv'
         /\ ~hung' =>
              \A x, y :
                /\ Serves(activeList, obj, x, y) /\ y # port
                     => Serves(activeList', obj', x, y)
                /\ Serves(activeList', obj', x, y)
                     => Serves(activeList, obj, x, y) \/ <<x, y>> = <<protocol, port>>
<1> DEFINE S == ToStop(ip, port, maxConns)
           s == Stopped(S)
<1>1. /\ Typed(activeList, freeList, created, obj, hung)
      /\ activeList \in Seq(1 .. created) /\ created \in Nat
      /\ 1 .. created \subseteq Ids /\ Len(activeList) \in Nat
      /\ DOMAIN activeList = 1 .. Len(activeList)
  BY ListenerAssumption DEF ListenerInv, Good, Typed, Ids
<1>2. S \in SUBSET (1 .. Len(activeList))
  BY <1>1 DEF ToStop
<1>3. ~hung
  BY DEF Listen
<1>4. /\ Good(s.active, s.free, created, s.obj, s.hung)
      /\ \A l \in Ids : Remains(s.obj[l], obj[l])
      /\ \E n \in 0 .. Len(activeList) :
           /\ s.active = Rest(activeList, n)
           /\ n + 1 \notin S
           /\ ~s.hung => S = 1 .. n
  BY <1>2, <1>3, StopKeeps
<1>5. PICK n \in 0 .. Len(activeList) :
           /\ s.active = Rest(activeList, n)
           /\ ~s.hung => S = 1 .. n
  BY <1>4
<1>6. \A k \in S : obj[activeList[k]].port = port
  BY DEF ToStop
<1>7. s = [active |-> s.active, free |-> s.free, obj |-> s.obj, hung |-> s.hung]
  BY DEF Stopped
<1>8. \/ Becomes(s) /\ UNCHANGED created
      \/ /\ ~s.hung /\ Serving(ip, port, maxConns) = {} /\ maxConns # 0
         /\ SetUp(s, ip, port, protocol, maxConns, ok)
  BY DEF Listen, CannotAllocate
<1> HIDE DEF s, S
<1>9. /\ Len(s.active) = Len(activeList) - n
      /\ \A k \in 1 .. Len(activeList) - n : s.active[k] = activeList[n + k]
  BY <1>1, <1>5, RestMembers
<1>10. ASSUME NEW k \in 1 .. Len(s.active)
       PROVE  /\ n + k \in 1 .. Len(activeList) /\ s.active[k] = activeList[n + k]
              /\ s.obj[s.active[k]].port = obj[activeList[n + k]].port
              /\ s.obj[s.active[k]].protocol = obj[activeList[n + k]].protocol
              /\ s.obj[s.active[k]].ip = obj[activeList[n + k]].ip
  <2>1. k \in 1 .. Len(activeList) - n
    BY <1>9
  <2>2. n + k \in 1 .. Len(activeList) /\ s.active[k] = activeList[n + k]
    <3>1. s.active[k] = activeList[n + k]
      BY <1>9, <2>1
    <3>2. Len(activeList) \in Nat
      BY <1>1
    <3> QED BY <2>1, <3>1, <3>2
  <2>3. activeList[n + k] \in Ids
    BY <1>1, <2>2
  <2>4. obj[activeList[n + k]] \in ListenerRec
    BY <1>1, <2>3 DEF Typed
  <2> QED BY <1>4, <2>2, <2>3, <2>4, RemainsSame
<1>11. ASSUME NEW x, NEW y, Serves(s.active, s.obj, x, y)
       PROVE  Serves(activeList, obj, x, y)
  BY <1>10, <1>11 DEF Serves
<1>12. ASSUME ~s.hung, NEW x, NEW y, Serves(activeList, obj, x, y), y # port
       PROVE  Serves(s.active, s.obj, x, y)
  <2>1. PICK k \in 1 .. Len(activeList) :
          obj[activeList[k]].protocol = x /\ obj[activeList[k]].port = y
    BY <1>12 DEF Serves
  <2>2. ~ (k \in 1 .. n)
    BY <1>5, <1>6, <1>12, <2>1
  <2> DEFINE j == k - n
  <2>3. j \in 1 .. Len(s.active) /\ n + j = k
    BY <1>1, <1>9, <2>2
  <2> HIDE DEF j
  <2> QED BY <1>10, <2>1, <2>3 DEF Serves
<1>13. CASE Becomes(s) /\ UNCHANGED created
  <2>1. /\ activeList' = s.active /\ freeList' = s.free /\ obj' = s.obj
        /\ hung' = s.hung /\ created' = created
    BY <1>13 DEF Becomes
  <2>2. ListenerInv'
    BY <1>4, <2>1 DEF ListenerInv
  <2> QED BY <1>11, <1>12, <2>1, <2>2
<1>14. CASE /\ ~s.hung /\ Serving(ip, port, maxConns) = {} /\ maxConns # 0
            /\ SetUp(s, ip, port, protocol, maxConns, ok)
  <2>1. PICK a, f, o : a = s.active /\ f = s.free /\ o = s.obj
    OBVIOUS
  <2>2. s.hung = FALSE
    BY <1>4, <1>14 DEF Good, Typed
  <2>3. s = [active |-> a, free |-> f, obj |-> o, hung |-> FALSE]
        /\ Good(a, f, created, o, FALSE)
    BY <1>4, <1>7, <2>1, <2>2
  <2> DEFINE y == Asked(ip, port, protocol, maxConns, ok)
  <2>4. y.ip = ip /\ y.port = port /\ y.protocol = protocol
    BY DEF Asked
  <2> HIDE DEF y
  <2>5. ASSUME NEW k \in 1 .. Len(a)
        PROVE  Apart(y, o[a[k]]) /\ Apart(o[a[k]], y)
    <3>1. /\ n + k \in 1 .. Len(activeList) /\ n + k \in DOMAIN activeList
          /\ o[a[k]].port = obj[activeList[n + k]].port
          /\ o[a[k]].ip = obj[activeList[n + k]].ip
      BY <1>1, <1>10, <2>1
    <3>2. CASE o[a[k]].port # port
      BY <2>4, <3>2 DEF Apart
    <3>3. CASE o[a[k]].port = port
      <4>1. o[a[k]].ip \notin {IPADDR_ANY, ip}
        BY <1>14, <3>1, <3>3 DEF Serving
      <4>2. n + k \notin S
        BY <1>5, <1>14, <2>5
      <4>3. ip # IPADDR_ANY
        BY <1>14, <3>1, <3>3, <4>2 DEF ToStop, S
      <4> QED BY <2>4, <4>1, <4>3 DEF Apart
    <3> QED BY <3>2, <3>3
  <2>6. /\ ListenerInv' /\ hung' = FALSE
        /\ \E l \in Ids : /\ ~In(l, a)
                          /\ obj' = [o EXCEPT ![l] = y]
                          /\ activeList' = IF ok THEN <<l>> \o a ELSE a
    <3>1. Clear(Asked(ip, port, protocol, maxConns, ok), a, o)
      BY <2>5 DEF Clear, y
    <3>2. SetUp(Returned(a, f, o), ip, port, protocol, maxConns, ok)
      BY <1>14, <2>3 DEF Returned
    <3>3. created \in Nat /\ Good(a, f, created, o, FALSE)
      BY <1>1, <2>3
    <3> QED BY <3>1, <3>2, <3>3, SetUpKeeps DEF y
  <2>7. PICK l \in Ids : /\ ~In(l, a)
                         /\ obj' = [o EXCEPT ![l] = y]
                         /\ activeList' = IF ok THEN <<l>> \o a ELSE a
    BY <2>6
  <2>8. a \in Seq(1 .. created) /\ o \in [Ids -> ListenerRec]
    BY <2>3 DEF Good, Typed
  <2>9. \A k \in 1 .. Len(a) : a[k] \in Ids /\ a[k] # l
    BY <1>1, <2>7, <2>8 DEF In
  <2>10. obj'[l] = y /\ \A k \in 1 .. Len(a) : obj'[a[k]] = o[a[k]]
    BY <2>7, <2>8, <2>9
  <2>11. ASSUME NEW k \in 1 .. Len(activeList')
         PROVE  activeList'[k] = l \/ \E j \in 1 .. Len(a) : activeList'[k] = a[j]
    BY <2>7, <2>8
  <2>12. ASSUME NEW j \in 1 .. Len(a)
         PROVE  \E k \in 1 .. Len(activeList') : activeList'[k] = a[j]
    <3>1. CASE ok
      <4>1. /\ activeList' = <<l>> \o a /\ 1 + j \in 1 .. Len(<<l>> \o a)
            /\ (<<l>> \o a)[1 + j] = a[j]
        BY <2>7, <2>8, <3>1
      <4> QED BY <4>1
    <3>2. CASE ~ok
      BY <2>7, <3>2
    <3> QED BY <3>1, <3>2
  <2>13. ASSUME NEW u, NEW v, Serves(activeList, obj, u, v), v # port
         PROVE  Serves(activeList', obj', u, v)
    <3>1. PICK j \in 1 .. Len(a) : o[a[j]].protocol = u /\ o[a[j]].port = v
      BY <1>12, <1>14, <2>1, <2>13 DEF Serves
    <3>2. PICK k \in 1 .. Len(activeList') : activeList'[k] = a[j]
      BY <2>12
    <3> QED BY <2>10, <3>1, <3>2 DEF Serves
  <2>14. ASSUME NEW u, NEW v, Serves(activeList', obj', u, v)
         PROVE  Serves(activeList, obj, u, v) \/ <<u, v>> = <<protocol, port>>
    <3>1. PICK k \in 1 .. Len(activeList') :
            obj'[activeList'[k]].protocol = u /\ obj'[activeList'[k]].port = v
      BY <2>14 DEF Serves
    <3>2. CASE activeList'[k] = l
      BY <2>4, <2>10, <3>1, <3>2
    <3>3. ASSUME NEW j \in 1 .. Len(a), activeList'[k] = a[j]
          PROVE  Serves(activeList, obj, u, v)
      <4>1. o[a[j]].protocol = u /\ o[a[j]].port = v
        BY <2>10, <3>1, <3>3
      <4>2. Serves(s.active, s.obj, u, v)
        BY <2>1, <4>1 DEF Serves
      <4> QED BY <1>11, <4>2
    <3> QED BY <2>11, <3>2, <3>3
  <2> QED BY <2>6, <2>13, <2>14
<1> QED BY <1>8, <1>13, <1>14

\* StopListening empties the list of listeners.
LEMMA StopListeningKeeps ==
  ASSUME ListenerInv, StopListening
  PROVE  ListenerInv' /\ activeList' = <<>> /\ hung' = FALSE
<1> DEFINE S == DOMAIN activeList
           s == Stopped(S)
<1>1. /\ activeList \in Seq(1 .. created)
      /\ Len(activeList) \in Nat /\ S = 1 .. Len(activeList)
  BY DEF ListenerInv, Good, Typed
<1>2. /\ activeList' = s.active /\ freeList' = s.free /\ obj' = s.obj
      /\ hung' = s.hung /\ created' = created /\ ~hung
  BY DEF StopListening, Becomes
<1>3. S \in SUBSET (1 .. Len(activeList))
  BY <1>1
<1>4. s.hung = (Unlinkable(S) # S)
  BY DEF Stopped
<1>5. Unlinkable(S) = S /\ s = Stopped(S)
  BY <1>1 DEF Unlinkable
<1> HIDE DEF s, S
<1>6. /\ Good(s.active, s.free, created, s.obj, s.hung)
      /\ \E n \in 0 .. Len(activeList) :
           s.active = Rest(activeList, n) /\ n + 1 \notin S
  BY <1>2, <1>3, <1>5, StopKeeps
<1>7. PICK n \in 0 .. Len(activeList) :
        s.active = Rest(activeList, n) /\ n + 1 \notin S
  BY <1>6
<1>8. n = Len(activeList)
  BY <1>1, <1>7
<1>9. s.active \in Seq(1 .. created) /\ Len(s.active) = 0
  BY <1>1, <1>7, <1>8, RestMembers
<1>10. s.active = <<>>
  BY <1>9
<1>11. ListenerInv'
  BY <1>2, <1>6 DEF ListenerInv
<1> QED BY <1>2, <1>4, <1>5, <1>10, <1>11

\* So does Accept, which only ever closes the listener it is called on.
LEMMA ListenerAcceptKeeps ==
  ASSUME ListenerInv, NEW l \in Ids, NEW numConns, NEW slotFree,
         ListenerAccept(l, numConns, slotFree)
  PROVE  /\ ListenerInv'
         /\ created' = created
         /\ \A m \in Ids \ {l} : obj'[m] = obj[m]
         /\ Accepts(l, numConns, slotFree) /\ obj[l].protocol = protocolFtpData
              => obj'[l] = [obj[l] EXCEPT !.listening = FALSE]
         /\ ~(Accepts(l, numConns, slotFree) /\ obj[l].protocol = protocolFtpData)
              => UNCHANGED lvars
<1>1. CASE ~(Accepts(l, numConns, slotFree) /\ obj[l].protocol = protocolFtpData)
  <2>1. UNCHANGED lvars
    BY <1>1 DEF ListenerAccept, lvars
  <2>2. ListenerInv'
    BY <2>1 DEF lvars, ListenerInv
  <2> QED BY <1>1, <2>1, <2>2 DEF lvars
<1>2. CASE Accepts(l, numConns, slotFree) /\ obj[l].protocol = protocolFtpData
  <2> DEFINE S == Position(l)
             s == Stopped(S)
  <2>1. /\ activeList' = s.active /\ freeList' = s.free /\ obj' = s.obj
        /\ hung' = s.hung /\ created' = created /\ ~hung
    BY <1>2 DEF ListenerAccept, Becomes
  <2>2. /\ Typed(activeList, freeList, created, obj, hung)
        /\ activeList \in Seq(1 .. created)
        /\ DOMAIN activeList = 1 .. Len(activeList)
        /\ Enumerates(activeList \o freeList, created)
        /\ freeList \in Seq(1 .. created) /\ created \in Nat
    BY ListenerAssumption DEF ListenerInv, Good, Typed
  <2>3. S \in SUBSET (1 .. Len(activeList))
    BY <2>2 DEF Position
  <2>4. In(l, activeList)
    BY <1>2, <2>1 DEF Accepts, ListenerInv, Good, Shown
  <2>5. PICK k \in 1 .. Len(activeList) : activeList[k] = l
    BY <2>4 DEF In
  <2>6. \A j \in 1 .. Len(activeList) : activeList[j] = l => j = k
    <3>1. /\ Len(activeList \o freeList) = Len(activeList) + Len(freeList)
          /\ \A j \in 1 .. Len(activeList) :
               (activeList \o freeList)[j] = activeList[j]
      BY <2>2, Joined
    <3>2. 1 .. Len(activeList) \subseteq 1 .. Len(activeList \o freeList)
      BY <2>2, <3>1
    <3> QED BY <2>2, <2>5, <3>1, <3>2 DEF Enumerates, OnceIn
  <2>7. S = {k} /\ k \in Nat
    BY <2>2, <2>5, <2>6 DEF Position
  <2>8. {i \in S : \A j \in S : j < i => j \in Unlinkable(S)} = {k}
    <3> HIDE DEF S
    <3> QED BY <2>7
  <2>9. s.obj = ClosedAt({k})
    BY <2>8 DEF Stopped
  <2>10. Good(s.active, s.free, created, s.obj, s.hung)
    <3> HIDE DEF S
    <3> QED BY <2>1, <2>3, StopKeeps
  <2> HIDE DEF s, S
  <2>11. ListenerInv'
    BY <2>1, <2>10 DEF ListenerInv
  <2>12. /\ obj'[l] = [obj[l] EXCEPT !.listening = FALSE]
         /\ \A m \in Ids \ {l} : obj'[m] = obj[m]
    BY <2>1, <2>5, <2>9 DEF ClosedAt
  <2> QED BY <1>2, <2>1, <2>11, <2>12
<1> QED BY <1>1, <1>2

\* Every step, and every stutter, keeps the invariant.
LEMMA ListenerNextKeeps ==
  ASSUME ListenerInv, [ListenerNext]_lvars
  PROVE  ListenerInv'
<1>1. ASSUME NEW ip \in Ips, NEW port \in Ports, NEW protocol \in Protocols,
             NEW maxConns \in 0 .. MaxConns, NEW ok \in BOOLEAN,
             Listen(ip, port, protocol, maxConns, ok)
      PROVE  ListenerInv'
  BY <1>1, ListenKeeps
<1>2. CASE StopListening
  BY <1>2, StopListeningKeeps
<1>3. ASSUME NEW l \in 1 .. created, NEW numConns \in 0 .. MaxConns,
             NEW slotFree \in BOOLEAN, ListenerAccept(l, numConns, slotFree)
      PROVE  ListenerInv'
  <2>1. l \in Ids
    BY ListenerAssumption DEF ListenerInv, Good, Typed, Ids
  <2> QED BY <1>3, <2>1, ListenerAcceptKeeps
<1>4. CASE WatchdogReset
  BY <1>4, NoListeners DEF WatchdogReset, ListenerInv
<1>5. CASE UNCHANGED lvars
  BY <1>5 DEF lvars, ListenerInv
<1> QED BY <1>1, <1>2, <1>3, <1>4, <1>5 DEF ListenerNext

\* The invariant holds in every reachable state.
THEOREM ListenerInvHolds == ListenerSpec => []ListenerInv
BY ListenerInitInv, ListenerNextKeeps, PTL DEF ListenerSpec

\* The members of the objects and of the lists keep their types.
THEOREM ListenerTypeCorrect == ListenerSpec => []ListenerTypeOK
BY ListenerInvHolds, ListenerInvImplies, PTL

\* No object is lost, and none is linked twice.
THEOREM ListsHold == ListenerSpec => []ListsPartition
BY ListenerInvHolds, ListenerInvImplies, PTL

\* What is in the active list listens, and nothing else does.
THEOREM ActiveHolds == ListenerSpec => []ActiveMeansListening
BY ListenerInvHolds, ListenerInvImplies, PTL

\* No two listeners compete for a connection.
THEOREM OverlapHolds == ListenerSpec => []NoOverlap
BY ListenerInvHolds, ListenerInvImplies, PTL

\* The heap never holds more objects than there are ways to listen.
THEOREM HeapHolds == ListenerSpec => []HeapBounded
BY ListenerInvHolds, ListenerInvImplies, PTL
=============================================================================
