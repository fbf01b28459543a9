---------------------------- MODULE LocksProofs ----------------------------
(***************************************************************************)
(* NoCyclicWait of Locks for any set of threads, any number of sections    *)
(* and any number of clusters a call adds.                                 *)
(*                                                                         *)
(* The argument: the guards of a section are nested, and each is taken in  *)
(* the order fs, fat, data, root, or is a second guard for reading fs of a *)
(* thread that reads fs already.  Nobody can block the second kind, since  *)
(* guards of two threads never conflict.  So whoever blocks a thread waits *)
(* itself, if it does, for a lock further up, and the circle would need a  *)
(* lock above root.                                                        *)
(***************************************************************************)
EXTENDS Locks, TLAPS, SequenceTheorems

Level == [fs |-> 1, fat |-> 2, data |-> 3, root |-> 4]

\* Guard g may be taken by a thread that has the first n guards of h.
Fits(h, n, g) ==
  \/ \A i \in 1..n : Level[h[i].lock] < Level[g.lock]
  \/ /\ g = Read("fs")
     /\ \E i \in 1..n : h[i] = Read("fs")
     /\ \A i \in 1..n : h[i] # Write("fs")

\* nest[k] are the guards of a thread k steps on.
Nested(h, d, nest) ==
  /\ nest[0] = h /\ nest[Len(d)] = <<>>
  /\ \A k \in 1..Len(d) :
       \/ /\ d[k] = Drop /\ nest[k - 1] # <<>>
          /\ nest[k] = SubSeq(nest[k - 1], 1, Len(nest[k - 1]) - 1)
       \/ /\ d[k] \in Guards /\ Fits(nest[k - 1], Len(nest[k - 1]), d[k])
          /\ nest[k] = Append(nest[k - 1], d[k])

\* A thread with guards h and steps d to go takes and drops guards in order.
Orderly(h, d) == \E nest \in [0..Len(d) -> Seq(Guards)] : Nested(h, d, nest)

Types ==
  /\ held \in [Threads -> Seq(Guards)]
  /\ todo \in [Threads -> Seq(Guards \cup {Drop})]
  /\ left \in [Threads -> Nat]

\* The rule of the lock: no two threads hold guards that conflict.
Exclusive ==
  \A t, u \in Threads :
    t # u => \A g \in HoldsOf(t), h \in HoldsOf(u) : ~Conflict(g, h)

IInv ==
  /\ Types
  /\ Exclusive
  /\ \A t \in Threads : Orderly(held[t], todo[t])

-----------------------------------------------------------------------------
(* Sections are orderly.                                                   *)

LEMMA GuardShape ==
  /\ Drop \notin Guards
  /\ \A g \in Guards : /\ g.lock \in {"fs", "fat", "data", "root"}
                       /\ g.mode \in {"read", "write"}
                       /\ g = [lock |-> g.lock, mode |-> g.mode]
                       /\ Level[g.lock] \in 1..4
  /\ \A l \in {"fs", "fat", "data", "root"} : Read(l) \in Guards /\ Write(l) \in Guards
<1>1. \A l \in {"fs", "fat", "data", "root"} : Read(l) \in Guards /\ Write(l) \in Guards
  BY DEF Guards
<1>2. \A g \in Guards : \E l \in {"fs", "fat", "data", "root"} : g = Read(l) \/ g = Write(l)
  BY DEF Guards
<1>3. ASSUME NEW g \in Guards
      PROVE  /\ g.lock \in {"fs", "fat", "data", "root"}
             /\ g.mode \in {"read", "write"}
             /\ g = [lock |-> g.lock, mode |-> g.mode]
  BY <1>2 DEF Read, Write
<1>4. \A l \in {"fs", "fat", "data", "root"} : Level[l] \in 1..4
  BY DEF Level
<1>5. Drop.mode = "drop"
  BY DEF Drop
<1> QED BY <1>1, <1>3, <1>4, <1>5

\* Drops of n guards.
Drops(n) == [i \in 1..n |-> Drop]

LEMMA DropsShape ==
  ASSUME NEW n \in Nat
  PROVE  /\ Drops(n) \in Seq(Guards \cup {Drop}) /\ Len(Drops(n)) = n
         /\ \A i \in 1..n : Drops(n)[i] = Drop
<1>1. Drops(n) \in [1..n -> Guards \cup {Drop}]
  BY DEF Drops
<1>2. Drops(n) \in Seq(Guards \cup {Drop})
  BY <1>1, SeqDef
<1>3. DOMAIN Drops(n) = 1..n
  BY DEF Drops
<1> QED BY <1>1, <1>2, <1>3, LenProperties, SMT DEF Drops

\* What Alone and Holding consist of.
LEMMA HoldingShape ==
  ASSUME NEW g \in Seq(Guards), NEW body \in Seq(Guards \cup {Drop})
  PROVE  /\ Holding(g, body) \in Seq(Guards \cup {Drop})
         /\ Len(Holding(g, body)) = Len(g) + Len(body) + Len(g)
         /\ \A k \in 1..Len(g) : Holding(g, body)[k] = g[k]
         /\ \A k \in Len(g) + 1..Len(g) + Len(body) :
              Holding(g, body)[k] = body[k - Len(g)]
         /\ \A k \in Len(g) + Len(body) + 1..Len(g) + Len(body) + Len(g) :
              Holding(g, body)[k] = Drop
<1> DEFINE n == Len(g)
           m == Len(body)
           S == Guards \cup {Drop}
           d == Holding(g, body)
<1>1. n \in Nat /\ m \in Nat /\ g \in Seq(S)
  BY LenProperties, SeqMonotonic
<1>2. d = (g \o body) \o Drops(n)
  BY DEF Holding, Drops
<1> HIDE DEF n, m, d, S
<1>3. /\ g \o body \in Seq(S) /\ Len(g \o body) = n + m
      /\ \A k \in 1..n + m : (g \o body)[k] = IF k <= n THEN g[k] ELSE body[k - n]
  BY <1>1, ConcatProperties DEF n, m, S
<1>4. Drops(n) \in Seq(S) /\ Len(Drops(n)) = n /\ \A i \in 1..n : Drops(n)[i] = Drop
  BY <1>1, DropsShape DEF S
<1>5. /\ d \in Seq(S) /\ Len(d) = (n + m) + n
      /\ \A k \in 1..(n + m) + n :
           d[k] = IF k <= n + m THEN (g \o body)[k] ELSE Drops(n)[k - (n + m)]
  <2> DEFINE a == g \o body
             b == Drops(n)
  <2>1. a \in Seq(S) /\ b \in Seq(S) /\ Len(a) = n + m /\ Len(b) = n /\ d = a \o b
    BY <1>2, <1>3, <1>4
  <2> HIDE DEF a, b
  <2>2. /\ d \in Seq(S) /\ Len(d) = Len(a) + Len(b)
        /\ \A k \in 1..Len(a) + Len(b) :
             d[k] = IF k <= Len(a) THEN a[k] ELSE b[k - Len(a)]
    BY <2>1, ConcatProperties
  <2> QED BY <2>1, <2>2 DEF a, b
<1>6. \A k \in 1..n : d[k] = g[k]
  <2>1. ASSUME NEW k \in 1..n PROVE k \in 1..(n + m) + n /\ k <= n + m /\ k <= n /\ k \in 1..n + m
    BY <1>1, SMT
  <2> QED BY <2>1, <1>3, <1>5
<1>7. \A k \in n + 1..n + m : d[k] = body[k - n]
  <2>1. ASSUME NEW k \in n + 1..n + m
        PROVE  k \in 1..(n + m) + n /\ k <= n + m /\ ~(k <= n) /\ k \in 1..n + m
    BY <1>1, SMT
  <2> QED BY <2>1, <1>3, <1>5
<1>8. \A k \in n + m + 1..n + m + n : d[k] = Drop
  <2>1. ASSUME NEW k \in n + m + 1..n + m + n
        PROVE  k \in 1..(n + m) + n /\ ~(k <= n + m) /\ k - (n + m) \in 1..n
    BY <1>1, SMT
  <2> QED BY <2>1, <1>4, <1>5
<1> QED BY <1>5, <1>6, <1>7, <1>8 DEF n, m, d, S

LEMMA AloneShape ==
  ASSUME NEW g \in Seq(Guards)
  PROVE  /\ Alone(g) \in Seq(Guards \cup {Drop})
         /\ Len(Alone(g)) = Len(g) + Len(g)
         /\ \A k \in 1..Len(g) : Alone(g)[k] = g[k]
         /\ \A k \in Len(g) + 1..Len(g) + Len(g) : Alone(g)[k] = Drop
<1> DEFINE none == <<>>
<1>1. none \in Seq(Guards \cup {Drop}) /\ Len(none) = 0 /\ Alone(g) = Holding(g, none)
  BY EmptySeq DEF Alone
<1> HIDE DEF none
<1>2. /\ Holding(g, none) \in Seq(Guards \cup {Drop})
      /\ Len(Holding(g, none)) = Len(g) + Len(none) + Len(g)
      /\ \A k \in 1..Len(g) : Holding(g, none)[k] = g[k]
      /\ \A k \in Len(g) + Len(none) + 1..Len(g) + Len(none) + Len(g) :
           Holding(g, none)[k] = Drop
  BY <1>1, HoldingShape, Zenon
<1>3. Len(g) + Len(none) = Len(g)
  BY <1>1, LenProperties
<1> QED BY <1>1, <1>2, <1>3

\* A prefix without its last element, and with the next one.
LEMMA Prefixes ==
  ASSUME NEW g \in Seq(Guards), NEW k \in 0..Len(g)
  PROVE  /\ SubSeq(g, 1, k) \in Seq(Guards) /\ Len(SubSeq(g, 1, k)) = k
         /\ \A i \in 1..k : SubSeq(g, 1, k)[i] = g[i]
         /\ k > 0 => SubSeq(SubSeq(g, 1, k), 1, k - 1) = SubSeq(g, 1, k - 1)
         /\ k > 0 => Append(SubSeq(g, 1, k - 1), g[k]) = SubSeq(g, 1, k)
<1>0. Len(g) \in Nat /\ \A i \in 1..Len(g) : g[i] \in Guards
  BY LenProperties, ElementOfSeq
<1>1. ASSUME NEW j \in 0..Len(g)
      PROVE  /\ SubSeq(g, 1, j) \in Seq(Guards) /\ Len(SubSeq(g, 1, j)) = j
             /\ \A i \in 1..j : SubSeq(g, 1, j)[i] = g[i]
  <2>1. /\ SubSeq(g, 1, j) \in Seq(Guards)
        /\ Len(SubSeq(g, 1, j)) = IF 1 <= j THEN j - 1 + 1 ELSE 0
        /\ \A i \in 1..j - 1 + 1 : SubSeq(g, 1, j)[i] = g[1 + i - 1]
    <3>1. 1 \in Int /\ j \in Int /\ \A i \in 1..j : g[i] \in Guards
      BY <1>0
    <3> QED BY <3>1, SubSeqProperties
  <2> QED BY <2>1, <1>0, SMT
<1> DEFINE p == SubSeq(g, 1, k)
           q == SubSeq(g, 1, k - 1)
<1>2. CASE k = 0
  BY <1>1, <1>2
<1>3. CASE k > 0
  <2>1. k - 1 \in 0..Len(g) /\ k \in 1..Len(g)
    BY <1>0, <1>3, SMT
  <2>2. /\ p \in Seq(Guards) /\ Len(p) = k /\ \A i \in 1..k : p[i] = g[i]
        /\ q \in Seq(Guards) /\ Len(q) = k - 1 /\ \A i \in 1..k - 1 : q[i] = g[i]
    BY <1>1, <2>1
  <2> HIDE DEF p, q
  <2>3. SubSeq(p, 1, k - 1) = q
    <3> DEFINE r == SubSeq(p, 1, k - 1)
    <3>1. \A i \in 1..k - 1 : p[i] \in Guards
      BY <2>1, <2>2, <1>0, SMT
    <3>2. /\ r \in Seq(Guards) /\ Len(r) = IF 1 <= k - 1 THEN (k - 1) - 1 + 1 ELSE 0
          /\ \A i \in 1..(k - 1) - 1 + 1 : r[i] = p[1 + i - 1]
      <4>1. 1 \in Int /\ k - 1 \in Int
        OBVIOUS
      <4> QED BY <3>1, <4>1, SubSeqProperties
    <3>3. Len(r) = k - 1 /\ \A i \in 1..k - 1 : r[i] = g[i]
      BY <3>2, <2>1, <2>2, SMT
    <3> HIDE DEF r
    <3> QED BY <3>2, <3>3, <2>2, SeqEqual DEF r
  <2>4. Append(q, g[k]) = p
    <3>1. g[k] \in Guards
      BY <1>0, <2>1
    <3>2. /\ Append(q, g[k]) \in Seq(Guards) /\ Len(Append(q, g[k])) = (k - 1) + 1
          /\ \A i \in 1..k - 1 : Append(q, g[k])[i] = q[i]
          /\ Append(q, g[k])[(k - 1) + 1] = g[k]
      BY <2>2, <3>1, AppendProperties
    <3>3. Len(Append(q, g[k])) = k /\ \A i \in 1..k : Append(q, g[k])[i] = p[i]
      BY <3>2, <2>1, <2>2, SMT
    <3> QED BY <3>2, <3>3, <2>2, SeqEqual
  <2> QED BY <2>2, <2>3, <2>4 DEF p, q
<1> QED BY <1>2, <1>3, SMT

\* Whether a guard fits depends on the guards that are held, and no more.
LEMMA FitsPrefix ==
  ASSUME NEW h, NEW e, NEW n, NEW g, \A i \in 1..n : e[i] = h[i], Fits(h, n, g)
  PROVE  Fits(e, n, g)
  BY DEF Fits

\* A section that takes guards, each of which fits, and drops them is orderly.
LEMMA AloneOrderly ==
  ASSUME NEW g \in Seq(Guards), \A k \in 1..Len(g) : Fits(g, k - 1, g[k])
  PROVE  /\ Alone(g) \in Seq(Guards \cup {Drop})
         /\ Orderly(<<>>, Alone(g))
<1> DEFINE n == Len(g)
           d == Alone(g)
           top(k) == IF k <= n THEN k ELSE n + n - k
           nest == [k \in 0..n + n |-> SubSeq(g, 1, top(k))]
<1>1. n \in Nat /\ \A k \in 1..n : g[k] \in Guards
  BY LenProperties, ElementOfSeq
<1>2. /\ d \in Seq(Guards \cup {Drop}) /\ Len(d) = n + n
      /\ \A k \in 1..n : d[k] = g[k]
      /\ \A k \in n + 1..n + n : d[k] = Drop
  BY AloneShape
<1> HIDE DEF d
<1>3. \A k \in 0..n + n : top(k) \in 0..n
  BY <1>1, SMT
<1>4. \A k \in 0..n + n : nest[k] \in Seq(Guards) /\ Len(nest[k]) = top(k)
  <2> HIDE DEF n, top
  <2> QED BY <1>3, Prefixes DEF n
<1>5. nest \in [0..Len(d) -> Seq(Guards)]
  BY <1>2, <1>4
<1>6. nest[0] = <<>> /\ nest[Len(d)] = <<>>
  <2>1. top(0) = 0 /\ top(n + n) = 0 /\ 0 \in 0..n + n /\ n + n \in 0..n + n
    BY <1>1, SMT
  <2>2. SubSeq(g, 1, 0) = <<>>
    BY SubSeqEmpty, SMT
  <2> HIDE DEF n, top
  <2> QED BY <1>2, <2>1, <2>2
<1>7. ASSUME NEW k \in 1..n
      PROVE  /\ d[k] \in Guards /\ Fits(nest[k - 1], Len(nest[k - 1]), d[k])
             /\ nest[k] = Append(nest[k - 1], d[k])
  <2>1. top(k) = k /\ top(k - 1) = k - 1 /\ k > 0 /\ k - 1 \in 0..n + n /\ k \in 0..n + n
        /\ k \in 0..n /\ k - 1 \in 0..n
    BY <1>1, SMT
  <2>2. nest[k - 1] = SubSeq(g, 1, k - 1) /\ nest[k] = SubSeq(g, 1, k)
    BY <2>1
  <2>3. /\ Len(SubSeq(g, 1, k - 1)) = k - 1
        /\ \A i \in 1..k - 1 : SubSeq(g, 1, k - 1)[i] = g[i]
        /\ Append(SubSeq(g, 1, k - 1), g[k]) = SubSeq(g, 1, k)
    BY <2>1, Prefixes
  <2>4. Fits(SubSeq(g, 1, k - 1), k - 1, g[k])
    BY <2>3, FitsPrefix
  <2> QED BY <1>1, <1>2, <2>2, <2>3, <2>4
<1>8. ASSUME NEW k \in n + 1..n + n
      PROVE  /\ d[k] = Drop /\ nest[k - 1] # <<>>
             /\ nest[k] = SubSeq(nest[k - 1], 1, Len(nest[k - 1]) - 1)
  <2> DEFINE j == n + n - (k - 1)
  <2>1. /\ top(k - 1) = j /\ top(k) = j - 1 /\ j > 0 /\ j \in 0..n
        /\ k - 1 \in 0..n + n /\ k \in 0..n + n
    BY <1>1, SMT
  <2> HIDE DEF j
  <2>2. nest[k - 1] = SubSeq(g, 1, j) /\ nest[k] = SubSeq(g, 1, j - 1)
    BY <2>1
  <2>3. /\ Len(SubSeq(g, 1, j)) = j
        /\ SubSeq(SubSeq(g, 1, j), 1, j - 1) = SubSeq(g, 1, j - 1)
    BY <2>1, Prefixes
  <2>4. SubSeq(g, 1, j) # <<>>
    BY <2>1, <2>3, EmptySeq
  <2> QED BY <1>2, <2>2, <2>3, <2>4
<1>9. \A k \in 1..Len(d) : k \in 1..n \/ k \in n + 1..n + n
  BY <1>1, <1>2, SMT
<1> HIDE DEF nest, n, top
<1>10. Nested(<<>>, d, nest)
  BY <1>6, <1>7, <1>8, <1>9 DEF Nested
<1> QED BY <1>2, <1>5, <1>10 DEF Orderly, d

\* A section within another: the guards of both, one after the other.
LEMMA NestedAlone ==
  ASSUME NEW a \in Seq(Guards), NEW b \in Seq(Guards)
  PROVE  Holding(a, Alone(b)) = Alone(a \o b)
<1> DEFINE S == Guards \cup {Drop}
           n == Len(a)
           m == Len(b)
           inner == Alone(b)
           x == Holding(a, inner)
           y == Alone(a \o b)
<1>1. n \in Nat /\ m \in Nat
  BY LenProperties
<1>2. /\ a \o b \in Seq(Guards) /\ Len(a \o b) = n + m
      /\ \A k \in 1..n + m : (a \o b)[k] = IF k <= n THEN a[k] ELSE b[k - n]
  BY ConcatProperties
<1>3. /\ inner \in Seq(S) /\ Len(inner) = m + m
      /\ \A k \in 1..m : inner[k] = b[k]
      /\ \A k \in m + 1..m + m : inner[k] = Drop
  BY AloneShape
<1>4. /\ y \in Seq(S) /\ Len(y) = (n + m) + (n + m)
      /\ \A k \in 1..n + m : y[k] = (a \o b)[k]
      /\ \A k \in (n + m) + 1..(n + m) + (n + m) : y[k] = Drop
  <2> DEFINE ab == a \o b
  <2>1. ab \in Seq(Guards) /\ Len(ab) = n + m
    BY <1>2
  <2> HIDE DEF ab, n, m
  <2>2. /\ y \in Seq(S) /\ Len(y) = Len(ab) + Len(ab)
        /\ \A k \in 1..Len(ab) : y[k] = ab[k]
        /\ \A k \in Len(ab) + 1..Len(ab) + Len(ab) : y[k] = Drop
    BY <2>1, AloneShape DEF ab
  <2> QED BY <2>1, <2>2 DEF ab
<1> HIDE DEF inner, S, y
<1>5. /\ x \in Seq(S) /\ Len(x) = n + Len(inner) + n
      /\ \A k \in 1..n : x[k] = a[k]
      /\ \A k \in n + 1..n + Len(inner) : x[k] = inner[k - n]
      /\ \A k \in n + Len(inner) + 1..n + Len(inner) + n : x[k] = Drop
  BY <1>3, HoldingShape DEF S
<1> HIDE DEF x, n, m
<1>6. Len(inner) = m + m /\ Len(x) = Len(y)
  BY <1>1, <1>3, <1>4, <1>5, SMT
<1>7. ASSUME NEW k \in 1..Len(x) PROVE x[k] = y[k]
  <2>0. Len(x) = n + (m + m) + n
    BY <1>5, <1>6
  <2>1. CASE k <= n
    <3>1. k \in 1..n /\ k \in 1..n + m
      BY <1>1, <2>0, <2>1, SMT
    <3> QED BY <3>1, <2>1, <1>2, <1>4, <1>5
  <2>2. CASE k > n /\ k <= n + m
    <3>1. /\ k \in n + 1..n + (m + m) /\ k - n \in 1..m
          /\ k \in 1..n + m /\ ~(k <= n)
      BY <1>1, <2>0, <2>2, SMT
    <3> QED BY <3>1, <1>2, <1>3, <1>4, <1>5, <1>6
  <2>3. CASE k > n + m /\ k <= n + m + m
    <3>1. /\ k \in n + 1..n + (m + m) /\ k - n \in m + 1..m + m
          /\ k \in (n + m) + 1..(n + m) + (n + m)
      BY <1>1, <2>0, <2>3, SMT
    <3> QED BY <3>1, <1>3, <1>4, <1>5, <1>6
  <2>4. CASE k > n + m + m
    <3>1. /\ k \in n + (m + m) + 1..n + (m + m) + n
          /\ k \in (n + m) + 1..(n + m) + (n + m)
      BY <1>1, <2>0, <2>4, SMT
    <3> QED BY <3>1, <1>4, <1>5, <1>6
  <2> QED BY <1>1, <2>0, <2>1, <2>2, <2>3, <2>4, SMT
<1>8. x = y
  BY <1>4, <1>5, <1>6, <1>7, SeqEqual
<1> QED BY <1>8 DEF x, y, inner

\* alloc_clusters drops the guard of data before it takes it again.
LEMMA AllocOrderly ==
  ASSUME NEW n \in Nat
  PROVE  /\ AllocClusters(n) \in Seq(Guards \cup {Drop})
         /\ Orderly(<<>>, AllocClusters(n))
<1> DEFINE S == Guards \cup {Drop}
           fs == <<Write("fs")>>
           fat == <<Write("fs"), Write("fat")>>
           data == <<Write("fs"), Write("fat"), Write("data")>>
           body == [i \in 1..(2 * n) |-> IF i % 2 = 1 THEN Write("data") ELSE Drop]
           d == AllocClusters(n)
           nest == [k \in 0..2 * n + 4 |->
                      IF k = 0 \/ k = 2 * n + 4 THEN <<>>
                      ELSE IF k = 1 \/ k = 2 * n + 3 THEN fs
                      ELSE IF k % 2 = 0 THEN fat ELSE data]
<1>1. Write("fs") \in Guards /\ Write("fat") \in Guards /\ Write("data") \in Guards
  BY GuardShape
<1>2. /\ fs \in Seq(Guards) /\ fat \in Seq(Guards) /\ data \in Seq(Guards)
      /\ <<>> \in Seq(Guards)
      /\ Len(fs) = 1 /\ Len(fat) = 2 /\ Len(data) = 3
      /\ fs # <<>> /\ fat # <<>> /\ data # <<>>
  BY <1>1
<1>3. body \in Seq(S) /\ Len(body) = 2 * n
  <2>1. body \in [1..(2 * n) -> S] /\ 2 * n \in Nat
    BY <1>1
  <2>2. body \in Seq(S)
    BY <2>1, SeqDef
  <2>3. DOMAIN body = 1..(2 * n) /\ Len(body) \in Nat /\ DOMAIN body = 1..Len(body)
    BY <2>2, LenProperties
  <2> HIDE DEF body
  <2> QED BY <2>1, <2>2, <2>3, SMT
<1>4. /\ d \in Seq(S) /\ Len(d) = 2 * n + 4
      /\ d[1] = Write("fs") /\ d[2] = Write("fat")
      /\ \A k \in 3..2 * n + 2 : d[k] = body[k - 2]
      /\ \A k \in 2 * n + 3..2 * n + 4 : d[k] = Drop
  <2>1. d = Holding(fat, body)
    BY DEF AllocClusters
  <2> HIDE DEF d, body, S
  <2>2. fat[1] = Write("fs") /\ fat[2] = Write("fat")
    OBVIOUS
  <2> HIDE DEF fat
  <2>3. /\ Holding(fat, body) \in Seq(Guards \cup {Drop})
        /\ Len(Holding(fat, body)) = Len(fat) + Len(body) + Len(fat)
        /\ \A k \in 1..Len(fat) : Holding(fat, body)[k] = fat[k]
        /\ \A k \in Len(fat) + 1..Len(fat) + Len(body) :
             Holding(fat, body)[k] = body[k - Len(fat)]
        /\ \A k \in Len(fat) + Len(body) + 1..Len(fat) + Len(body) + Len(fat) :
             Holding(fat, body)[k] = Drop
    BY <1>2, <1>3, HoldingShape, Zenon DEF S
  <2>4. /\ Len(fat) = 2 /\ Len(body) = 2 * n
        /\ 2 + 1 = 3 /\ 2 + 2 * n = 2 * n + 2 /\ 2 + 2 * n + 1 = 2 * n + 3
        /\ 2 + 2 * n + 2 = 2 * n + 4
        /\ 1 \in 1..2 /\ 2 \in 1..2
    BY <1>2, <1>3, SMT
  <2> QED BY <2>1, <2>2, <2>3, <2>4 DEF S
<1>5. \A k \in 3..2 * n + 2 :
         d[k] = IF k % 2 = 1 THEN Write("data") ELSE Drop
  <2> HIDE DEF d
  <2>1. ASSUME NEW k \in 3..2 * n + 2 PROVE k - 2 \in 1..(2 * n) /\ (k - 2) % 2 = k % 2
    BY SMT
  <2> QED BY <1>4, <2>1
<1>6. nest \in [0..Len(d) -> Seq(Guards)]
  <2> HIDE DEF fs, fat, data, d
  <2> QED BY <1>2, <1>4
<1>7. /\ nest[0] = <<>> /\ nest[Len(d)] = <<>>
      /\ nest[1] = fs /\ nest[2] = fat /\ nest[2 * n + 2] = fat
      /\ nest[2 * n + 3] = fs /\ nest[2 * n + 4] = <<>>
  <2>1. /\ {0, 1, 2, 2 * n + 2, 2 * n + 3, 2 * n + 4} \subseteq 0..2 * n + 4
        /\ (2 * n + 2) % 2 = 0 /\ 2 % 2 = 0
        /\ 2 # 2 * n + 3 /\ 2 # 2 * n + 4 /\ 1 # 2 * n + 4
        /\ 2 * n + 2 \notin {0, 1, 2 * n + 3, 2 * n + 4}
        /\ 2 * n + 3 \notin {0, 2 * n + 4}
    BY SMT
  <2> HIDE DEF fs, fat, data, d
  <2> QED BY <1>4, <2>1
<1>8. \A k \in 2..2 * n + 2 : nest[k] = IF k % 2 = 0 THEN fat ELSE data
  <2>1. ASSUME NEW k \in 2..2 * n + 2
        PROVE  k \in 0..2 * n + 4 /\ k \notin {0, 1, 2 * n + 3, 2 * n + 4}
    BY SMT
  <2> HIDE DEF fs, fat, data
  <2> QED BY <2>1
<1>9. /\ fs = Append(<<>>, Write("fs")) /\ <<>> = SubSeq(fs, 1, 1 - 1)
      /\ fat = Append(fs, Write("fat")) /\ fs = SubSeq(fat, 1, 2 - 1)
      /\ data = Append(fat, Write("data")) /\ fat = SubSeq(data, 1, 3 - 1)
  BY <1>1
<1>10. /\ Fits(<<>>, 0, Write("fs")) /\ Fits(fs, 1, Write("fat"))
       /\ Fits(fat, 2, Write("data"))
  <2>1. /\ Level[Write("fs").lock] = 1 /\ Level[Write("fat").lock] = 2
        /\ Level[Write("data").lock] = 3
    BY DEF Level, Write
  <2>2. /\ \A i \in 1..1 : fs[i] = Write("fs")
        /\ \A i \in 1..2 : fat[i] \in {Write("fs"), Write("fat")}
    OBVIOUS
  <2> HIDE DEF fs, fat
  <2> QED BY <2>1, <2>2 DEF Fits
<1>11. ASSUME NEW k \in 1..Len(d)
       PROVE  \/ /\ d[k] = Drop /\ nest[k - 1] # <<>>
                 /\ nest[k] = SubSeq(nest[k - 1], 1, Len(nest[k - 1]) - 1)
              \/ /\ d[k] \in Guards /\ Fits(nest[k - 1], Len(nest[k - 1]), d[k])
                 /\ nest[k] = Append(nest[k - 1], d[k])
  <2>0. Len(<<>>) = 0
    OBVIOUS
  <2> HIDE DEF fs, fat, data, nest, d
  <2>1. CASE k = 1
    BY <2>0, <2>1, <1>1, <1>4, <1>7, <1>9, <1>10
  <2>2. CASE k = 2
    <3>1. nest[k - 1] = fs /\ nest[k] = fat /\ d[k] = Write("fat")
      BY <2>2, <1>4, <1>7
    <3> QED BY <3>1, <1>1, <1>2, <1>9, <1>10
  <2>3. CASE k \in 3..2 * n + 2 /\ k % 2 = 1
    <3>1. k - 1 \in 2..2 * n + 2 /\ k \in 2..2 * n + 2 /\ (k - 1) % 2 = 0 /\ k % 2 # 0
      BY <2>3, SMT
    <3>2. nest[k - 1] = fat /\ nest[k] = data /\ d[k] = Write("data")
      BY <2>3, <3>1, <1>5, <1>8
    <3> QED BY <3>2, <1>1, <1>2, <1>9, <1>10
  <2>4. CASE k \in 3..2 * n + 2 /\ k % 2 # 1
    <3>1. k - 1 \in 2..2 * n + 2 /\ k \in 2..2 * n + 2 /\ (k - 1) % 2 # 0 /\ k % 2 = 0
      BY <2>4, SMT
    <3>2. nest[k - 1] = data /\ nest[k] = fat /\ d[k] = Drop
      BY <2>4, <3>1, <1>5, <1>8
    <3> QED BY <3>2, <1>2, <1>9
  <2>5. CASE k = 2 * n + 3
    <3>1. k - 1 = 2 * n + 2 /\ k \in 2 * n + 3..2 * n + 4
      BY <2>5, SMT
    <3> QED BY <2>5, <3>1, <1>2, <1>4, <1>7, <1>9
  <2>6. CASE k = 2 * n + 4
    <3>1. k - 1 = 2 * n + 3 /\ k \in 2 * n + 3..2 * n + 4
      BY <2>6, SMT
    <3> QED BY <2>6, <3>1, <1>2, <1>4, <1>7, <1>9
  <2>7. k = 1 \/ k = 2 \/ k \in 3..2 * n + 2 \/ k = 2 * n + 3 \/ k = 2 * n + 4
    BY <1>4, SMT
  <2> QED BY <2>1, <2>2, <2>3, <2>4, <2>5, <2>6, <2>7
<1>12. Nested(<<>>, d, nest)
  <2> HIDE DEF fs, fat, data, nest, d
  <2> QED BY <1>7, <1>11 DEF Nested
<1> HIDE DEF nest
<1> QED BY <1>4, <1>6, <1>12 DEF Orderly

\* One sequence of guards after another.
LEMMA Joined ==
  ASSUME NEW a \in Guards, NEW b \in Guards, NEW c \in Guards, NEW d \in Guards
  PROVE  /\ <<a, b>> \o <<c>> = <<a, b, c>>
         /\ <<a, b>> \o <<c, d>> = <<a, b, c, d>>
<1> DEFINE p == <<a, b>>
           q == <<c>>
           r == <<c, d>>
           s == <<a, b, c>>
           t == <<a, b, c, d>>
<1>1. /\ p \in Seq(Guards) /\ q \in Seq(Guards) /\ r \in Seq(Guards)
      /\ s \in Seq(Guards) /\ t \in Seq(Guards)
      /\ Len(p) = 2 /\ Len(q) = 1 /\ Len(r) = 2 /\ Len(s) = 3 /\ Len(t) = 4
  OBVIOUS
<1>2. /\ p[1] = a /\ p[2] = b /\ q[1] = c /\ r[1] = c /\ r[2] = d
      /\ s[1] = a /\ s[2] = b /\ s[3] = c
      /\ t[1] = a /\ t[2] = b /\ t[3] = c /\ t[4] = d
  OBVIOUS
<1> HIDE DEF p, q, r, s, t
<1>3. /\ p \o q \in Seq(Guards) /\ Len(p \o q) = 3
      /\ \A i \in 1..3 : (p \o q)[i] = IF i <= 2 THEN p[i] ELSE q[i - 2]
  <2>1. /\ p \o q \in Seq(Guards) /\ Len(p \o q) = Len(p) + Len(q)
        /\ \A i \in 1..Len(p) + Len(q) :
             (p \o q)[i] = IF i <= Len(p) THEN p[i] ELSE q[i - Len(p)]
    BY <1>1, ConcatProperties
  <2> QED BY <2>1, <1>1
<1>4. /\ p \o r \in Seq(Guards) /\ Len(p \o r) = 4
      /\ \A i \in 1..4 : (p \o r)[i] = IF i <= 2 THEN p[i] ELSE r[i - 2]
  <2>1. /\ p \o r \in Seq(Guards) /\ Len(p \o r) = Len(p) + Len(r)
        /\ \A i \in 1..Len(p) + Len(r) :
             (p \o r)[i] = IF i <= Len(p) THEN p[i] ELSE r[i - Len(p)]
    BY <1>1, ConcatProperties
  <2> QED BY <2>1, <1>1
<1>5. \A i \in 1..3 : (p \o q)[i] = s[i]
  BY <1>2, <1>3, SMT
<1>6. \A i \in 1..4 : (p \o r)[i] = t[i]
  BY <1>2, <1>4, SMT
<1>7. p \o q = s /\ p \o r = t
  BY <1>1, <1>3, <1>4, <1>5, <1>6, SeqEqual
<1> QED BY <1>7 DEF p, q, r, s, t

LEMMA JoinedPair ==
  ASSUME NEW a \in Guards, NEW b \in Guards
  PROVE  <<a>> \o <<b>> = <<a, b>>
<1> DEFINE p == <<a>>
           q == <<b>>
           s == <<a, b>>
<1>1. /\ p \in Seq(Guards) /\ q \in Seq(Guards) /\ s \in Seq(Guards)
      /\ Len(p) = 1 /\ Len(q) = 1 /\ Len(s) = 2
      /\ p[1] = a /\ q[1] = b /\ s[1] = a /\ s[2] = b
  OBVIOUS
<1> HIDE DEF p, q, s
<1>2. /\ p \o q \in Seq(Guards) /\ Len(p \o q) = Len(p) + Len(q)
      /\ \A i \in 1..Len(p) + Len(q) :
           (p \o q)[i] = IF i <= Len(p) THEN p[i] ELSE q[i - Len(p)]
  BY <1>1, ConcatProperties
<1>3. Len(p \o q) = Len(s) /\ \A i \in 1..Len(s) : (p \o q)[i] = s[i]
  BY <1>1, <1>2, SMT
<1>4. p \o q = s
  BY <1>1, <1>2, <1>3, SeqEqual
<1> QED BY <1>4 DEF p, q, s

\* Every section of every call is orderly.
LEMMA SectionsOrderly ==
  ASSUME NEW section \in Sections
  PROVE  section \in Seq(Guards \cup {Drop}) /\ Orderly(<<>>, section)
<1> DEFINE Good(g) == g \in Seq(Guards) /\ \A k \in 1..Len(g) : Fits(g, k - 1, g[k])
           OK(d) == d \in Seq(Guards \cup {Drop}) /\ Orderly(<<>>, d)
<1>1. /\ Read("fs") \in Guards /\ Read("fat") \in Guards /\ Read("data") \in Guards
      /\ Read("root") \in Guards
      /\ Write("fs") \in Guards /\ Write("fat") \in Guards /\ Write("data") \in Guards
  BY GuardShape
<1>2. /\ Level[Read("fs").lock] = 1 /\ Level[Write("fs").lock] = 1
      /\ Level[Read("fat").lock] = 2 /\ Level[Write("fat").lock] = 2
      /\ Level[Read("data").lock] = 3 /\ Level[Write("data").lock] = 3
      /\ Level[Read("root").lock] = 4
  BY DEF Level, Read, Write
<1>3. Read("fs") # Write("fs") /\ Write("fat") # Write("fs")
  BY DEF Read, Write
<1>4. ASSUME NEW g, Good(g) PROVE OK(Alone(g))
  BY <1>4, AloneOrderly
<1>5. ASSUME NEW a \in Guards PROVE Good(<<a>>)
  <2>1. <<a>> \in Seq(Guards) /\ Len(<<a>>) = 1 /\ \A i \in 1..0 : FALSE
    BY SMT
  <2>2. ASSUME NEW k \in 1..1 PROVE Fits(<<a>>, k - 1, <<a>>[k])
    <3>1. \A i \in 1..k - 1 : FALSE
      BY SMT
    <3> QED BY <3>1 DEF Fits
  <2> QED BY <2>1, <2>2
<1>6. ASSUME NEW a \in Guards, NEW b \in Guards, Level[a.lock] < Level[b.lock]
      PROVE  Good(<<a, b>>)
  <2> DEFINE g == <<a, b>>
  <2>1. g \in Seq(Guards) /\ Len(g) = 2 /\ g[1] = a /\ g[2] = b
    OBVIOUS
  <2> HIDE DEF g
  <2>2. ASSUME NEW k \in 1..2 PROVE Fits(g, k - 1, g[k])
    <3>1. CASE k = 1
      <4>1. \A i \in 1..k - 1 : FALSE
        BY <3>1, SMT
      <4> QED BY <4>1 DEF Fits
    <3>2. CASE k = 2
      <4>1. \A i \in 1..k - 1 : i = 1
        BY <3>2, SMT
      <4> QED BY <3>2, <4>1, <2>1, <1>6 DEF Fits
    <3> QED BY <3>1, <3>2, SMT
  <2>3. Good(g)
    BY <2>1, <2>2
  <2> QED BY <2>3 DEF g
<1>7. ASSUME NEW a \in Guards, NEW b \in Guards, NEW c \in Guards,
             Level[a.lock] < Level[b.lock], Good(<<a, b>>), Fits(<<a, b>>, 2, c)
      PROVE  Good(<<a, b, c>>)
  <2> DEFINE g == <<a, b, c>>
  <2>1. g \in Seq(Guards) /\ Len(g) = 3 /\ g[1] = a /\ g[2] = b /\ g[3] = c
    OBVIOUS
  <2>2. \A i \in 1..2 : g[i] = <<a, b>>[i]
    OBVIOUS
  <2> HIDE DEF g
  <2>3. ASSUME NEW k \in 1..3 PROVE Fits(g, k - 1, g[k])
    <3>1. CASE k = 1
      <4>1. \A i \in 1..k - 1 : FALSE
        BY <3>1, SMT
      <4> QED BY <4>1 DEF Fits
    <3>2. CASE k = 2
      <4>1. \A i \in 1..k - 1 : i = 1
        BY <3>2, SMT
      <4> QED BY <3>2, <4>1, <2>1, <1>7 DEF Fits
    <3>3. CASE k = 3
      <4>1. k - 1 = 2
        BY <3>3
      <4> QED BY <3>3, <4>1, <2>1, <2>2, <1>7, FitsPrefix
    <3> QED BY <3>1, <3>2, <3>3, SMT
  <2>4. Good(g)
    BY <2>1, <2>3
  <2> QED BY <2>4 DEF g
<1> HIDE DEF OK
<1>8. /\ OK(ReadBpb) /\ OK(TouchData) /\ OK(Walk) /\ OK(ReadFsinfo)
      /\ OK(RootVFile) /\ OK(AllocNone) /\ OK(DeallocClusters)
  <2>1. /\ Good(<<Read("fs")>>) /\ Good(<<Read("fs"), Write("data")>>)
        /\ Good(<<Read("fs"), Write("fat")>>) /\ Good(<<Read("fs"), Read("fat")>>)
        /\ Good(<<Write("fs"), Write("fat")>>) /\ Good(<<Write("fs")>>)
    <3> HIDE DEF Good
    <3> QED BY <1>1, <1>2, <1>5, <1>6
  <2>2. OK(RootVFile)
    <3> DEFINE one == <<Read("fs")>>
               two == <<Read("fs"), Read("fs")>>
    <3>1. one \in Seq(Guards) /\ one \o one = two
      <4>1. one \in Seq(Guards)
        BY <1>1
      <4>2. \A a, b \in Guards : <<a>> \o <<b>> = <<a, b>>
        BY JoinedPair
      <4> QED BY <4>1, <4>2, <1>1
    <3>2. two \in Seq(Guards) /\ Len(two) = 2 /\ two[1] = Read("fs") /\ two[2] = Read("fs")
      BY <1>1
    <3>3. Holding(one, Alone(one)) = Alone(two)
      <4> HIDE DEF one, two
      <4>1. Holding(one, Alone(one)) = Alone(one \o one)
        BY <3>1, NestedAlone
      <4> QED BY <4>1, <3>1
    <3> HIDE DEF two
    <3>4. ASSUME NEW k \in 1..2 PROVE Fits(two, k - 1, two[k])
      <4>1. CASE k = 1
        <5>1. \A i \in 1..k - 1 : FALSE
          BY <4>1, SMT
        <5> QED BY <5>1 DEF Fits
      <4>2. CASE k = 2
        <5>1. 1 \in 1..k - 1 /\ \A i \in 1..k - 1 : i = 1
          BY <4>2, SMT
        <5> QED BY <4>2, <5>1, <3>2, <1>3 DEF Fits
      <4> QED BY <4>1, <4>2, SMT
    <3>5. Good(two)
      BY <3>2, <3>4
    <3> HIDE DEF Good
    <3> QED BY <3>3, <3>5, <1>4 DEF RootVFile, ReadBpb
  <2> HIDE DEF Good
  <2> QED BY <2>1, <2>2, <1>4
         DEF ReadBpb, TouchData, Walk, ReadFsinfo, AllocNone, DeallocClusters
<1>9. ASSUME NEW a \in {Read("fs"), Write("fs")} PROVE OK(RootDirent(a))
  <2>1. a \in Guards /\ Level[a.lock] = 1
    BY <1>1, <1>2
  <2>2. Good(<<a, Read("data")>>)
    <3> HIDE DEF Good
    <3> QED BY <2>1, <1>1, <1>2, <1>6
  <2>3. Fits(<<a, Read("data")>>, 2, Read("root"))
    <3>1. \A i \in 1..2 : Level[<<a, Read("data")>>[i].lock] < Level[Read("root").lock]
      <4>1. \A i \in 1..2 : <<a, Read("data")>>[i] \in {a, Read("data")}
        OBVIOUS
      <4> QED BY <4>1, <2>1, <1>2
    <3> QED BY <3>1 DEF Fits
  <2>4. Good(<<a, Read("data"), Read("root")>>)
    <3> HIDE DEF Good
    <3> QED BY <2>1, <2>2, <2>3, <1>1, <1>2, <1>7
  <2> HIDE DEF Good
  <2> QED BY <2>4, <1>4 DEF RootDirent
<1>10. ASSUME NEW first \in FirstDataCluster
       PROVE  OK(Holding(<<Read("fs"), Write("fat")>>, first))
  <2> DEFINE two == <<Read("fs"), Write("fat")>>
             three == <<Read("fs"), Write("fat"), Read("fs")>>
             four == <<Read("fs"), Write("fat"), Read("fs"), Write("data")>>
  <2>1. Good(two)
    <3> HIDE DEF Good
    <3> QED BY <1>1, <1>2, <1>6
  <2>2. Good(three)
    <3>1. /\ two[1] = Read("fs") /\ two[2] = Write("fat")
          /\ \A i \in 1..2 : i = 1 \/ i = 2
      BY SMT
    <3> HIDE DEF two
    <3>2. Fits(two, 2, Read("fs"))
      BY <3>1, <1>3 DEF Fits
    <3> HIDE DEF Good
    <3> QED BY <3>2, <2>1, <1>1, <1>2, <1>7 DEF two
  <2>3. Good(four)
    <3>1. /\ four \in Seq(Guards) /\ Len(four) = 4 /\ four[4] = Write("data")
          /\ \A i \in 1..3 : four[i] = three[i]
      BY <1>1
    <3>2. \A i \in 1..3 : four[i] \in {Read("fs"), Write("fat")}
      OBVIOUS
    <3>3. Len(three) = 3
      OBVIOUS
    <3> HIDE DEF two, three, four
    <3>4. ASSUME NEW k \in 1..4 PROVE Fits(four, k - 1, four[k])
      <4>1. CASE k = 4
        <5>1. k - 1 = 3
          BY <4>1
        <5> QED BY <4>1, <5>1, <3>1, <3>2, <1>2 DEF Fits
      <4>2. CASE k \in 1..3
        <5>1. Fits(three, k - 1, three[k])
          BY <4>2, <2>2, <3>3
        <5>2. \A i \in 1..k - 1 : i \in 1..3
          BY <4>2, SMT
        <5>3. \A i \in 1..k - 1 : four[i] = three[i]
          BY <5>2, <3>1
        <5>4. Fits(four, k - 1, three[k])
          BY <5>1, <5>3, FitsPrefix
        <5> QED BY <4>2, <5>4, <3>1
      <4> QED BY <4>1, <4>2, SMT
    <3> QED BY <3>1, <3>4
  <2>4. CASE first = ReadBpb
    <3>1. <<Read("fs"), Write("fat")>> \o <<Read("fs")>> = three
      BY <1>1, Joined
    <3>2. Holding(<<Read("fs"), Write("fat")>>, first)
            = Alone(<<Read("fs"), Write("fat")>> \o <<Read("fs")>>)
      <4>1. <<Read("fs"), Write("fat")>> \in Seq(Guards) /\ <<Read("fs")>> \in Seq(Guards)
        BY <1>1
      <4> QED BY <2>4, <4>1, NestedAlone DEF ReadBpb
    <3> HIDE DEF Good, three
    <3> QED BY <3>1, <3>2, <2>2, <1>4
  <2>5. CASE first = TouchData
    <3>1. <<Read("fs"), Write("fat")>> \o <<Read("fs"), Write("data")>> = four
      <4>1. \A a, b, c, d \in Guards : <<a, b>> \o <<c, d>> = <<a, b, c, d>>
        BY Joined, Zenon
      <4> QED BY <1>1, <4>1
    <3>2. Holding(<<Read("fs"), Write("fat")>>, first)
            = Alone(<<Read("fs"), Write("fat")>> \o <<Read("fs"), Write("data")>>)
      <4>1. /\ <<Read("fs"), Write("fat")>> \in Seq(Guards)
            /\ <<Read("fs"), Write("data")>> \in Seq(Guards)
        BY <1>1
      <4> QED BY <2>5, <4>1, NestedAlone DEF TouchData
    <3> HIDE DEF Good, four
    <3> QED BY <3>1, <3>2, <2>3, <1>4
  <2> QED BY <2>4, <2>5 DEF FirstDataCluster
<1>11. ASSUME NEW n \in 0..FILECLUSTERS PROVE OK(AllocClusters(n))
  <2>1. n \in Nat
    BY BoundsAssumption, SMT DEF BoundsAssumption
  <2> QED BY <2>1, AllocOrderly DEF OK
<1>12. OK(section)
  <2> HIDE DEF Good
  <2> QED BY <1>8, <1>9, <1>10, <1>11 DEF Sections, WalkFromEntry
<1> QED BY <1>12 DEF OK

-----------------------------------------------------------------------------
(* The steps of a thread.                                                  *)

\* What a thread in the middle of a section does next fits, and leaves it orderly.
LEMMA OrderlyStep ==
  ASSUME NEW h \in Seq(Guards), NEW d \in Seq(Guards \cup {Drop}),
         Orderly(h, d), d # <<>>
  PROVE  \/ /\ Head(d) = Drop /\ h # <<>>
            /\ Orderly(SubSeq(h, 1, Len(h) - 1), Tail(d))
         \/ /\ Head(d) \in Guards /\ Fits(h, Len(h), Head(d))
            /\ Orderly(Append(h, Head(d)), Tail(d))
<1>1. PICK nest \in [0..Len(d) -> Seq(Guards)] : Nested(h, d, nest)
  BY DEF Orderly
<1> DEFINE n == Len(d)
           tail == Tail(d)
           after == [k \in 0..n - 1 |-> nest[k + 1]]
<1>2. n \in Nat \ {0}
  BY EmptySeq
<1>3. Len(tail) = n - 1 /\ \A k \in 1..n - 1 : tail[k] = d[k + 1]
  BY HeadTailProperties
<1>4. Head(d) = d[1]
  OBVIOUS
<1> HIDE DEF n, tail
<1>5. after \in [0..Len(tail) -> Seq(Guards)]
  <2>1. \A k \in 0..n - 1 : k + 1 \in 0..n
    BY <1>2, SMT
  <2> QED BY <2>1, <1>3 DEF n
<1>6. Nested(nest[1], tail, after)
  <2>1. after[0] = nest[1] /\ after[n - 1] = nest[n]
    BY <1>2, SMT
  <2>2. ASSUME NEW k \in 1..n - 1
        PROVE  \/ /\ tail[k] = Drop /\ after[k - 1] # <<>>
                  /\ after[k] = SubSeq(after[k - 1], 1, Len(after[k - 1]) - 1)
               \/ /\ tail[k] \in Guards
                  /\ Fits(after[k - 1], Len(after[k - 1]), tail[k])
                  /\ after[k] = Append(after[k - 1], tail[k])
    <3>1. /\ k + 1 \in 1..n /\ k \in 0..n - 1 /\ k - 1 \in 0..n - 1
          /\ (k + 1) - 1 = k /\ (k - 1) + 1 = k
      BY <1>2, SMT
    <3>2. after[k - 1] = nest[k] /\ after[k] = nest[k + 1] /\ tail[k] = d[k + 1]
      BY <3>1, <1>3
    <3> HIDE DEF after
    <3>3. \/ /\ d[k + 1] = Drop /\ nest[k] # <<>>
             /\ nest[k + 1] = SubSeq(nest[k], 1, Len(nest[k]) - 1)
          \/ /\ d[k + 1] \in Guards /\ Fits(nest[k], Len(nest[k]), d[k + 1])
             /\ nest[k + 1] = Append(nest[k], d[k + 1])
      BY <3>1, <1>1 DEF Nested, n
    <3> QED BY <3>2, <3>3
  <2> HIDE DEF after
  <2> QED BY <2>1, <2>2, <1>1, <1>3 DEF Nested, n
<1>7. Orderly(nest[1], tail)
  <2> HIDE DEF after
  <2> QED BY <1>5, <1>6 DEF Orderly
<1>8. \/ d[1] = Drop /\ h # <<>> /\ nest[1] = SubSeq(h, 1, Len(h) - 1)
      \/ d[1] \in Guards /\ Fits(h, Len(h), d[1]) /\ nest[1] = Append(h, d[1])
  <2>1. 1 \in 1..n /\ 1 - 1 = 0
    BY <1>2, SMT
  <2> QED BY <2>1, <1>1 DEF Nested, n
<1> QED BY <1>4, <1>7, <1>8 DEF tail

\* A thread whose section is over holds nothing.
LEMMA OverHoldsNothing ==
  ASSUME NEW h, Orderly(h, <<>>) PROVE h = <<>>
<1>1. Len(<<>>) = 0
  OBVIOUS
<1> QED BY <1>1 DEF Orderly, Nested

LEMMA InvInit == Init => IInv
<1> SUFFICES ASSUME Init PROVE IInv
  OBVIOUS
<1>1. Types
  BY BoundsAssumption, EmptySeq DEF Init, Types, BoundsAssumption
<1>2. Exclusive
  BY DEF Init, Exclusive, HoldsOf
<1>3. Orderly(<<>>, <<>>)
  <2> DEFINE nest == [k \in 0..0 |-> <<>>]
  <2>1. nest \in [0..0 -> Seq(Guards)] /\ nest[0] = <<>> /\ Len(<<>>) = 0
    BY EmptySeq
  <2>2. \A k \in 1..0 : FALSE
    BY SMT
  <2> HIDE DEF nest
  <2>3. Nested(<<>>, <<>>, nest)
    BY <2>1, <2>2 DEF Nested
  <2> QED BY <2>1, <2>3 DEF Orderly
<1> QED BY <1>1, <1>2, <1>3 DEF Init, IInv

LEMMA InvBegin == ASSUME IInv, NEW t \in Threads, Begin(t) PROVE IInv'
<1>1. PICK section \in Sections : todo' = [todo EXCEPT ![t] = section]
  BY DEF Begin
<1>2. section \in Seq(Guards \cup {Drop}) /\ Orderly(<<>>, section)
  BY SectionsOrderly
<1>3. todo[t] = <<>> /\ left[t] > 0 /\ left' = [left EXCEPT ![t] = @ - 1] /\ held' = held
  BY DEF Begin
<1>4. held[t] = <<>>
  BY <1>3, OverHoldsNothing DEF IInv
<1>5. Types'
  <2>1. left[t] - 1 \in Nat
    BY <1>3, SMT DEF IInv, Types
  <2> QED BY <1>1, <1>2, <1>3, <2>1 DEF IInv, Types
<1>6. Exclusive'
  BY <1>3 DEF IInv, Exclusive, HoldsOf
<1>7. \A u \in Threads : Orderly(held'[u], todo'[u])
  BY <1>1, <1>2, <1>3, <1>4 DEF IInv, Types
<1> QED BY <1>5, <1>6, <1>7 DEF IInv

LEMMA InvTake == ASSUME IInv, NEW t \in Threads, Take(t) PROVE IInv'
<1> DEFINE g == Head(todo[t])
<1>1. /\ g \in Guards /\ todo[t] # <<>> /\ Wants(t) = {g}
      /\ held' = [held EXCEPT ![t] = Append(@, g)]
      /\ \A u \in Threads : ~Blocks(u, t)
      /\ todo' = [todo EXCEPT ![t] = Tail(@)] /\ left' = left
  BY DEF Take, Wants
<1>2. held[t] \in Seq(Guards) /\ todo[t] \in Seq(Guards \cup {Drop})
  BY DEF IInv, Types
<1>3. Orderly(Append(held[t], g), Tail(todo[t]))
  BY <1>1, <1>2, OrderlyStep, GuardShape DEF IInv
<1> HIDE DEF g
<1>4. /\ Append(held[t], g) \in Seq(Guards) /\ Len(Append(held[t], g)) = Len(held[t]) + 1
      /\ \A i \in 1..Len(held[t]) : Append(held[t], g)[i] = held[t][i]
      /\ Append(held[t], g)[Len(held[t]) + 1] = g
  BY <1>1, <1>2, AppendProperties
<1>5. Types'
  <2>1. Tail(todo[t]) \in Seq(Guards \cup {Drop})
    BY <1>1, <1>2, HeadTailProperties
  <2> QED BY <2>1, <1>1, <1>4 DEF IInv, Types
<1>6. HoldsOf(t)' \subseteq HoldsOf(t) \cup {g}
  <2>1. held'[t] = Append(held[t], g)
    BY <1>1 DEF IInv, Types
  <2>2. Len(held[t]) \in Nat
    BY <1>2, LenProperties
  <2>3. \A i \in 1..Len(held[t]) + 1 : i \in 1..Len(held[t]) \/ i = Len(held[t]) + 1
    BY <2>2, SMT
  <2> QED BY <2>1, <2>3, <1>4 DEF HoldsOf
<1>7. \A u \in Threads \ {t} : HoldsOf(u)' = HoldsOf(u)
  BY <1>1 DEF IInv, Types, HoldsOf
<1>8. \A u \in Threads \ {t} : \A h \in HoldsOf(u) : ~Conflict(g, h) /\ ~Conflict(h, g)
  BY <1>1 DEF Blocks, Conflict
<1>9. Exclusive'
  BY <1>6, <1>7, <1>8 DEF IInv, Exclusive
<1>10. \A u \in Threads : Orderly(held'[u], todo'[u])
  BY <1>1, <1>3 DEF IInv, Types
<1> QED BY <1>5, <1>9, <1>10 DEF IInv

LEMMA InvDropLast == ASSUME IInv, NEW t \in Threads, DropLast(t) PROVE IInv'
<1> DEFINE h == held[t]
           rest == SubSeq(h, 1, Len(h) - 1)
<1>1. /\ todo[t] # <<>> /\ Head(todo[t]) = Drop
      /\ held' = [held EXCEPT ![t] = rest]
      /\ todo' = [todo EXCEPT ![t] = Tail(@)] /\ left' = left
  BY DEF DropLast
<1>2. h \in Seq(Guards) /\ todo[t] \in Seq(Guards \cup {Drop})
  BY DEF IInv, Types
<1>3. h # <<>> /\ Orderly(rest, Tail(todo[t]))
  BY <1>1, <1>2, OrderlyStep, GuardShape DEF IInv
<1>4. /\ rest \in Seq(Guards) /\ Len(rest) = Len(h) - 1
      /\ \A i \in 1..Len(h) - 1 : rest[i] = h[i]
  <2>1. Len(h) - 1 \in 0..Len(h)
    BY <1>2, <1>3, EmptySeq, SMT
  <2> QED BY <2>1, <1>2, Prefixes
<1> HIDE DEF rest, h
<1>5. Types'
  <2>1. Tail(todo[t]) \in Seq(Guards \cup {Drop})
    BY <1>1, <1>2, HeadTailProperties
  <2> QED BY <2>1, <1>1, <1>4 DEF IInv, Types
<1>6. HoldsOf(t)' \subseteq HoldsOf(t)
  <2>1. held'[t] = rest
    BY <1>1 DEF IInv, Types
  <2>2. \A i \in 1..Len(h) - 1 : i \in 1..Len(h)
    BY <1>2, LenProperties, SMT
  <2> QED BY <2>1, <2>2, <1>4 DEF HoldsOf, h
<1>7. \A u \in Threads \ {t} : HoldsOf(u)' = HoldsOf(u)
  BY <1>1 DEF IInv, Types, HoldsOf
<1>8. Exclusive'
  BY <1>6, <1>7 DEF IInv, Exclusive
<1>9. \A u \in Threads : Orderly(held'[u], todo'[u])
  BY <1>1, <1>3 DEF IInv, Types
<1> QED BY <1>5, <1>8, <1>9 DEF IInv

LEMMA InvNext == IInv /\ [Next]_vars => IInv'
<1>1. ASSUME IInv, NEW t \in Threads, Run(t) PROVE IInv'
  BY <1>1, InvBegin, InvTake, InvDropLast DEF Run
<1>2. ASSUME IInv, UNCHANGED vars PROVE IInv'
  BY <1>2 DEF IInv, Types, Exclusive, HoldsOf, vars
<1> QED BY <1>1, <1>2 DEF Next

-----------------------------------------------------------------------------
(* The theorems.                                                           *)

\* In every reachable state every thread is in the middle of an orderly section
\* and no two of them hold guards that conflict (spin's RwLock).
THEOREM Invariance == Spec => []IInv
  BY InvInit, InvNext, PTL DEF Spec

\* The lock a thread waits for.
WaitsFor(t) == Head(todo[t]).lock

\* Whoever blocks a thread and is blocked itself waits further up.
LEMMA WaitsFurtherUp ==
  ASSUME IInv, NEW t \in Threads, NEW u \in Threads, NEW v \in Threads,
         Blocks(u, t), Blocks(v, u)
  PROVE  /\ Level[WaitsFor(t)] \in 1..4 /\ Level[WaitsFor(u)] \in 1..4
         /\ Level[WaitsFor(t)] < Level[WaitsFor(u)]
<1> DEFINE g == Head(todo[t])
           w == Head(todo[u])
           n == Len(held[u])
<1>1. g \in Guards /\ w \in Guards /\ todo[u] # <<>>
  BY DEF Blocks, Wants
<1>2. PICK i \in 1..n : Conflict(g, held[u][i])
  BY DEF Blocks, Wants, HoldsOf
<1>3. held[u] \in Seq(Guards) /\ todo[u] \in Seq(Guards \cup {Drop})
  BY DEF IInv, Types
<1>4. Fits(held[u], n, w)
  BY <1>1, <1>3, OrderlyStep, GuardShape DEF IInv
<1>5. PICK h \in HoldsOf(v) : Conflict(w, h)
  BY DEF Blocks, Wants
<1>6. Level[g.lock] \in 1..4 /\ Level[w.lock] \in 1..4
  BY <1>1, GuardShape
<1> HIDE DEF g, w, n
<1>7. CASE \A j \in 1..n : Level[held[u][j].lock] < Level[w.lock]
  <2>1. held[u][i].lock = g.lock
    BY <1>2 DEF Conflict
  <2> QED BY <2>1, <1>6, <1>7 DEF WaitsFor, g, w
<1>8. CASE /\ w = Read("fs")
           /\ \E j \in 1..n : held[u][j] = Read("fs")
           /\ \A j \in 1..n : held[u][j] # Write("fs")
  <2>1. h \in Guards /\ h = Write("fs")
    <3>1. h \in Guards
      BY LenProperties, ElementOfSeq DEF HoldsOf, IInv, Types
    <3>2. h.lock = "fs" /\ h.mode = "write"
      BY <1>5, <1>8 DEF Conflict, Read
    <3> QED BY <3>1, <3>2, GuardShape DEF Write
  <2>2. Read("fs") \in HoldsOf(u)
    BY <1>8 DEF HoldsOf, n
  <2>3. v = u
    <3>1. Conflict(Read("fs"), Write("fs"))
      BY DEF Conflict, Read, Write
    <3> QED BY <3>1, <2>1, <2>2 DEF IInv, Exclusive
  <2> QED BY <2>1, <2>3, <1>8 DEF HoldsOf, n
<1> QED BY <1>4, <1>7, <1>8 DEF Fits

\* No threads wait for each other in a circle, however many there are, whatever
\* sections they run, and however many clusters a call adds (vfs.rs:96-106,
\* runfs.rs:96-130).
THEOREM NobodyWaitsInACircle == Spec => []NoCyclicWait
<1>1. IInv => NoCyclicWait
  <2> SUFFICES ASSUME IInv, NEW circle \in SUBSET Threads,
                      \A t \in circle : \E u \in circle : Blocks(u, t)
               PROVE  circle = {}
    BY DEF NoCyclicWait
  <2>1. ASSUME NEW t \in circle
        PROVE  \E u \in circle : /\ Level[WaitsFor(t)] \in 1..4
                                 /\ Level[WaitsFor(u)] \in 1..4
                                 /\ Level[WaitsFor(t)] < Level[WaitsFor(u)]
    BY WaitsFurtherUp
  <2> DEFINE L(t) == Level[WaitsFor(t)]
  <2>2. ASSUME NEW m \in 1..4, \A t \in circle : L(t) \in 1..m
        PROVE  \A t \in circle : L(t) \in 1..m - 1
    <3> SUFFICES ASSUME NEW t \in circle PROVE L(t) \in 1..m - 1
      OBVIOUS
    <3>1. PICK u \in circle : L(t) \in 1..4 /\ L(u) \in 1..4 /\ L(t) < L(u)
      BY <2>1
    <3>2. L(u) \in 1..m
      BY <2>2
    <3> HIDE DEF L
    <3> QED BY <3>1, <3>2, SMT
  <2>3. \A t \in circle : L(t) \in 1..4
    BY <2>1
  <2> HIDE DEF L
  <2>4. \A t \in circle : L(t) \in 1..4 - 1
    BY <2>2, <2>3
  <2>5. \A t \in circle : L(t) \in 1..3 - 1
    BY <2>2, <2>4
  <2>6. \A t \in circle : L(t) \in 1..2 - 1
    BY <2>2, <2>5
  <2>7. \A t \in circle : L(t) \in 1..1 - 1
    BY <2>2, <2>6
  <2> QED BY <2>7, SMT
<1> QED BY <1>1, Invariance, PTL

ReturnsEmptyHanded == \A t \in Threads : todo[t] = <<>> => held[t] = <<>>

\* A section that is over has dropped every guard it took, the inner guards of
\* capacity and adjust_capacity included.
THEOREM SectionsDropTheirGuards == Spec => []ReturnsEmptyHanded
<1>1. IInv => ReturnsEmptyHanded
  BY OverHoldsNothing DEF IInv, ReturnsEmptyHanded
<1> QED BY <1>1, Invariance, PTL
=============================================================================
