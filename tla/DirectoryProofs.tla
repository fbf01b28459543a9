-------------------------- MODULE DirectoryProofs ---------------------------
(***************************************************************************)
(* Proofs about Directory, for any names, clusters and sizes of cluster,   *)
(* and every order of calls.  NamesApart, which the code does not check,   *)
(* is assumed of the names.                                                *)
(*                                                                         *)
(* The argument: the live entries of the directory are exactly those of    *)
(* its files, each a group of long entries and a short one in a place of   *)
(* its own (Laid), but for what delete leaves behind: entries under which  *)
(* no search begins and no name is found.  So both searches, and ls, find  *)
(* the group of a name and nothing else; a new group goes where no live    *)
(* entry is, and a deletion frees the short entry and the first long one   *)
(* of one group.  The files in these places (FilesOf) are what ls shows,   *)
(* and change as NameSpace says; their clusters are their own (Owned).     *)
(***************************************************************************)
EXTENDS Directory, TLAPS, SequenceTheorems, FiniteSetTheorems, WellFoundedInduction

-----------------------------------------------------------------------------
(* Induction on numbers.                                                   *)

\* A nonempty set of numbers has a least one.
LEMMA LeastOf ==
    ASSUME NEW S \in SUBSET Nat, S # {}
    PROVE  \E x \in S : \A y \in S : x <= y
<1> DEFINE R == {p \in Nat \X Nat : p[1] < p[2]}
<1>1. IsWellFoundedOn(R, Nat)
    <2>1. OpToRel(<, Nat) = R
        BY DEF OpToRel
    <2> QED
        BY <2>1, NatLessThanWellFounded
<1>2. PICK x \in S : \A y \in S : <<y, x>> \notin R
    <2> HIDE DEF R
    <2> QED
        BY <1>1, WFMin
<1>3. ASSUME NEW y \in S PROVE x <= y
    <2>1. <<y, x>> \in Nat \X Nat /\ <<y, x>>[1] = y /\ <<y, x>>[2] = x
        OBVIOUS
    <2>2. ~(y < x)
        BY <1>2, <2>1
    <2> QED
        BY <2>2
<1> QED
    BY <1>3

\* Induction up to a bound, for a set.
LEMMA UpTo ==
    ASSUME NEW N \in Nat, NEW S, 0 \in S, \A i \in 0 .. N - 1 : i \in S => i + 1 \in S
    PROVE  \A i \in 0 .. N : i \in S
<1> DEFINE Out == {i \in 0 .. N : i \notin S}
<1>1. ASSUME Out # {} PROVE FALSE
    <2>1. Out \in SUBSET Nat
        OBVIOUS
    <2>2. PICK x \in Out : \A y \in Out : x <= y
        <3> HIDE DEF Out
        <3> QED
            BY <1>1, <2>1, LeastOf
    <2>3. x \in 0 .. N /\ x \notin S
        OBVIOUS
    <2>4. x # 0 /\ x - 1 \in 0 .. N - 1 /\ x - 1 \in 0 .. N
        BY <2>3
    <2>5. x - 1 \in S
        <3>1. x - 1 \notin Out
            BY <2>2, <2>4
        <3> QED
            BY <2>4, <3>1
    <2>6. (x - 1) + 1 \in S
        BY <2>4, <2>5
    <2> QED
        BY <2>3, <2>4, <2>6
<1> QED
    BY <1>1

-----------------------------------------------------------------------------
(* Sequences.                                                              *)

IsSeq(d) == \E S : d \in Seq(S)

\* What IsSeq says of a length and a domain.
LEMMA SeqFacts ==
    ASSUME NEW d, IsSeq(d)
    PROVE  Len(d) \in Nat /\ DOMAIN d = 1 .. Len(d)
BY LenProperties DEF IsSeq

\* A function on 1 .. n is a sequence.
LEMMA FunctionIsSeq ==
    ASSUME NEW d, NEW n \in Nat, NEW S, d \in [1 .. n -> S]
    PROVE  IsSeq(d) /\ d \in Seq(S) /\ Len(d) = n
<1>1. d \in Seq(S) /\ Len(d) = n
    OBVIOUS
<1> QED
    BY <1>1 DEF IsSeq

\* u is d with e at o.
IsUpdate(d, o, e, u) ==
    /\ IsSeq(u) /\ Len(u) = Len(d)
    /\ \A i \in 1 .. Len(d) : u[i] = IF i = o THEN e ELSE d[i]

\* An entry written within the directory changes that one alone.
LEMMA Updated ==
    ASSUME NEW d, IsSeq(d), NEW o \in 1 .. Len(d), NEW e, NEW u, u = [d EXCEPT ![o] = e]
    PROVE  IsUpdate(d, o, e, u)
<1>1. PICK S : d \in Seq(S)
    BY DEF IsSeq
<1>2. Len(d) \in Nat /\ d \in [1 .. Len(d) -> S]
    BY <1>1, LenProperties
<1>3. u \in [1 .. Len(d) -> S \cup {e}]
    BY <1>2
<1>4. IsSeq(u) /\ Len(u) = Len(d)
    BY <1>2, <1>3, FunctionIsSeq
<1> QED
    BY <1>2, <1>4 DEF IsUpdate

\* d with entries e behind it.
LEMMA Longer ==
    ASSUME NEW d, IsSeq(d), NEW e, NEW t, IsSeq(t), \A i \in 1 .. Len(t) : t[i] = e
    PROVE  /\ IsSeq(d \o t) /\ Len(d \o t) = Len(d) + Len(t)
           /\ \A i \in 1 .. Len(d \o t) : (d \o t)[i] = IF i <= Len(d) THEN d[i] ELSE e
<1> DEFINE u == d \o t
           n == Len(t)
<1>0. n \in Nat
    BY SeqFacts
<1>1. PICK S : d \in Seq(S)
    BY DEF IsSeq
<1>2. Len(d) \in Nat /\ d \in [1 .. Len(d) -> S]
    BY <1>1, LenProperties
<1>3. d \in Seq(S \cup {e})
    BY <1>2, FunctionIsSeq
<1>4. t \in Seq(S \cup {e})
    <2>1. PICK T : t \in Seq(T)
        BY DEF IsSeq
    <2>2. t \in [1 .. n -> T]
        BY <2>1, LenProperties
    <2>3. t \in [1 .. n -> S \cup {e}]
        BY <2>2
    <2> QED
        BY <2>3, FunctionIsSeq
<1>5. /\ u \in Seq(S \cup {e}) /\ Len(u) = Len(d) + Len(t)
      /\ \A i \in 1 .. Len(d) + Len(t) : u[i] = IF i <= Len(d) THEN d[i] ELSE t[i - Len(d)]
    BY <1>3, <1>4, ConcatProperties
<1> HIDE DEF u
<1>6. \A i \in 1 .. Len(u) : ~(i <= Len(d)) => i - Len(d) \in 1 .. n
    BY <1>0, <1>2, <1>5
<1>7. IsSeq(u)
    BY <1>5 DEF IsSeq
<1> QED
    BY <1>5, <1>6, <1>7 DEF u

-----------------------------------------------------------------------------
(* Names.                                                                  *)

\* Quotient and remainder, for a divisor that is not a number.
LEMMA Division ==
    ASSUME NEW i \in Nat, NEW m \in Nat \ {0}
    PROVE  /\ i \div m \in Nat /\ i % m \in 0 .. m - 1
           /\ i = m * (i \div m) + (i % m)
BY SMT

\* The pieces are as many as it takes, and only the last may not be full.
LEMMA PiecesNeeded ==
    ASSUME NEW n, Len(n) \in Nat \ {0}
    PROVE  /\ NumPieces(n) \in Nat \ {0}
           /\ (NumPieces(n) - 1) * LONG_NAME_LEN \in Nat
           /\ (NumPieces(n) - 1) * LONG_NAME_LEN < Len(n)
           /\ Len(n) <= (NumPieces(n) - 1) * LONG_NAME_LEN + LONG_NAME_LEN
<1> DEFINE L == LONG_NAME_LEN
           s == Len(n) + L - 1
           q == s \div L
           r == s % L
<1>1. L \in Nat \ {0} /\ s \in Nat
    BY NameLengths
<1>2. q \in Nat /\ r \in 0 .. L - 1 /\ s = L * q + r
    BY <1>1, Division
<1>3. q # 0
    <2>1. q = 0 => L * q = 0
        BY <1>1
    <2> QED
        BY <1>1, <1>2, <2>1
<1>4. (q - 1) * L = L * q - L /\ L * q \in Nat
    BY <1>1, <1>2
<1>5. (q - 1) * L = Len(n) - 1 - r
    BY <1>1, <1>2, <1>4
<1>6. (q - 1) * L \in Nat
    BY <1>1, <1>2, <1>3
<1>7. NumPieces(n) = q
    BY DEF NumPieces
<1> HIDE DEF q, r, s
<1> QED
    BY <1>1, <1>2, <1>3, <1>5, <1>6, <1>7

\* Multiplication keeps the order.
LEMMA Multiples ==
    ASSUME NEW a \in Int, NEW b \in Int, a <= b
    PROVE  a * LONG_NAME_LEN <= b * LONG_NAME_LEN
<1>1. LONG_NAME_LEN \in Nat
    BY NameLengths
<1>2. (b - a) * LONG_NAME_LEN >= 0
    BY <1>1
<1>3. (b - a) * LONG_NAME_LEN = b * LONG_NAME_LEN - a * LONG_NAME_LEN
    BY <1>1
<1> QED
    BY <1>1, <1>2, <1>3

\* What name_format makes of the m-th piece: the part of the name it was cut from.
LEMMA FormattedPiece ==
    ASSUME NEW n, IsSeq(n), Len(n) # 0, \A i \in 1 .. Len(n) : n[i] # Nul,
           NEW m \in 1 .. NumPieces(n)
    PROVE  LET from == (m - 1) * LONG_NAME_LEN
               to   == IF m = NumPieces(n) THEN Len(n) ELSE m * LONG_NAME_LEN
           IN  /\ from \in Nat /\ to \in Nat /\ from < to /\ to <= Len(n)
               /\ NameFormat(LongNameSplit(n)[m]) = SubSeq(n, from + 1, to)
<1> DEFINE L == LONG_NAME_LEN
           N == NumPieces(n)
           a == (m - 1) * L
           len == IF m = N THEN Len(n) - a ELSE L
           p == [j \in 1 .. L |-> IF a + j <= Len(n) THEN n[a + j]
                                  ELSE IF a + j = Len(n) + 1 THEN Nul ELSE Padding]
<1>0. PICK T : n \in Seq(T)
    BY DEF IsSeq
<1> DEFINE S == T \cup {Nul, Padding}
<1>1. L \in Nat \ {0} /\ Len(n) \in Nat \ {0}
    BY NameLengths, SeqFacts
<1>2. N \in Nat \ {0} /\ (N - 1) * L \in Nat /\ (N - 1) * L < Len(n) /\ Len(n) <= (N - 1) * L + L
    BY <1>1, PiecesNeeded
<1>3. a \in Nat /\ a <= (N - 1) * L /\ (m = N => a = (N - 1) * L)
    <2>1. m - 1 \in Int /\ 0 \in Int /\ N - 1 \in Int /\ 0 <= m - 1 /\ m - 1 <= N - 1
        BY <1>2
    <2>2. 0 * L <= a /\ a <= (N - 1) * L
        BY <2>1, Multiples
    <2>3. a \in Int
        BY <1>1, <2>1
    <2> QED
        BY <1>1, <2>2, <2>3
<1>4. m * L = a + L
    <2>1. m \in Int
        BY <1>2
    <2> QED
        BY <1>1, <2>1
<1>5. m # N => m * L <= (N - 1) * L
    <2>1. m # N => m \in Int /\ N - 1 \in Int /\ m <= N - 1
        BY <1>2
    <2> QED
        BY <2>1, Multiples
<1>6. LongNameSplit(n)[m] = p
    <2>1. LongNameSplit(n)[m] = [j \in 1 .. L |->
              LET k == (m - 1) * L + j IN
              CASE k <= Len(n)     -> n[k]
                [] k = Len(n) + 1  -> Nul
                [] OTHER           -> Padding]
        BY DEF LongNameSplit
    <2>2. \A j \in 1 .. L :
              (CASE (m - 1) * L + j <= Len(n)     -> n[(m - 1) * L + j]
                 [] (m - 1) * L + j = Len(n) + 1  -> Nul
                 [] OTHER -> Padding)
              = IF a + j <= Len(n) THEN n[a + j]
                ELSE IF a + j = Len(n) + 1 THEN Nul ELSE Padding
        <3> TAKE j \in 1 .. L
        <3>1. CASE a + j <= Len(n)
            <4>1. a + j # Len(n) + 1
                BY <1>1, <1>3, <3>1
            <4> QED
                BY <3>1, <4>1
        <3>2. CASE ~(a + j <= Len(n))
            BY <3>2
        <3> QED
            BY <3>1, <3>2
    <2> HIDE DEF a
    <2> QED
        BY <2>1, <2>2
<1>7. \A i \in 1 .. Len(n) : n[i] \in S
    BY <1>0, ElementOfSeq
<1>8. Nul \in S /\ Padding \in S /\ Nul # Padding
    BY DEF Nul, Padding
<1> HIDE DEF S
<1> HIDE DEF a, p
<1>9. len \in 1 .. L /\ a + len <= Len(n) /\ a + len = IF m = N THEN Len(n) ELSE m * L
    <2>1. CASE m = N
        BY <1>1, <1>2, <1>3, <2>1
    <2>2. CASE m # N
        BY <1>1, <1>2, <1>3, <1>4, <1>5, <2>2
    <2> QED
        BY <2>1, <2>2
<1> USE DEF p
<1>10. p \in [1 .. L -> S]
    <2> SUFFICES ASSUME NEW j \in 1 .. L
                 PROVE  (IF a + j <= Len(n) THEN n[a + j]
                         ELSE IF a + j = Len(n) + 1 THEN Nul ELSE Padding) \in S
        OBVIOUS
    <2>1. a + j <= Len(n) => a + j \in 1 .. Len(n)
        BY <1>1, <1>3
    <2> QED
        BY <1>7, <1>8, <2>1
<1>11. p \in Seq(S) /\ Len(p) = L /\ DOMAIN p = 1 .. L
    BY <1>1, <1>10, FunctionIsSeq
<1>12. \A j \in 1 .. len : p[j] = n[a + j] /\ a + j \in 1 .. Len(n)
    BY <1>1, <1>3, <1>9
<1>13. \A j \in 1 .. L : ~(j <= len) => p[j] = IF j = len + 1 THEN Nul ELSE Padding
    <2> SUFFICES ASSUME NEW j \in 1 .. L, ~(j <= len)
                 PROVE  p[j] = IF j = len + 1 THEN Nul ELSE Padding
        OBVIOUS
    <2>1. len # L
        BY <1>1, <1>9
    <2>2. len = Len(n) - a
        BY <2>1
    <2>3. ~(a + j <= Len(n)) /\ (a + j = Len(n) + 1 <=> j = len + 1)
        BY <1>1, <1>3, <1>9, <2>2
    <2> QED
        BY <2>3
<1> HIDE DEF p, len
<1>14. /\ SubSeq(n, a + 1, a + len) \in Seq(S) /\ Len(SubSeq(n, a + 1, a + len)) = len
       /\ \A j \in 1 .. len : SubSeq(n, a + 1, a + len)[j] = n[a + j]
    <2>1. PICK x \in Int, y \in Int : x = a + 1 /\ y = a + len
        BY <1>3, <1>9
    <2>2. \A i \in x .. y : n[i] \in S
        BY <1>3, <1>7, <1>9, <2>1
    <2>3. x <= y /\ y - x + 1 = len
        BY <1>3, <1>9, <2>1
    <2>4. /\ SubSeq(n, x, y) \in Seq(S)
          /\ Len(SubSeq(n, x, y)) = len
          /\ \A i \in 1 .. len : SubSeq(n, x, y)[i] = n[x + i - 1]
        BY <2>2, <2>3, SubSeqProperties
    <2>5. \A j \in 1 .. len : x + j - 1 = a + j
        BY <1>3, <1>9, <2>1
    <2> QED
        BY <2>1, <2>4, <2>5
<1>15. NameFormat(LongNameSplit(n)[m]) = SubSeq(n, a + 1, a + len)
    <2>1. CASE len = L
        <3>1. {j \in DOMAIN p : p[j] = Nul} = {}
            BY <1>11, <1>12, <2>1
        <3>2. NameFormat(p) = p
            BY <3>1 DEF NameFormat
        <3>3. p = SubSeq(n, a + 1, a + len)
            BY <1>11, <1>12, <1>14, <2>1, SeqEqual, ZenonT(60)
        <3> QED
            BY <1>6, <3>2, <3>3
    <2>2. CASE len # L
        <3>1. len + 1 \in 1 .. L
            BY <1>1, <1>9, <2>2
        <3>2. {j \in DOMAIN p : p[j] = Nul} = {len + 1}
            <4>1. p[len + 1] = Nul
                BY <1>9, <1>13, <3>1
            <4>2. ASSUME NEW j \in 1 .. L, p[j] = Nul PROVE j = len + 1
                <5>1. CASE j <= len
                    <6>1. j \in 1 .. len
                        BY <1>9, <5>1
                    <6> QED
                        BY <1>12, <4>2, <6>1
                <5>2. CASE ~(j <= len)
                    BY <1>8, <1>13, <4>2, <5>2
                <5> QED
                    BY <5>1, <5>2
            <4> QED
                BY <1>11, <3>1, <4>1, <4>2
        <3>3. Min({len + 1}) = len + 1
            BY <1>9 DEF Min
        <3>4. NameFormat(p) = SubSeq(p, 1, len)
            <4>1. (len + 1) - 1 = len
                BY <1>9
            <4> QED
                BY <3>2, <3>3, <4>1 DEF NameFormat
        <3>5. /\ SubSeq(p, 1, len) \in Seq(S) /\ Len(SubSeq(p, 1, len)) = len
              /\ \A j \in 1 .. len : SubSeq(p, 1, len)[j] = p[j]
            <4>1. \A i \in 1 .. len : p[i] \in S
                BY <1>7, <1>12
            <4>2. 1 \in Int /\ len \in Int /\ 1 <= len /\ len - 1 + 1 = len
                BY <1>9
            <4>3. \A j \in 1 .. len : 1 + j - 1 = j
                BY <1>9
            <4>4. /\ SubSeq(p, 1, len) \in Seq(S) /\ Len(SubSeq(p, 1, len)) = len
                  /\ \A i \in 1 .. len : SubSeq(p, 1, len)[i] = p[1 + i - 1]
                BY <4>1, <4>2, SubSeqProperties
            <4> QED
                BY <4>3, <4>4
        <3>6. SubSeq(p, 1, len) = SubSeq(n, a + 1, a + len)
            BY <1>12, <1>14, <3>5, SeqEqual, ZenonT(60)
        <3> QED
            BY <1>6, <3>4, <3>6
    <2> QED
        BY <2>1, <2>2
<1>16. a < a + len /\ a + len \in Nat
    BY <1>3, <1>9
<1> QED
    BY <1>3, <1>9, <1>15, <1>16 DEF a

-----------------------------------------------------------------------------
(* The folds, step by step.                                                *)

\* The largest of a set, once it is known.
LEMMA MaxIs ==
    ASSUME NEW s, NEW m \in s, \A x \in s : x \in Int /\ x <= m
    PROVE  Max(s) = m
<1>1. m \in s /\ \A y \in s : m >= y
    OBVIOUS
<1>2. Max(s) \in s /\ \A y \in s : Max(s) >= y
    BY <1>1 DEF Max
<1> QED
    BY <1>2

\* dirent_info reads one piece after the other, each in front of those it has.
LEMMA JoinedSteps ==
    ASSUME NEW p, NEW N \in Nat, DOMAIN p = 1 .. N
    PROVE  \E j : /\ j[0] = <<>>
                  /\ \A k \in 0 .. N - 1 : j[k + 1] = NameFormat(p[k + 1]) \o j[k]
                  /\ Joined(p) = j[N]
<1> DEFINE Step(h, s) == IF s = {} THEN <<>> ELSE NameFormat(p[Max(s)]) \o h[s \ {Max(s)}]
           iter == CHOOSE h : h = [s \in SUBSET (1 .. N) |-> Step(h, s)]
           K == {k \in 0 .. N : \E h : h = [s \in SUBSET (1 .. k) |-> Step(h, s)]}
<1>1. 0 \in K
    <2>1. SUBSET (1 .. 0) = {{}}
        OBVIOUS
    <2> DEFINE h == [s \in {{}} |-> <<>>]
    <2>2. h = [s \in {{}} |-> Step(h, s)]
        OBVIOUS
    <2>3. 0 \in 0 .. N
        OBVIOUS
    <2> HIDE DEF h, Step
    <2>4. \E g : g = [s \in SUBSET (1 .. 0) |-> Step(g, s)]
        BY <2>1, <2>2
    <2> QED
        BY <2>3, <2>4
<1>2. \A k \in 0 .. N - 1 : k \in K => k + 1 \in K
    <2> SUFFICES ASSUME NEW k \in 0 .. N - 1, k \in K PROVE k + 1 \in K
        OBVIOUS
    <2>1. PICK h : h = [s \in SUBSET (1 .. k) |-> Step(h, s)]
        OBVIOUS
    <2> DEFINE g == [s \in SUBSET (1 .. k + 1) |->
                        IF k + 1 \in s THEN NameFormat(p[k + 1]) \o h[s \ {k + 1}] ELSE h[s]]
    <2>2. ASSUME NEW s \in SUBSET (1 .. k + 1) PROVE g[s] = Step(g, s)
        <3>1. CASE k + 1 \in s
            <4>1. Max(s) = k + 1
                <5>1. \A x \in s : x \in Int /\ x <= k + 1
                    OBVIOUS
                <5> QED
                    BY <3>1, <5>1, MaxIs
            <4>2. s \ {k + 1} \in SUBSET (1 .. k) /\ s \ {k + 1} \in SUBSET (1 .. k + 1)
                OBVIOUS
            <4>3. g[s \ {k + 1}] = h[s \ {k + 1}]
                BY <4>2
            <4>4. g[s] = NameFormat(p[k + 1]) \o h[s \ {k + 1}]
                BY <3>1
            <4> HIDE DEF g
            <4> QED
                BY <3>1, <4>1, <4>3, <4>4
        <3>2. CASE k + 1 \notin s
            <4>1. s \in SUBSET (1 .. k)
                BY <3>2
            <4>2. g[s] = h[s] /\ h[s] = Step(h, s)
                BY <2>1, <3>2, <4>1
            <4>3. CASE s = {}
                BY <4>2, <4>3
            <4>4. CASE s # {}
                <5>1. s \ {Max(s)} \in SUBSET (1 .. k + 1) /\ k + 1 \notin s \ {Max(s)}
                    BY <3>2
                <5>2. g[s \ {Max(s)}] = h[s \ {Max(s)}]
                    BY <5>1
                <5> HIDE DEF g
                <5> QED
                    BY <4>2, <4>4, <5>2
            <4> QED
                BY <4>3, <4>4
        <3> QED
            BY <3>1, <3>2
    <2>3. g = [s \in SUBSET (1 .. k + 1) |-> g[s]]
        OBVIOUS
    <2>4. g = [s \in SUBSET (1 .. k + 1) |-> Step(g, s)]
        <3> HIDE DEF g, Step
        <3> QED
            BY <2>2, <2>3
    <2>5. k + 1 \in 0 .. N
        OBVIOUS
    <2> HIDE DEF g, Step
    <2> QED
        BY <2>4, <2>5
<1>3. N \in K
    <2> HIDE DEF K
    <2>1. \A k \in 0 .. N : k \in K
        BY <1>1, <1>2, UpTo
    <2> QED
        BY <2>1
<1>4. iter = [s \in SUBSET (1 .. N) |-> Step(iter, s)]
    <2>1. \E h : h = [s \in SUBSET (1 .. N) |-> Step(h, s)]
        BY <1>3
    <2> HIDE DEF Step
    <2> QED
        BY <2>1
<1>5. Joined(p) = iter[1 .. N]
    BY DEF Joined, FoldLeft, MapThenFoldSet
<1> HIDE DEF iter, K
<1>6. \A s \in SUBSET (1 .. N) : iter[s] = Step(iter, s)
    <2> HIDE DEF Step
    <2> QED
        BY <1>4
<1> DEFINE j == [k \in 0 .. N |-> iter[1 .. k]]
<1>7. j[0] = <<>>
    <2>1. 1 .. 0 = {} /\ 0 \in 0 .. N
        OBVIOUS
    <2>2. iter[{}] = <<>>
        BY <1>6
    <2> QED
        BY <2>1, <2>2
<1>8. ASSUME NEW k \in 0 .. N - 1
      PROVE  j[k + 1] = NameFormat(p[k + 1]) \o j[k]
    <2>a. k \in 0 .. N /\ k + 1 \in 0 .. N
        OBVIOUS
    <2>b. 1 .. k + 1 \in SUBSET (1 .. N)
        OBVIOUS
    <2>c. k + 1 \in 1 .. k + 1
        OBVIOUS
    <2>d. (1 .. k + 1) \ {k + 1} = 1 .. k
        OBVIOUS
    <2>1. /\ k \in 0 .. N /\ k + 1 \in 0 .. N /\ 1 .. k + 1 \in SUBSET (1 .. N)
          /\ 1 .. k + 1 # {} /\ (1 .. k + 1) \ {k + 1} = 1 .. k
        BY <2>a, <2>b, <2>c, <2>d
    <2>2. Max(1 .. k + 1) = k + 1
        <3>1. \A x \in 1 .. k + 1 : x \in Int /\ x <= k + 1
            OBVIOUS
        <3>2. k + 1 \in 1 .. k + 1
            OBVIOUS
        <3> QED
            BY <3>1, <3>2, MaxIs
    <2>3. iter[1 .. k + 1] = Step(iter, 1 .. k + 1)
        BY <1>6, <2>1
    <2>4. j[k] = iter[1 .. k] /\ j[k + 1] = iter[1 .. k + 1]
        BY <2>1
    <2> HIDE DEF j
    <2> QED
        BY <2>1, <2>2, <2>3, <2>4
<1>9. j[N] = iter[1 .. N]
    OBVIOUS
<1> HIDE DEF j
<1> QED
    BY <1>5, <1>7, <1>8, <1>9


\* j is what there is after each entry of p.
IsWriting(j, b, p, N) ==
    /\ j[0] = b
    /\ \A k \in 0 .. N - 1 : j[k + 1] = WriteEntry(j[k], p[k + 1])
    /\ WriteEntries(b, p) = j[N]

\* create writes one entry after the other.
LEMMA WriteSteps ==
    ASSUME NEW b, NEW p, NEW N \in Nat, DOMAIN p = 1 .. N
    PROVE  \E j : IsWriting(j, b, p, N)
<1> DEFINE Step(h, s) == IF s = {} THEN b ELSE WriteEntry(h[s \ {Max(s)}], p[Max(s)])
           iter == CHOOSE h : h = [s \in SUBSET (1 .. N) |-> Step(h, s)]
           K == {k \in 0 .. N : \E h : h = [s \in SUBSET (1 .. k) |-> Step(h, s)]}
<1>1. 0 \in K
    <2>1. SUBSET (1 .. 0) = {{}}
        OBVIOUS
    <2> DEFINE h == [s \in {{}} |-> b]
    <2>2. h = [s \in {{}} |-> Step(h, s)]
        OBVIOUS
    <2>3. 0 \in 0 .. N
        OBVIOUS
    <2> HIDE DEF h, Step
    <2>4. \E g : g = [s \in SUBSET (1 .. 0) |-> Step(g, s)]
        BY <2>1, <2>2
    <2> QED
        BY <2>3, <2>4
<1>2. \A k \in 0 .. N - 1 : k \in K => k + 1 \in K
    <2> SUFFICES ASSUME NEW k \in 0 .. N - 1, k \in K PROVE k + 1 \in K
        OBVIOUS
    <2>1. PICK h : h = [s \in SUBSET (1 .. k) |-> Step(h, s)]
        OBVIOUS
    <2> DEFINE g == [s \in SUBSET (1 .. k + 1) |->
                        IF k + 1 \in s THEN WriteEntry(h[s \ {k + 1}], p[k + 1]) ELSE h[s]]
    <2>2. ASSUME NEW s \in SUBSET (1 .. k + 1) PROVE g[s] = Step(g, s)
        <3>1. CASE k + 1 \in s
            <4>1. Max(s) = k + 1
                <5>1. \A x \in s : x \in Int /\ x <= k + 1
                    OBVIOUS
                <5> QED
                    BY <3>1, <5>1, MaxIs
            <4>2. s \ {k + 1} \in SUBSET (1 .. k) /\ s \ {k + 1} \in SUBSET (1 .. k + 1)
                OBVIOUS
            <4>3. g[s \ {k + 1}] = h[s \ {k + 1}]
                BY <4>2
            <4>4. g[s] = WriteEntry(h[s \ {k + 1}], p[k + 1])
                BY <3>1
            <4> HIDE DEF g
            <4> QED
                BY <3>1, <4>1, <4>3, <4>4
        <3>2. CASE k + 1 \notin s
            <4>1. s \in SUBSET (1 .. k)
                BY <3>2
            <4>2. g[s] = h[s] /\ h[s] = Step(h, s)
                BY <2>1, <3>2, <4>1
            <4>3. CASE s = {}
                BY <4>2, <4>3
            <4>4. CASE s # {}
                <5>1. s \ {Max(s)} \in SUBSET (1 .. k + 1) /\ k + 1 \notin s \ {Max(s)}
                    BY <3>2
                <5>2. g[s \ {Max(s)}] = h[s \ {Max(s)}]
                    BY <5>1
                <5> HIDE DEF g
                <5> QED
                    BY <4>2, <4>4, <5>2
            <4> QED
                BY <4>3, <4>4
        <3> QED
            BY <3>1, <3>2
    <2>3. g = [s \in SUBSET (1 .. k + 1) |-> g[s]]
        OBVIOUS
    <2>4. g = [s \in SUBSET (1 .. k + 1) |-> Step(g, s)]
        <3> HIDE DEF g, Step
        <3> QED
            BY <2>2, <2>3
    <2>5. k + 1 \in 0 .. N
        OBVIOUS
    <2> HIDE DEF g, Step
    <2> QED
        BY <2>4, <2>5
<1>3. N \in K
    <2> HIDE DEF K
    <2>1. \A k \in 0 .. N : k \in K
        BY <1>1, <1>2, UpTo
    <2> QED
        BY <2>1
<1>4. iter = [s \in SUBSET (1 .. N) |-> Step(iter, s)]
    <2>1. \E h : h = [s \in SUBSET (1 .. N) |-> Step(h, s)]
        BY <1>3
    <2> HIDE DEF Step
    <2> QED
        BY <2>1
<1>5. WriteEntries(b, p) = iter[1 .. N]
    BY DEF WriteEntries, FoldLeft, MapThenFoldSet
<1> HIDE DEF iter, K
<1>6. \A s \in SUBSET (1 .. N) : iter[s] = Step(iter, s)
    <2> HIDE DEF Step
    <2> QED
        BY <1>4
<1> DEFINE j == [k \in 0 .. N |-> iter[1 .. k]]
<1>7. j[0] = b
    <2>1. 1 .. 0 = {} /\ 0 \in 0 .. N
        OBVIOUS
    <2>2. iter[{}] = b
        BY <1>6
    <2> QED
        BY <2>1, <2>2
<1>8. ASSUME NEW k \in 0 .. N - 1
      PROVE  j[k + 1] = WriteEntry(j[k], p[k + 1])
    <2>a. k \in 0 .. N /\ k + 1 \in 0 .. N
        OBVIOUS
    <2>b. 1 .. k + 1 \in SUBSET (1 .. N)
        OBVIOUS
    <2>c. k + 1 \in 1 .. k + 1
        OBVIOUS
    <2>d. (1 .. k + 1) \ {k + 1} = 1 .. k
        OBVIOUS
    <2>1. /\ k \in 0 .. N /\ k + 1 \in 0 .. N /\ 1 .. k + 1 \in SUBSET (1 .. N)
          /\ 1 .. k + 1 # {} /\ (1 .. k + 1) \ {k + 1} = 1 .. k
        BY <2>a, <2>b, <2>c, <2>d
    <2>2. Max(1 .. k + 1) = k + 1
        <3>1. \A x \in 1 .. k + 1 : x \in Int /\ x <= k + 1
            OBVIOUS
        <3>2. k + 1 \in 1 .. k + 1
            OBVIOUS
        <3> QED
            BY <3>1, <3>2, MaxIs
    <2>3. iter[1 .. k + 1] = Step(iter, 1 .. k + 1)
        BY <1>6, <2>1
    <2>4. j[k] = iter[1 .. k] /\ j[k + 1] = iter[1 .. k + 1]
        BY <2>1
    <2> HIDE DEF j
    <2> QED
        BY <2>1, <2>2, <2>3, <2>4
<1>9. j[N] = iter[1 .. N]
    OBVIOUS
<1> HIDE DEF j
<1>10. WriteEntries(b, p) = j[N]
    BY <1>5, <1>9
<1> QED
    BY <1>7, <1>8, <1>10 DEF IsWriting

\* What can be a name on disk.
IsName(n) == IsSeq(n) /\ Len(n) # 0 /\ \A i \in 1 .. Len(n) : n[i] # Nul

\* The pieces of a name, as they lie on disk.
OnDisk(n) == Reverse(LongNameSplit(n))

\* The pieces on disk are those of the split, the last one first.
LEMMA OnDiskIs ==
    ASSUME NEW n, IsName(n)
    PROVE  /\ NumPieces(n) \in Nat \ {0}
           /\ IsSeq(OnDisk(n)) /\ Len(OnDisk(n)) = NumPieces(n)
           /\ \A k \in 1 .. NumPieces(n) : OnDisk(n)[k] = LongNameSplit(n)[NumPieces(n) - k + 1]
<1> DEFINE N == NumPieces(n)
           sp == LongNameSplit(n)
           S == {sp[i] : i \in 1 .. N}
<1>1. N \in Nat \ {0}
    BY SeqFacts, PiecesNeeded DEF IsName
<1>2. sp \in [1 .. N -> S]
    BY DEF LongNameSplit
<1> HIDE DEF N, sp
<1>3. Len(sp) = N
    BY <1>1, <1>2, FunctionIsSeq
<1>4. \A k \in 1 .. N : N - k + 1 \in 1 .. N
    BY <1>1
<1>5. OnDisk(n) = [k \in 1 .. N |-> sp[(N - k) + 1]]
    BY <1>3 DEF OnDisk, Reverse, sp
<1>6. OnDisk(n) \in [1 .. N -> S]
    BY <1>2, <1>4, <1>5
<1>7. IsSeq(OnDisk(n)) /\ Len(OnDisk(n)) = N
    BY <1>1, <1>6, FunctionIsSeq
<1> QED
    BY <1>1, <1>5, <1>7 DEF N, sp

\* A name survives the way to disk and back, whatever its length: what
\* dirent_info joins is what long_name_split was given, also when the last
\* piece is full and has no zero behind it (vfs.rs:16-32, 637-673,
\* dir_entry.rs:446-474).
THEOREM NamesComeBack ==
    ASSUME NEW n, IsName(n)
    PROVE  Joined(OnDisk(n)) = n
<1> DEFINE N == NumPieces(n)
           L == LONG_NAME_LEN
           p == OnDisk(n)
<1>1. /\ N \in Nat \ {0} /\ DOMAIN p = 1 .. N
      /\ \A k \in 1 .. N : p[k] = LongNameSplit(n)[N - k + 1]
    BY OnDiskIs, SeqFacts
<1>2. PICK T : n \in Seq(T)
    BY DEF IsName, IsSeq
<1>3. L \in Nat \ {0} /\ Len(n) \in Nat
    BY <1>2, NameLengths, LenProperties
<1> HIDE DEF N, p
<1>4. PICK j : /\ j[0] = <<>>
               /\ \A k \in 0 .. N - 1 : j[k + 1] = NameFormat(p[k + 1]) \o j[k]
               /\ Joined(p) = j[N]
    BY <1>1, JoinedSteps
<1> DEFINE K == {k \in 0 .. N : k # 0 => /\ (N - k) * L \in 0 .. Len(n)
                                         /\ j[k] = SubSeq(n, (N - k) * L + 1, Len(n))}
<1>5. 0 \in K
    BY <1>1
<1>6. ASSUME NEW k \in 0 .. N - 1, k \in K PROVE k + 1 \in K
    <2>1. k + 1 \in 1 .. N /\ N - (k + 1) + 1 = N - k
        BY <1>1
    <2>2. PICK m \in 1 .. N : m = N - k
        BY <1>1
    <2>3. p[k + 1] = LongNameSplit(n)[m]
        BY <1>1, <2>1, <2>2
    <2>4. /\ (m - 1) * L \in Nat
          /\ (m - 1) * L < (IF m = N THEN Len(n) ELSE m * L)
          /\ (IF m = N THEN Len(n) ELSE m * L) \in Nat
          /\ (IF m = N THEN Len(n) ELSE m * L) <= Len(n)
          /\ NameFormat(LongNameSplit(n)[m])
               = SubSeq(n, (m - 1) * L + 1, IF m = N THEN Len(n) ELSE m * L)
        <3>1. m \in 1 .. NumPieces(n) /\ IsSeq(n) /\ Len(n) # 0
              /\ \A i \in 1 .. Len(n) : n[i] # Nul
            BY <2>2 DEF N, IsName
        <3>2. LET from == (m - 1) * LONG_NAME_LEN
                  to   == IF m = NumPieces(n) THEN Len(n) ELSE m * LONG_NAME_LEN
              IN  /\ from \in Nat /\ to \in Nat /\ from < to /\ to <= Len(n)
                  /\ NameFormat(LongNameSplit(n)[m]) = SubSeq(n, from + 1, to)
            BY <3>1, FormattedPiece
        <3> QED
            BY <3>2 DEF N
    <2>5. PICK a \in Nat, b \in Nat : a = (m - 1) * L /\ b = IF m = N THEN Len(n) ELSE m * L
        BY <2>4
    <2>6. N - (k + 1) = m - 1
        BY <1>1, <2>2
    <2>7. a < b /\ b <= Len(n)
        BY <2>4, <2>5
    <2>8. j[k + 1] = SubSeq(n, a + 1, b) \o j[k]
        BY <1>4, <2>3, <2>4, <2>5
    <2>9. SubSeq(n, a + 1, b) \o j[k] = SubSeq(n, a + 1, Len(n))
        <3>1. CASE k = 0
            <4>1. b = Len(n) /\ j[k] = <<>>
                BY <1>1, <1>4, <2>2, <2>5, <3>1
            <4>2. SubSeq(n, a + 1, b) \in Seq(T)
                <5>1. \A i \in a + 1 .. b : n[i] \in T
                    BY <1>2, <1>3, <2>7, ElementOfSeq
                <5>2. PICK x \in Int : x = a + 1
                    OBVIOUS
                <5> QED
                    BY <5>1, <5>2, SubSeqProperties
            <4> QED
                BY <4>1, <4>2, ConcatEmptySeq
        <3>2. CASE k # 0
            <4>1. m # N /\ b = m * L /\ (N - k) * L = b
                BY <1>1, <2>2, <2>5, <3>2
            <4>2. j[k] = SubSeq(n, b + 1, Len(n))
                BY <1>6, <3>2, <4>1
            <4>3. PICK x \in 1 .. Len(n) + 1 : x = a + 1
                BY <1>3, <2>7
            <4>4. b \in x - 1 .. Len(n) /\ Len(n) \in b .. Len(n)
                BY <1>3, <2>7, <4>3
            <4>5. SubSeq(n, x, b) \o SubSeq(n, b + 1, Len(n)) = SubSeq(n, x, Len(n))
                BY <1>2, <4>4, ConcatAdjacentSubSeq
            <4> QED
                BY <4>2, <4>3, <4>5
        <3> QED
            BY <3>1, <3>2
    <2>10. a \in 0 .. Len(n)
        BY <1>3, <2>7
    <2>11. (N - (k + 1)) * L = a
        BY <2>5, <2>6
    <2>12. j[k + 1] = SubSeq(n, (N - (k + 1)) * L + 1, Len(n))
        BY <2>8, <2>9, <2>11
    <2>13. (N - (k + 1)) * L \in 0 .. Len(n)
        BY <2>10, <2>11
    <2>14. k + 1 \in 0 .. N
        BY <2>1
    <2> QED
        BY <2>12, <2>13, <2>14
<1>7. \A k \in 0 .. N : k \in K
    <2>1. \A k \in 0 .. N - 1 : k \in K => k + 1 \in K
        BY <1>6
    <2> HIDE DEF K
    <2> QED
        BY <1>1, <1>5, <2>1, UpTo
<1>8. j[N] = SubSeq(n, 1, Len(n))
    <2>1. N \in 0 .. N /\ N # 0 /\ (N - N) * L + 1 = 1
        BY <1>1, <1>3
    <2> QED
        BY <1>7, <2>1
<1>9. j[N] = n
    BY <1>2, <1>8, SubSeqFull
<1> QED
    BY <1>4, <1>9 DEF p

-----------------------------------------------------------------------------
(* The directory on disk.  In what follows d is its entries, and place     *)
(* gives by name where the entries of a file begin, 0 for no file.         *)

Num(n) == Len(Pieces[n])

EntryOK(e) ==
    /\ e.type \in {"empty", "long", "short"} /\ e.del \in BOOLEAN
    /\ e.type = "short" => e.kind \in {"file", "dir"}
    /\ e.type = "long" => e.last \in BOOLEAN

\* Entry i of name n, and the short one.
LongFields  == {"type", "del", "text", "order", "last", "sum"}
ShortFields == {"type", "del", "name", "kind", "first"}

HasFields(e, F) == e = [f \in F |-> e[f]]

LongOK(e, n, i) ==
    /\ HasFields(e, LongFields)
    /\ e.type = "long" /\ e.del = FALSE /\ e.text = Pieces[n][i]
    /\ e.order = Num(n) + 1 - i /\ e.sum = ShortOf[n]
    /\ e.last \in BOOLEAN /\ (e.last = TRUE <=> i = 1)

ShortOK(e, n) ==
    /\ HasFields(e, ShortFields)
    /\ e.type = "short" /\ e.del = FALSE /\ e.name = ShortOf[n]
    /\ <<n, e.kind>> \in Kinds /\ e.first \in Clusters

\* The entries of n are at o and behind it.
Group(d, n, o) ==
    /\ o + Num(n) <= Len(d)
    /\ \A i \in 1 .. Num(n) : LongOK(d[o + i - 1], n, i)
    /\ ShortOK(d[o + Num(n)], n)

\* A live first entry begins a file, or one whose end did not fit any more; full
\* says that a call has panicked.
FirstOK(d, place, full, o) ==
    \/ \E n \in Names : place[n] = o
    \/ full /\ \E n \in Names : d[o].order = Num(n) /\ o + Num(n) > Len(d)

\* A live short entry ends a file, or is found under no name; or a delete has
\* stopped half-way, and a free entry hides it from the search for short names.
LastOK(d, place, full, o) ==
    \/ \E n \in Names : place[n] # 0 /\ o = place[n] + Num(n)
    \/ \A n \in Names : ShortName(d[o].name) # n
    \/ full /\ \E f \in 1 .. o - 1 : IsFree(d[f])

\* Whole clusters.
Whole(len) == \E q \in Nat : len = q * SlotsPerCluster

\* The files are at their places, and nothing else on disk looks like one.
Laid(d, place, full) ==
    /\ IsSeq(d) /\ 2 <= Len(d) /\ Whole(Len(d))
    /\ place \in [Names -> Nat]
    /\ \A i \in 1 .. Len(d) : EntryOK(d[i])
    /\ \A n \in Names : place[n] # 0 => Group(d, n, place[n])
    /\ \A o \in 1 .. Len(d) : ~IsFree(d[o]) /\ IsLast(d[o]) => FirstOK(d, place, full, o)
    /\ \A o \in 1 .. Len(d) : ~IsFree(d[o]) /\ d[o].type = "short" => LastOK(d, place, full, o)

\* The names, and .., can be names on disk.
LEMMA NamesAre ==
    ASSUME NamesApart, NEW n \in Names \cup {DotDot}
    PROVE  IsName(n)
<1>1. CASE n \in Names
    <2>1. n \in Seq(STRING) /\ n # <<>>
        BY <1>1, NamesAssumption
    <2>2. Len(n) # 0
        BY <2>1, EmptySeq
    <2> QED
        BY <1>1, <2>1, <2>2 DEF NamesApart, IsName, IsSeq
<1>2. CASE n = DotDot
    <2>1. n = <<Dot, Dot>> /\ Len(n) = 2 /\ n \in Seq({Dot})
        BY <1>2 DEF DotDot
    <2>2. \A i \in 1 .. 2 : n[i] = Dot
        BY <2>1
    <2>3. Dot # Nul
        BY DEF Dot, Nul
    <2>4. \A i \in 1 .. Len(n) : n[i] # Nul
        BY <2>1, <2>2, <2>3
    <2>5. IsSeq(n)
        BY <2>1 DEF IsSeq
    <2>6. Len(n) # 0
        BY <2>1
    <2> QED
        BY <2>4, <2>5, <2>6 DEF IsName
<1> QED
    BY <1>1, <1>2

\* A name has pieces, and joined they are the name.
LEMMA PiecesAre ==
    ASSUME NamesApart, NEW n \in Names \cup {DotDot}
    PROVE  /\ Num(n) \in Nat \ {0} /\ IsSeq(Pieces[n])
           /\ Pieces[n] = [i \in 1 .. Num(n) |-> Pieces[n][i]]
           /\ Joined(Pieces[n]) = n
<1>1. IsName(n)
    BY NamesAre
<1>2. Pieces[n] = OnDisk(n)
    BY DEF Pieces, OnDisk
<1>3. IsSeq(Pieces[n]) /\ Num(n) \in Nat \ {0}
    BY <1>1, <1>2, OnDiskIs DEF Num
<1>4. Pieces[n] = [i \in 1 .. Num(n) |-> Pieces[n][i]]
    <2>1. PICK S : Pieces[n] \in Seq(S)
        BY <1>3 DEF IsSeq
    <2> QED
        BY <2>1, LenProperties DEF Num
<1>5. Joined(Pieces[n]) = n
    BY <1>1, <1>2, NamesComeBack
<1> QED
    BY <1>3, <1>4, <1>5

\* Two names with the same pieces are one.
LEMMA SamePieces ==
    ASSUME NamesApart, NEW m \in Names \cup {DotDot}, NEW n \in Names \cup {DotDot},
           Num(m) = Num(n), \A i \in 1 .. Num(n) : Pieces[m][i] = Pieces[n][i]
    PROVE  m = n
<1>1. /\ Pieces[m] = [i \in 1 .. Num(m) |-> Pieces[m][i]] /\ Joined(Pieces[m]) = m
      /\ Pieces[n] = [i \in 1 .. Num(n) |-> Pieces[n][i]] /\ Joined(Pieces[n]) = n
    BY PiecesAre
<1>2. Pieces[m] = Pieces[n]
    BY <1>1
<1> QED
    BY <1>1, <1>2

\* Files begin in different places, and none begins inside another.
LEMMA PlacesApart ==
    ASSUME NamesApart, NEW d, NEW place, NEW full, Laid(d, place, full),
           NEW m \in Names, NEW n \in Names, m # n, place[m] # 0, place[n] # 0
    PROVE  place[m] < place[n] => place[m] + Num(m) < place[n]
<1>1. Num(m) \in Nat \ {0} /\ Num(n) \in Nat \ {0} /\ place[m] \in Nat /\ place[n] \in Nat
    BY PiecesAre DEF Laid
<1>2. Group(d, m, place[m]) /\ Group(d, n, place[n])
    BY DEF Laid
<1>3. d[place[n]].type = "long" /\ d[place[n]].last = TRUE
    <2>1. 1 \in 1 .. Num(n) /\ place[n] + 1 - 1 = place[n]
        BY <1>1
    <2>2. LongOK(d[place[n]], n, 1)
        BY <1>2, <2>1 DEF Group
    <2> QED
        BY <2>2 DEF LongOK
<1> SUFFICES ASSUME place[m] < place[n], place[n] <= place[m] + Num(m) PROVE FALSE
    BY <1>1
<1>4. CASE place[n] = place[m] + Num(m)
    <2>1. d[place[n]].type = "short"
        BY <1>2, <1>4 DEF Group, ShortOK
    <2> QED
        BY <1>3, <2>1
<1>5. CASE place[n] # place[m] + Num(m)
    <2>1. PICK i \in 1 .. Num(m) : place[m] + i - 1 = place[n] /\ i # 1
        <3>1. place[n] - place[m] + 1 \in 1 .. Num(m)
            BY <1>1, <1>5
        <3> QED
            BY <1>1, <3>1
    <2>2. LongOK(d[place[n]], m, i)
        BY <1>2, <2>1 DEF Group
    <2>3. d[place[n]].last = FALSE
        BY <2>1, <2>2 DEF LongOK
    <2> QED
        BY <1>3, <2>3
<1> QED
    BY <1>4, <1>5

\* Two files have two places.
LEMMA PlacesDiffer ==
    ASSUME NamesApart, NEW d, NEW place, NEW full, Laid(d, place, full),
           NEW m \in Names, NEW n \in Names, place[m] # 0, place[m] = place[n]
    PROVE  m = n
<1>1. Num(m) \in Nat \ {0} /\ Num(n) \in Nat \ {0} /\ place[n] \in Nat
    BY PiecesAre DEF Laid
<1>2. Group(d, m, place[n]) /\ Group(d, n, place[n])
    BY DEF Laid
<1>3. \A i \in 1 .. Num(m) : LongOK(d[place[n] + i - 1], m, i)
    BY <1>2 DEF Group
<1>4. \A i \in 1 .. Num(n) : LongOK(d[place[n] + i - 1], n, i)
    BY <1>2 DEF Group
<1>5. Num(m) = Num(n)
    <2>1. d[place[n] + 1 - 1].order = Num(m) + 1 - 1
        BY <1>1, <1>3 DEF LongOK
    <2>2. d[place[n] + 1 - 1].order = Num(n) + 1 - 1
        BY <1>1, <1>4 DEF LongOK
    <2> QED
        BY <1>1, <2>1, <2>2
<1>6. \A i \in 1 .. Num(n) : Pieces[m][i] = Pieces[n][i]
    BY <1>3, <1>4, <1>5 DEF LongOK
<1> QED
    BY <1>5, <1>6, SamePieces

-----------------------------------------------------------------------------
(* Searching.                                                              *)

\* The least of a set, once it is known.
LEMMA LeastIs ==
    ASSUME NEW S, NEW x \in S, \A y \in S : y \in Int /\ x <= y
    PROVE  Least(S) = x
<1>1. Least(S) \in S /\ \A y \in S : Least(S) <= y
    BY DEF Least
<1> QED
    BY <1>1

\* The least of a nonempty set of numbers is in it, and least.
LEMMA LeastIn ==
    ASSUME NEW S \in SUBSET Nat, S # {}
    PROVE  Least(S) \in S /\ \A y \in S : Least(S) <= y
<1>1. \E x \in S : \A y \in S : x <= y
    BY LeastOf
<1> QED
    BY <1>1 DEF Least

\* Where a search for a long name can end: at its file, or behind the end.
LEMMA SearchEnds ==
    ASSUME NamesApart, NEW d, NEW place, NEW full, Laid(d, place, full),
           NEW n \in Names \cup {DotDot}, NEW o \in 1 .. Len(d), SearchEndsAt(n, o, d)
    PROVE  (n \in Names /\ place[n] = o) \/ o + Num(n) > Len(d)
<1> SUFFICES ASSUME ~(o + Num(n) > Len(d)) PROVE n \in Names /\ place[n] = o
    OBVIOUS
<1>0. Len(d) \in Nat /\ Num(n) \in Nat \ {0}
    BY PiecesAre, SeqFacts DEF Laid
<1>1. /\ ~IsFree(d[o]) /\ IsLast(d[o])
      /\ d[o].text = Pieces[n][1] /\ d[o].order = Num(n)
    BY DEF SearchEndsAt, StartsAt, Num
<1>2. PICK m \in Names : place[m] = o
    <2>1. FirstOK(d, place, full, o)
        BY <1>1 DEF Laid
    <2>2. ASSUME NEW m \in Names, d[o].order = Num(m) /\ o + Num(m) > Len(d) PROVE FALSE
        BY <1>1, <2>2
    <2> QED
        BY <2>1, <2>2 DEF FirstOK
<1>3. Num(m) \in Nat \ {0} /\ Group(d, m, o)
    <2>1. Num(m) \in Nat \ {0}
        BY PiecesAre
    <2>2. Group(d, m, place[m])
        BY <1>2 DEF Laid
    <2> QED
        BY <1>2, <2>1, <2>2
<1>4. Num(m) = Num(n)
    <2>1. LongOK(d[o + 1 - 1], m, 1) /\ o + 1 - 1 = o
        BY <1>3 DEF Group
    <2> QED
        BY <1>0, <1>1, <1>3, <2>1 DEF LongOK
<1>5. \A i \in 1 .. Num(n) : Pieces[m][i] = Pieces[n][i]
    <2> TAKE i \in 1 .. Num(n)
    <2>1. d[o + i - 1].text = Pieces[m][i]
        BY <1>3, <1>4 DEF Group, LongOK
    <2>2. CASE i = 1
        BY <1>1, <2>1, <2>2
    <2>3. CASE i # 1
        <3>1. i \in 2 .. Num(n) /\ o + i - 1 <= Len(d)
            BY <1>0, <2>3
        <3>2. d[o + i - 1].text = Pieces[n][i]
            BY <3>1 DEF SearchEndsAt, Num
        <3> QED
            BY <2>1, <3>2
    <2> QED
        BY <2>2, <2>3
<1>6. m = n
    BY <1>4, <1>5, SamePieces
<1> QED
    BY <1>2, <1>6

\* The search by long names finds the place of a file that is there.
LEMMA FindsLongName ==
    ASSUME NamesApart, NEW d, NEW place, NEW full, Laid(d, place, full),
           NEW n \in Names, place[n] # 0
    PROVE  FindLongName(n, d) = VFile(place[n] + Num(n), place[n], Num(n))
<1> DEFINE ends == {o \in DOMAIN d : SearchEndsAt(n, o, d)}
           p == place[n]
<1>0. /\ Len(d) \in Nat /\ DOMAIN d = 1 .. Len(d)
      /\ Num(n) \in Nat \ {0} /\ p \in Nat /\ Group(d, n, p)
    BY PiecesAre, SeqFacts DEF Laid
<1>1. p \in 1 .. Len(d) /\ p + Num(n) \in 1 .. Len(d)
    BY <1>0 DEF Group
<1>2. LongOK(d[p], n, 1)
    <2>1. LongOK(d[p + 1 - 1], n, 1)
        BY <1>0 DEF Group
    <2>2. p + 1 - 1 = p
        BY <1>0
    <2> QED
        BY <2>1, <2>2
<1>3. SearchEndsAt(n, p, d)
    <2>1. StartsAt(n, p, d)
        BY <1>0, <1>2 DEF StartsAt, LongOK, IsFree, IsLast, IsLong, Num
    <2>2. \A i \in 2 .. Num(n) : IsLong(d[p + i - 1]) /\ d[p + i - 1].text = Pieces[n][i]
        BY <1>0 DEF Group, LongOK, IsLong
    <2> QED
        BY <2>1, <2>2 DEF SearchEndsAt, Num
<1>4. p \in ends
    BY <1>0, <1>1, <1>3
<1>5. \A o \in ends : o \in Int /\ p <= o
    <2> TAKE o \in ends
    <2>1. o \in 1 .. Len(d) /\ SearchEndsAt(n, o, d)
        BY <1>0
    <2>2. p = o \/ o + Num(n) > Len(d)
        BY <2>1, SearchEnds
    <2> QED
        BY <1>0, <1>1, <2>1, <2>2
<1> HIDE DEF ends
<1>6. Least(ends) = p
    BY <1>4, <1>5, LeastIs
<1>7. ~IsFree(d[p + Num(n)]) /\ Checksum(d[p + Num(n)]) = d[p].sum
    BY <1>0, <1>2 DEF Group, ShortOK, LongOK, IsFree, Checksum
<1>8. ends # {} /\ p + Num(n) <= Len(d)
    BY <1>1, <1>4
<1> QED
    BY <1>6, <1>7, <1>8 DEF FindLongName, ends, Num

\* The search by long names finds nothing of a name without a file.
LEMMA FindsNoLongName ==
    ASSUME NamesApart, NEW d, NEW place, NEW full, Laid(d, place, full),
           NEW n \in Names \cup {DotDot}, n \in Names => place[n] = 0
    PROVE  FindLongName(n, d) = NONE
<1> DEFINE ends == {o \in DOMAIN d : SearchEndsAt(n, o, d)}
<1>0. Len(d) \in Nat /\ DOMAIN d = 1 .. Len(d) /\ Num(n) \in Nat \ {0}
    BY PiecesAre, SeqFacts DEF Laid
<1>1. \A o \in ends : o + Num(n) > Len(d)
    <2> TAKE o \in ends
    <2>1. o \in 1 .. Len(d) /\ SearchEndsAt(n, o, d)
        BY <1>0
    <2>2. ~(n \in Names /\ place[n] = o)
        BY <2>1
    <2> QED
        BY <2>1, <2>2, SearchEnds
<1>2. ends # {} => Least(ends) \in ends
    <2>1. ends \in SUBSET Nat
        BY <1>0
    <2> HIDE DEF ends
    <2> QED
        BY <2>1, LeastIn
<1>3. \A o \in ends : o \in Nat
    BY <1>0
<1> HIDE DEF ends
<1>4. ends # {} => ~(Least(ends) + Num(n) <= Len(d))
    BY <1>0, <1>1, <1>2, <1>3
<1> QED
    BY <1>4 DEF FindLongName, ends, Num

\* A name without a file is not found by a short name, by NamesApart.
LEMMA FindsNoShortName ==
    ASSUME NamesApart, NEW d, NEW place, NEW full, Laid(d, place, full),
           NEW n \in Names, place[n] = 0
    PROVE  FindShortName(n, d) = NONE
<1> DEFINE ends == {o \in DOMAIN d : IsFree(d[o]) \/ (d[o].type = "short" /\ ShortName(d[o].name) = n)}
<1>0. Len(d) \in Nat /\ DOMAIN d = 1 .. Len(d)
    BY SeqFacts DEF Laid
<1>1. ends # {} => Least(ends) \in ends /\ \A f \in ends : Least(ends) <= f
    <2>1. ends \in SUBSET Nat
        BY <1>0
    <2> HIDE DEF ends
    <2> QED
        BY <2>1, LeastIn
<1>2. \A o \in ends : IsFree(d[o]) \/ \E f \in 1 .. o - 1 : IsFree(d[f])
    <2> SUFFICES ASSUME NEW o \in 1 .. Len(d), ~IsFree(d[o]), d[o].type = "short",
                        ShortName(d[o].name) = n
                 PROVE  \E f \in 1 .. o - 1 : IsFree(d[f])
        BY <1>0
    <2>1. LastOK(d, place, full, o)
        BY DEF Laid
    <2>2. ASSUME NEW m \in Names, place[m] # 0, o = place[m] + Num(m) PROVE FALSE
        <3>1. d[o].name = ShortOf[m]
            BY <2>2 DEF Laid, Group, ShortOK
        <3>2. ShortOf[m] = GenerateShortName(m)
            BY DEF ShortOf
        <3>3. m # n
            BY <2>2
        <3>4. ShortName(GenerateShortName(m)) # n
            BY <3>3 DEF NamesApart
        <3> QED
            BY <3>1, <3>2, <3>4
    <2> QED
        BY <2>1, <2>2 DEF LastOK
<1>3. ends # {} => IsFree(d[Least(ends)])
    <2> SUFFICES ASSUME ends # {}, ~IsFree(d[Least(ends)]) PROVE FALSE
        OBVIOUS
    <2>1. PICK o \in ends : o = Least(ends) /\ \A f \in ends : o <= f
        BY <1>1
    <2>2. o \in 1 .. Len(d)
        BY <1>0
    <2>3. PICK f \in 1 .. o - 1 : IsFree(d[f])
        BY <1>2, <2>1
    <2>4. f \in ends
        BY <1>0, <2>2, <2>3
    <2>5. o <= f
        BY <2>1, <2>4
    <2> QED
        BY <1>0, <2>2, <2>5
<1> HIDE DEF ends
<1> QED
    BY <1>3 DEF FindShortName, ends

\* A search finds what is there.
Where(place, n) ==
    IF place[n] = 0 THEN NONE ELSE VFile(place[n] + Num(n), place[n], Num(n))

\* A search finds the place of the name, or nothing.
LEMMA FindsByName ==
    ASSUME NamesApart, NEW d, NEW place, NEW full, Laid(d, place, full), NEW n \in Names
    PROVE  /\ FindByName(n, d) = Where(place, n)
           /\ place[n] # 0 => FindByName(n, d) # NONE
<1>1. CASE place[n] # 0
    <2>1. FindLongName(n, d) = VFile(place[n] + Num(n), place[n], Num(n))
        BY <1>1, FindsLongName
    <2>2. VFile(place[n] + Num(n), place[n], Num(n)) # NONE
        <3>a. Num(n) \in Nat
            BY PiecesAre
        <3>b. place[n] \in Nat
            BY DEF Laid
        <3>1. place[n] \in Nat /\ Num(n) \in Nat /\ place[n] + Num(n) \in Nat
            BY <3>a, <3>b
        <3>2. VFile(place[n] + Num(n), place[n], Num(n)) \in [short : Nat, long : Nat, num : Nat]
            BY <3>1 DEF VFile
        <3> QED
            BY <3>2, NoneAssumption
    <2> QED
        BY <1>1, <2>1, <2>2 DEF FindByName, Where
<1>2. CASE place[n] = 0
    <2>1. FindLongName(n, d) = NONE /\ FindShortName(n, d) = NONE
        BY <1>2, FindsNoLongName, FindsNoShortName
    <2> QED
        BY <1>2, <2>1 DEF FindByName, Where
<1> QED
    BY <1>1, <1>2

\* The entry .. of another system is found where it is.
LEMMA FindsDotDot ==
    ASSUME NamesApart, NEW d, NEW place, NEW full, Laid(d, place, full),
           \A i \in 1 .. 2 : d[i] = ForeignDots[i]
    PROVE  FindByName(DotDot, d) = VFile(2, 0, 0)
<1> DEFINE ends == {o \in DOMAIN d :
                       IsFree(d[o]) \/ (d[o].type = "short" /\ ShortName(d[o].name) = DotDot)}
<1>0. Len(d) \in Nat /\ DOMAIN d = 1 .. Len(d) /\ 2 <= Len(d)
    BY SeqFacts DEF Laid
<1>1. FindLongName(DotDot, d) = NONE
    BY FindsNoLongName DEF NamesApart
<1>2. ForeignDots[1] = Short([base |-> <<Dot>>, ext |-> <<>>], "dir", NONE)
    BY DEF ForeignDots
<1>3. ForeignDots[2] = Short([base |-> DotDot, ext |-> <<>>], "dir", NONE)
    BY DEF ForeignDots
<1>4. /\ d[1].type = "short" /\ d[1].del = FALSE
      /\ d[1].name.base = <<Dot>> /\ d[1].name.ext = <<>>
    BY <1>2 DEF Short
<1>5. /\ d[2].type = "short" /\ d[2].del = FALSE
      /\ d[2].name.base = DotDot /\ d[2].name.ext = <<>>
    BY <1>3 DEF Short
<1>6. ShortName(d[1].name) # DotDot
    <2>1. <<Dot>> \in Seq({Dot})
        OBVIOUS
    <2>2. <<Dot>> \o <<>> = <<Dot>>
        BY <2>1, ConcatEmptySeq
    <2>3. ShortName(d[1].name) = <<Dot>>
        BY <1>4, <2>2 DEF ShortName
    <2>4. Len(<<Dot>>) = 1 /\ Len(DotDot) = 2
        BY DEF DotDot
    <2> QED
        BY <2>3, <2>4
<1>7. ShortName(d[2].name) = DotDot
    <2>1. DotDot \in Seq({Dot})
        BY DEF DotDot
    <2>2. DotDot \o <<>> = DotDot
        BY <2>1, ConcatEmptySeq
    <2> QED
        BY <1>5, <2>2 DEF ShortName
<1>8. ~IsFree(d[1]) /\ ~IsFree(d[2])
    BY <1>4, <1>5 DEF IsFree
<1>9. 2 \in ends /\ \A y \in ends : y \in Int /\ 2 <= y
    <2>1. 2 \in ends
        BY <1>0, <1>5, <1>7
    <2>2. 1 \notin ends
        BY <1>6, <1>8
    <2>3. ends \subseteq 1 .. Len(d)
        BY <1>0
    <2> HIDE DEF ends
    <2> QED
        BY <2>1, <2>2, <2>3
<1> HIDE DEF ends
<1>10. Least(ends) = 2
    BY <1>9, LeastIs
<1>11. FindShortName(DotDot, d) = VFile(2, 0, 0)
    BY <1>8, <1>9, <1>10 DEF FindShortName, ends
<1> QED
    BY <1>1, <1>11 DEF FindByName

-----------------------------------------------------------------------------
(* Space for entries.                                                      *)

\* From FirstFit on as many entries as needed are free or behind the end.
LEMMA FirstFits ==
    ASSUME NEW d, IsSeq(d), NEW num \in Nat
    PROVE  /\ FirstFit(num, d) \in 1 .. Len(d) + 1
           /\ \A i \in FirstFit(num, d) .. FirstFit(num, d) + num - 1 :
                  i <= Len(d) => IsFree(d[i])
<1> DEFINE S == {o \in 1 .. Len(d) + 1 :
                    \A i \in o .. o + num - 1 : i <= Len(d) => IsFree(d[i])}
<1>1. Len(d) \in Nat
    BY SeqFacts
<1>2. Len(d) + 1 \in S
    BY <1>1
<1>3. S \in SUBSET Nat
    BY <1>1
<1>4. Least(S) \in S
    <2> HIDE DEF S
    <2> QED
        BY <1>2, <1>3, LeastIn
<1>5. FirstFit(num, d) = Least(S)
    BY DEF FirstFit
<1> QED
    BY <1>4, <1>5

\* Whole clusters leave no remainder.
LEMMA WholeIsWhole ==
    ASSUME NEW len, Whole(len)
    PROVE  len % SlotsPerCluster = 0
<1> DEFINE S == SlotsPerCluster
<1>1. S \in Nat \ {0}
    BY SlotsAssumption
<1>2. PICK q \in Nat : len = q * S
    BY DEF Whole
<1>3. len \in Nat
    BY <1>1, <1>2
<1>4. PICK c \in Nat, r \in Nat : c = len \div S /\ r = len % S
    <2>1. len \div S \in Nat /\ len % S \in 0 .. S - 1
        BY <1>1, <1>3, Division
    <2>2. len % S \in Nat
        BY <1>1, <2>1
    <2> QED
        BY <2>1, <2>2
<1>5. r \in 0 .. S - 1 /\ q * S = S * c + r
    BY <1>1, <1>2, <1>3, <1>4, Division
<1>6. PICK x \in Int : x = q - c
    OBVIOUS
<1>7. S * x = r
    BY <1>1, <1>5, <1>6
<1>8. x <= 0 => S * x <= 0
    BY <1>1
<1>9. x >= 1 => S * x >= S
    BY <1>1
<1>10. r = 0
    BY <1>1, <1>5, <1>6, <1>7, <1>8, <1>9
<1> QED
    BY <1>4, <1>10

\* A directory that grows keeps whole clusters.
LEMMA WholeGrows ==
    ASSUME NEW len, Whole(len), NEW n \in Nat
    PROVE  n * SlotsPerCluster \in Nat /\ Whole(len + n * SlotsPerCluster)
<1>1. SlotsPerCluster \in Nat
    BY SlotsAssumption
<1>2. PICK q \in Nat : len = q * SlotsPerCluster
    BY DEF Whole
<1>3. q + n \in Nat /\ len + n * SlotsPerCluster = (q + n) * SlotsPerCluster
    BY <1>1, <1>2
<1>4. n * SlotsPerCluster \in Nat
    BY <1>1
<1> QED
    BY <1>3, <1>4 DEF Whole

\* A cluster has more than two entries.
LEMMA GrowsByMore ==
    ASSUME NEW n \in Nat, n # 0
    PROVE  n * SlotsPerCluster > 2
<1>1. PICK s \in Nat : s = SlotsPerCluster /\ s > 2
    BY SlotsAssumption
<1>2. PICK k \in Nat : n = k + 1
    <2>1. n - 1 \in Nat /\ n = (n - 1) + 1
        OBVIOUS
    <2> QED
        BY <2>1
<1>3. k * s \in Nat /\ n * s = k * s + s
    BY <1>1, <1>2
<1> QED
    BY <1>1, <1>3

\* What FSInfo may say, and where no cluster can be had: there is none, or FSInfo
\* says so or does not know.
Known(k) == k = NONE \/ k \in 0 .. U32Max
NoneLeft(avail, known) == avail = 0 \/ known \in {NONE, 0}

\* The count of FSInfo stays in its range, and wraps around there.
LEMMA CountsAre ==
    ASSUME NEW k, Known(k)
    PROVE  Known(OneLess(k)) /\ Known(OneMore(k)) /\ Fewer(k, 0) = k
<1>1. CASE k = NONE
    BY <1>1 DEF Known, OneLess, OneMore, Fewer
<1>2. CASE k # NONE
    <2>1. U32Max \in Nat /\ k \in 0 .. U32Max
        BY <1>2, CountAssumption DEF Known
    <2>2. Fewer(k, 0) = k
        BY <1>2, <2>1 DEF Fewer
    <2>3. OneLess(k) \in 0 .. U32Max
        BY <1>2, <2>1 DEF OneLess
    <2>4. OneMore(k) \in 0 .. U32Max
        BY <1>2, <2>1 DEF OneMore
    <2> QED
        BY <2>2, <2>3, <2>4 DEF Known
<1> QED
    BY <1>1, <1>2

\* adjust_capacity adds what there is and what FSInfo allows at most, and something
\* when one entry is missing.
LEMMA AddedIs ==
    ASSUME NEW size \in Nat, NEW capacity \in Nat, NEW avail \in Nat, NEW known, Known(known)
    PROVE  /\ Added(size, capacity, avail, known) \in 0 .. avail
           /\ Known(Fewer(known, Added(size, capacity, avail, known)))
           /\ size = capacity + 1 /\ ~NoneLeft(avail, known)
                  => Added(size, capacity, avail, known) # 0
<1> DEFINE S == SlotsPerCluster
           num == (size + S - capacity) \div S
<1>1. Added(size, capacity, avail, known) =
          IF known = NONE \/ num \notin 1 .. known THEN 0 ELSE IF num <= avail THEN num ELSE avail
    BY DEF Added
<1>2. ASSUME size = capacity + 1 PROVE num = 1
    <2>1. S \in Nat /\ S > 2
        BY SlotsAssumption
    <2>2. size + S - capacity = S + 1
        BY <1>2, <2>1
    <2>3. PICK q \in Nat, r \in Nat : q = (S + 1) \div S /\ r = (S + 1) % S
        <3>1. S \in Nat \ {0} /\ S + 1 \in Nat
            BY <2>1
        <3>2. (S + 1) \div S \in Nat /\ (S + 1) % S \in 0 .. S - 1
            BY <3>1, Division
        <3>3. (S + 1) % S \in Nat
            BY <2>1, <3>2
        <3> QED
            BY <3>2, <3>3
    <2>4. S + 1 = S * q + r /\ r < S
        <3>1. S \in Nat \ {0} /\ S + 1 \in Nat
            BY <2>1
        <3>2. (S + 1) % S \in 0 .. S - 1 /\ S + 1 = S * ((S + 1) \div S) + ((S + 1) % S)
            BY <3>1, Division
        <3> QED
            BY <2>3, <3>1, <3>2
    <2>5. q = 0 => S * q = 0
        BY <2>1
    <2>6. q >= 2 => S * q >= S * 2
        BY <2>1
    <2>7. q = 1
        BY <2>1, <2>3, <2>4, <2>5, <2>6
    <2> QED
        BY <2>2, <2>3, <2>7
<1> HIDE DEF num
<1>3. CASE known = NONE
    <2>1. Added(size, capacity, avail, known) = 0
        BY <1>1, <1>3
    <2> QED
        BY <1>3, <2>1 DEF Known, Fewer, NoneLeft
<1>4. CASE known # NONE
    <2>1. U32Max \in Nat /\ known \in 0 .. U32Max
        BY <1>4, CountAssumption DEF Known
    <2>2. PICK a : a = Added(size, capacity, avail, known)
        OBVIOUS
    <2>3. a = IF num \notin 1 .. known THEN 0 ELSE IF num <= avail THEN num ELSE avail
        BY <1>1, <1>4, <2>2
    <2>4. a \in 0 .. avail /\ a <= known /\ a \in Nat
        BY <2>1, <2>3
    <2>5. Fewer(known, a) \in 0 .. U32Max
        BY <1>4, <2>1, <2>4 DEF Fewer
    <2>6. size = capacity + 1 /\ avail # 0 /\ known # 0 => a # 0
        BY <1>2, <2>1, <2>3
    <2> QED
        BY <2>2, <2>4, <2>5, <2>6 DEF Known, NoneLeft
<1> QED
    BY <1>3, <1>4

\* A longer directory has empty entries behind the old ones.
LEMMA ExtendedIs ==
    ASSUME NEW d, IsSeq(d), NEW n \in Nat, NEW m \in Nat, m = n * SlotsPerCluster
    PROVE  LET u == Extended(d, n) IN
           /\ IsSeq(u) /\ Len(u) = Len(d) + m
           /\ \A i \in 1 .. Len(u) : u[i] = IF i <= Len(d) THEN d[i] ELSE Empty
<1>1. PICK e : e = Empty
    OBVIOUS
<1>2. PICK t : t = [i \in 1 .. m |-> e]
    OBVIOUS
<1>5. IsSeq(t) /\ Len(t) = m /\ \A i \in 1 .. m : t[i] = e
    <2>1. t \in [1 .. m -> {e}]
        BY <1>2
    <2> QED
        BY <1>2, <2>1, FunctionIsSeq
<1>3. /\ IsSeq(d \o t) /\ Len(d \o t) = Len(d) + Len(t)
      /\ \A i \in 1 .. Len(d \o t) : (d \o t)[i] = IF i <= Len(d) THEN d[i] ELSE e
    <2>1. IsSeq(d) /\ IsSeq(t) /\ \A i \in 1 .. Len(t) : t[i] = e
        BY <1>5
    <2>2. IsSeq(d \o t)
        BY <2>1, Longer
    <2>3. Len(d \o t) = Len(d) + Len(t)
        BY <2>1, Longer
    <2>4. \A i \in 1 .. Len(d \o t) : (d \o t)[i] = IF i <= Len(d) THEN d[i] ELSE e
        BY <2>1, Longer
    <2> QED
        BY <2>2, <2>3, <2>4
<1>4. Extended(d, n) = d \o t
    BY <1>1, <1>2 DEF Extended
<1> QED
    BY <1>1, <1>3, <1>4, <1>5

\* u is d with the first w entries of p written from at on, and maybe longer.
Written(d, at, p, w, u) ==
    /\ IsSeq(u) /\ Len(d) <= Len(u) /\ Whole(Len(u)) /\ at + w <= Len(u) + 1
    /\ \A i \in 1 .. Len(u) :
           u[i] = IF at <= i /\ i < at + w THEN p[i - at + 1]
                  ELSE IF i <= Len(d) THEN d[i] ELSE Empty

\* st after k entries of p: all are written, or some and the space ran out.
AfterWrites(st, d, at, avail, p, k, w) ==
    /\ Written(d, at, p, w, st.d)
    /\ st.avail \in 0 .. avail /\ Known(st.known)
    /\ st.ok \in BOOLEAN
    /\ st.ok => w = k /\ st.at = at + k
    /\ ~st.ok => w < k /\ NoneLeft(st.avail, st.known) /\ at + w = Len(st.d) + 1

\* One more entry written: the entries written so far stay.
LEMMA WritesOne ==
    ASSUME NEW d, IsSeq(d), NEW at \in 1 .. Len(d) + 1, NEW avail \in Nat,
           NEW p, NEW k \in Nat, NEW st, NEW w \in 0 .. k,
           AfterWrites(st, d, at, avail, p, k, w)
    PROVE  \E v \in 0 .. k + 1 :
               AfterWrites(WriteEntry(st, p[k + 1]), d, at, avail, p, k + 1, v)
<1>0. IsSeq(st.d) /\ Whole(Len(st.d)) /\ Len(st.d) \in Nat /\ Len(d) \in Nat
      /\ at \in Nat /\ st.avail \in Nat /\ Known(st.known)
    <2>1. IsSeq(st.d) /\ Whole(Len(st.d))
        BY DEF AfterWrites, Written
    <2>2. Len(st.d) \in Nat /\ Len(d) \in Nat
        BY <2>1, SeqFacts
    <2>3. st.avail \in Nat /\ at \in Nat /\ Known(st.known)
        BY <2>2 DEF AfterWrites
    <2> QED
        BY <2>1, <2>2, <2>3
<1>1. CASE ~st.ok
    <2>1. WriteEntry(st, p[k + 1]) = st
        BY <1>1 DEF WriteEntry
    <2>2. w < k + 1 /\ w \in 0 .. k + 1
        OBVIOUS
    <2>3. AfterWrites(st, d, at, avail, p, k + 1, w)
        BY <1>1, <2>2 DEF AfterWrites
    <2> QED
        BY <2>1, <2>2, <2>3
<1>2. CASE st.ok
    <2>1. w = k /\ st.at = at + k
        BY <1>2 DEF AfterWrites
    <2> DEFINE num == Added(st.at, Len(st.d), st.avail, st.known)
               u == Extended(st.d, num)
               e == p[k + 1]
    <2>2. /\ WriteEntry(st, e).d = Put(u, st.at, e) /\ WriteEntry(st, e).at = st.at + 1
          /\ WriteEntry(st, e).avail = st.avail - num
          /\ WriteEntry(st, e).known = Fewer(st.known, num)
          /\ WriteEntry(st, e).ok = (st.at <= Len(u))
        BY <1>2 DEF WriteEntry
    <2>3. /\ num \in 0 .. st.avail /\ Known(Fewer(st.known, num))
          /\ st.at = Len(st.d) + 1 /\ ~NoneLeft(st.avail, st.known) => num # 0
        <3>a. st.at \in Nat
            BY <1>0, <2>1
        <3>1. PICK a \in Nat, s \in Nat, l \in Nat :
                  a = st.avail /\ s = st.at /\ l = Len(st.d)
            BY <1>0, <3>a
        <3>2. PICK k2 : k2 = st.known /\ Known(k2)
            BY <1>0
        <3>3. /\ Added(s, l, a, k2) \in 0 .. a /\ Known(Fewer(k2, Added(s, l, a, k2)))
              /\ s = l + 1 /\ ~NoneLeft(a, k2) => Added(s, l, a, k2) # 0
            BY <3>2, AddedIs
        <3> QED
            BY <3>1, <3>2, <3>3
    <2>4. PICK m \in Nat : m = num * SlotsPerCluster
        BY <1>0, <2>3, WholeGrows, SMTT(60)
    <2>5. /\ IsSeq(u) /\ Len(u) = Len(st.d) + m /\ Whole(Len(u))
          /\ \A i \in 1 .. Len(u) : u[i] = IF i <= Len(st.d) THEN st.d[i] ELSE Empty
        <3>1. PICK s : s = st.d
            OBVIOUS
        <3>2. LET v == Extended(s, num) IN
              /\ IsSeq(v) /\ Len(v) = Len(s) + m
              /\ \A i \in 1 .. Len(v) : v[i] = IF i <= Len(s) THEN s[i] ELSE Empty
            <4>1. IsSeq(s)
                BY <1>0, <3>1
            <4>2. PICK n \in Nat : n = num
                BY <1>0, <2>3
            <4>3. m = n * SlotsPerCluster
                BY <2>4, <4>2
            <4>4. LET v == Extended(s, n) IN
                  /\ IsSeq(v) /\ Len(v) = Len(s) + m
                  /\ \A i \in 1 .. Len(v) : v[i] = IF i <= Len(s) THEN s[i] ELSE Empty
                BY <4>1, <4>3, ExtendedIs
            <4> QED
                BY <4>2, <4>4
        <3>3. Whole(Len(st.d) + m)
            BY <1>0, <2>3, <2>4, WholeGrows
        <3> QED
            BY <3>1, <3>2, <3>3
    <2>6. num # 0 => m > 2
        <3>1. num \in Nat
            BY <1>0, <2>3
        <3> QED
            BY <2>4, <3>1, GrowsByMore
    <2> HIDE DEF num, u, e
    <2>7. at + k <= Len(st.d) + 1 /\ Len(d) <= Len(st.d)
        BY <2>1 DEF AfterWrites, Written
    <2>8. CASE st.at <= Len(u)
        <3> DEFINE x == [u EXCEPT ![st.at] = e]
        <3>1. WriteEntry(st, e).d = x /\ WriteEntry(st, e).ok = TRUE
            BY <2>2, <2>8 DEF Put
        <3>2. st.at \in 1 .. Len(u)
            BY <1>0, <2>1, <2>5, <2>8
        <3>3. /\ IsSeq(x) /\ Len(x) = Len(u)
              /\ \A i \in 1 .. Len(u) : x[i] = IF i = st.at THEN e ELSE u[i]
            <4>1. PICK o \in 1 .. Len(u) : o = st.at
                BY <3>2
            <4>a. PICK v : v = u
                OBVIOUS
            <4>2. IsSeq(v) /\ o \in 1 .. Len(v) /\ v = u
                BY <2>5, <4>1, <4>a
            <4>3. PICK y : y = [v EXCEPT ![o] = e]
                OBVIOUS
            <4>4. IsUpdate(v, o, e, y)
                BY <4>2, <4>3, Updated
            <4> QED
                BY <4>1, <4>2, <4>3, <4>4 DEF IsUpdate
        <3> HIDE DEF x
        <3>4. Written(d, at, p, k + 1, x)
            <4>1. Len(d) <= Len(x) /\ Whole(Len(x)) /\ at + (k + 1) <= Len(x) + 1
                BY <1>0, <2>1, <2>5, <2>7, <2>8, <3>3
            <4>2. ASSUME NEW i \in 1 .. Len(x)
                  PROVE  x[i] = IF at <= i /\ i < at + (k + 1) THEN p[i - at + 1]
                                ELSE IF i <= Len(d) THEN d[i] ELSE Empty
                <5>1. i \in 1 .. Len(u) /\ i \in Int
                    BY <3>3
                <5>2. CASE i = st.at
                    <6>1. x[i] = e
                        BY <3>3, <5>1, <5>2
                    <6>2. at <= i /\ i < at + (k + 1) /\ i - at + 1 = k + 1
                        BY <1>0, <2>1, <5>2
                    <6> QED
                        BY <6>1, <6>2 DEF e
                <5>3. CASE i # st.at
                    <6>1. x[i] = IF i <= Len(st.d) THEN st.d[i] ELSE Empty
                        BY <2>5, <3>3, <5>1, <5>3
                    <6>2. (at <= i /\ i < at + (k + 1)) <=> (at <= i /\ i < at + k)
                        BY <1>0, <2>1, <5>1, <5>3
                    <6>3. CASE i <= Len(st.d)
                        <7>1. i \in 1 .. Len(st.d)
                            BY <1>0, <5>1, <6>3
                        <7>2. st.d[i] = IF at <= i /\ i < at + k THEN p[i - at + 1]
                                        ELSE IF i <= Len(d) THEN d[i] ELSE Empty
                            BY <2>1, <7>1 DEF AfterWrites, Written
                        <7> QED
                            BY <6>1, <6>2, <6>3, <7>2
                    <6>4. CASE ~(i <= Len(st.d))
                        <7>1. ~(i < at + k) /\ ~(i <= Len(d))
                            BY <1>0, <2>7, <5>1, <6>4
                        <7> QED
                            BY <6>1, <6>2, <6>4, <7>1
                    <6> QED
                        BY <6>3, <6>4
                <5> QED
                    BY <5>2, <5>3
            <4> QED
                BY <3>3, <4>1, <4>2 DEF Written
        <3>5. WriteEntry(st, e).avail \in 0 .. avail /\ Known(WriteEntry(st, e).known)
            BY <1>0, <2>2, <2>3, SMTT(60) DEF AfterWrites
        <3>6. WriteEntry(st, e).at = at + (k + 1)
            BY <1>0, <2>1, <2>2
        <3>7. AfterWrites(WriteEntry(st, e), d, at, avail, p, k + 1, k + 1)
            BY <3>1, <3>4, <3>5, <3>6 DEF AfterWrites
        <3>8. k + 1 \in 0 .. k + 1
            OBVIOUS
        <3> QED
            BY <3>7, <3>8 DEF e
    <2>9. CASE ~(st.at <= Len(u))
        <3>1. m = 0 /\ st.at = Len(st.d) + 1
            BY <1>0, <2>1, <2>5, <2>7, <2>9
        <3>2. num = 0 /\ NoneLeft(st.avail, st.known)
            BY <2>3, <2>6, <3>1
        <3>c. Fewer(st.known, num) = st.known
            BY <1>0, <3>2, CountsAre
        <3>a. WriteEntry(st, e).d = u
            BY <2>2, <2>9 DEF Put
        <3>b. (st.at <= Len(u)) = FALSE
            BY <2>9
        <3>3. WriteEntry(st, e).d = u /\ WriteEntry(st, e).ok = FALSE
            BY <2>2, <3>a, <3>b
        <3>4. Len(u) = Len(st.d) /\ \A i \in 1 .. Len(u) : u[i] = st.d[i]
            BY <1>0, <2>5, <3>1
        <3>5. Written(d, at, p, k, u)
            <4>1. Written(d, at, p, k, st.d)
                BY <2>1 DEF AfterWrites
            <4> QED
                BY <2>5, <3>4, <4>1 DEF Written
        <3>6. /\ WriteEntry(st, e).avail = st.avail /\ WriteEntry(st, e).known = st.known
              /\ st.avail \in 0 .. avail
            BY <1>0, <2>2, <3>2, <3>c DEF AfterWrites
        <3>7. k < k + 1 /\ k \in 0 .. k + 1 /\ at + k = Len(u) + 1
            BY <2>1, <3>1, <3>4
        <3>8. AfterWrites(WriteEntry(st, e), d, at, avail, p, k + 1, k)
            BY <1>0, <3>2, <3>3, <3>5, <3>6, <3>7 DEF AfterWrites
        <3> QED
            BY <3>7, <3>8 DEF e
    <2> QED
        BY <2>8, <2>9
<1>3. st.ok \in BOOLEAN
    BY DEF AfterWrites
<1> QED
    BY <1>1, <1>2, <1>3

\* All entries of a file are written, or all up to the end of the space.
LEMMA WritesAll ==
    ASSUME NEW d, IsSeq(d), NEW at \in 1 .. Len(d) + 1, NEW avail \in Nat,
           NEW known, Known(known), Whole(Len(d)), NEW p, NEW N \in Nat, DOMAIN p = 1 .. N
    PROVE  LET b == [d |-> d, at |-> at, avail |-> avail, known |-> known, ok |-> TRUE] IN
           \E w \in 0 .. N : AfterWrites(WriteEntries(b, p), d, at, avail, p, N, w)
<1> DEFINE b == [d |-> d, at |-> at, avail |-> avail, known |-> known, ok |-> TRUE]
<1>1. PICK j : /\ j[0] = b
               /\ \A k \in 0 .. N - 1 : j[k + 1] = WriteEntry(j[k], p[k + 1])
               /\ WriteEntries(b, p) = j[N]
    <2>1. PICK c : c = b
        OBVIOUS
    <2> HIDE DEF b
    <2>2. \E j : IsWriting(j, c, p, N)
        BY WriteSteps
    <2> QED
        BY <2>1, <2>2 DEF IsWriting
<1> DEFINE K == {k \in 0 .. N : \E w \in 0 .. k : AfterWrites(j[k], d, at, avail, p, k, w)}
<1>2. 0 \in K
    <2>1. b.d = d /\ b.at = at /\ b.avail = avail /\ b.known = known /\ b.ok = TRUE
        OBVIOUS
    <2>2. Len(d) \in Nat /\ at \in Nat
        BY SeqFacts
    <2>3. Written(d, at, p, 0, d)
        BY <2>2 DEF Written
    <2>4. AfterWrites(b, d, at, avail, p, 0, 0)
        BY <2>1, <2>2, <2>3 DEF AfterWrites
    <2>5. 0 \in 0 .. N /\ 0 \in 0 .. 0
        OBVIOUS
    <2> HIDE DEF b
    <2> QED
        BY <1>1, <2>4, <2>5
<1>3. \A k \in 0 .. N - 1 : k \in K => k + 1 \in K
    <2> SUFFICES ASSUME NEW k \in 0 .. N - 1, k \in K PROVE k + 1 \in K
        OBVIOUS
    <2>1. PICK w \in 0 .. k : AfterWrites(j[k], d, at, avail, p, k, w)
        OBVIOUS
    <2>2. k \in Nat /\ k + 1 \in 0 .. N
        OBVIOUS
    <2>3. \E v \in 0 .. k + 1 :
              AfterWrites(WriteEntry(j[k], p[k + 1]), d, at, avail, p, k + 1, v)
        BY <2>1, <2>2, WritesOne
    <2>4. j[k + 1] = WriteEntry(j[k], p[k + 1])
        BY <1>1
    <2> QED
        BY <2>2, <2>3, <2>4
<1>4. N \in K
    <2> HIDE DEF K
    <2>1. N \in 0 .. N
        OBVIOUS
    <2> QED
        BY <1>2, <1>3, <2>1, UpTo
<1> QED
    BY <1>1, <1>4

\* What create writes is one long entry for each piece and a short one.
LEMMA EntriesAre ==
    ASSUME NamesApart, NEW n \in Names, NEW kind, NEW first
    PROVE  LET p == Entries(n, kind, first) IN
           /\ DOMAIN p = 1 .. Num(n) + 1
           /\ \A i \in 1 .. Num(n) : LongOK(p[i], n, i)
           /\ p[Num(n) + 1] = Short(ShortOf[n], kind, first)
<1> DEFINE l == [i \in 1 .. Num(n) |-> Long(Pieces[n][i], Num(n) + 1 - i, i = 1, ShortOf[n])]
           e == Short(ShortOf[n], kind, first)
           p == Entries(n, kind, first)
           S == {l[i] : i \in 1 .. Num(n)} \cup {e}
<1>1. Num(n) \in Nat \ {0}
    BY PiecesAre
<1>2. p = l \o <<e>>
    BY DEF Entries, Num
<1>3. \A i \in 1 .. Num(n) : LongOK(l[i], n, i)
    <2> TAKE i \in 1 .. Num(n)
    <2>1. l[i] = Long(Pieces[n][i], Num(n) + 1 - i, i = 1, ShortOf[n])
        OBVIOUS
    <2>2. /\ l[i].type = "long" /\ l[i].del = FALSE /\ l[i].text = Pieces[n][i]
          /\ l[i].order = Num(n) + 1 - i /\ l[i].sum = ShortOf[n]
        BY <2>1 DEF Long
    <2>3. l[i].last = (i = 1)
        BY <2>1 DEF Long
    <2>4. l[i].last \in BOOLEAN /\ (l[i].last = TRUE <=> i = 1)
        BY <2>3
    <2>5. HasFields(l[i], LongFields)
        <3>1. PICK x : x = l[i]
            OBVIOUS
        <3>2. x = [f \in LongFields |-> x[f]]
            BY <2>1, <3>1 DEF Long, LongFields
        <3> QED
            BY <3>1, <3>2 DEF HasFields
    <2> QED
        BY <2>2, <2>4, <2>5 DEF LongOK
<1>4. l \in [1 .. Num(n) -> S]
    OBVIOUS
<1> HIDE DEF l, e, p, S
<1>5. l \in Seq(S) /\ Len(l) = Num(n)
    BY <1>1, <1>4, FunctionIsSeq
<1>6. <<e>> \in Seq(S) /\ Len(<<e>>) = 1 /\ <<e>>[1] = e
    BY DEF S
<1>7. /\ Len(p) = Num(n) + 1 /\ p \in Seq(S)
      /\ \A i \in 1 .. Len(l) + Len(<<e>>) :
             p[i] = IF i <= Len(l) THEN l[i] ELSE <<e>>[i - Len(l)]
    <2>1. PICK f : f = <<e>>
        OBVIOUS
    <2>2. f \in Seq(S) /\ l \in Seq(S)
        BY <1>5, <1>6, <2>1
    <2>3. l \o f \in Seq(S) /\ Len(l \o f) = Len(l) + Len(f)
        BY <2>2, ConcatProperties
    <2>4. \A i \in 1 .. Len(l) + Len(f) : (l \o f)[i] = IF i <= Len(l) THEN l[i] ELSE f[i - Len(l)]
        BY <2>2, ConcatProperties
    <2> QED
        BY <1>2, <1>5, <1>6, <2>1, <2>3, <2>4
<1>8. DOMAIN p = 1 .. Num(n) + 1
    <2>1. p \in [1 .. Len(p) -> S]
        BY <1>7, LenProperties
    <2> QED
        BY <1>7, <2>1
<1>9. \A i \in 1 .. Num(n) : p[i] = l[i]
    BY <1>1, <1>5, <1>6, <1>7
<1>10. p[Num(n) + 1] = e
    <2>1. Num(n) + 1 \in 1 .. Len(l) + Len(<<e>>) /\ ~(Num(n) + 1 <= Len(l))
          /\ Num(n) + 1 - Len(l) = 1
        BY <1>1, <1>5, <1>6
    <2> QED
        BY <1>6, <1>7, <2>1
<1>11. \A i \in 1 .. Num(n) : LongOK(p[i], n, i)
    BY <1>3, <1>9
<1> QED
    BY <1>8, <1>10, <1>11 DEF p, e

Room(d, at, num) == \A i \in at .. at + num : i <= Len(d) => IsFree(d[i])

\* Live entries of d are in u; and an entry of u is written, old or new.
Kept(d, u) == \A i \in 1 .. Len(d) : ~IsFree(d[i]) => i \in 1 .. Len(u) /\ u[i] = d[i]

ComesFrom(d, at, p, w, u) ==
    \A i \in 1 .. Len(u) :
        \/ i - at + 1 \in 1 .. w /\ u[i] = p[i - at + 1]
        \/ i \in 1 .. Len(d) /\ u[i] = d[i]
        \/ u[i] = Empty

\* What is written over free entries leaves the others as they were.
LEMMA OthersStay ==
    ASSUME NEW d, IsSeq(d), NEW at \in Nat \ {0}, NEW num \in Nat, NEW p,
           NEW w \in 0 .. num + 1, NEW u, Written(d, at, p, w, u), Room(d, at, num)
    PROVE  Kept(d, u) /\ ComesFrom(d, at, p, w, u)
<1>1. Len(d) \in Nat /\ Len(u) \in Nat /\ Len(d) <= Len(u)
    BY SeqFacts DEF Written
<1>2. ASSUME NEW i \in 1 .. Len(d), ~IsFree(d[i])
      PROVE  i \in 1 .. Len(u) /\ u[i] = d[i]
    <2>1. i \in 1 .. Len(u)
        BY <1>1
    <2>2. ~(at <= i /\ i < at + w)
        <3> SUFFICES ASSUME at <= i, i < at + w PROVE FALSE
            OBVIOUS
        <3>1. i \in at .. at + num /\ i <= Len(d)
            BY <1>1
        <3> QED
            BY <1>2, <3>1 DEF Room
    <2>3. u[i] = IF i <= Len(d) THEN d[i] ELSE Empty
        BY <2>1, <2>2 DEF Written
    <2>4. i <= Len(d)
        BY <1>1
    <2> QED
        BY <2>1, <2>3, <2>4
<1>3. ASSUME NEW i \in 1 .. Len(u)
      PROVE  \/ i - at + 1 \in 1 .. w /\ u[i] = p[i - at + 1]
             \/ i \in 1 .. Len(d) /\ u[i] = d[i]
             \/ u[i] = Empty
    <2>1. u[i] = IF at <= i /\ i < at + w THEN p[i - at + 1]
                 ELSE IF i <= Len(d) THEN d[i] ELSE Empty
        BY DEF Written
    <2>2. at <= i /\ i < at + w => i - at + 1 \in 1 .. w
        BY <1>1
    <2>3. i <= Len(d) => i \in 1 .. Len(d)
        BY <1>1
    <2> QED
        BY <2>1, <2>2, <2>3
<1> QED
    BY <1>2, <1>3 DEF Kept, ComesFrom

\* The entries of a file are in the directory and not free.
LEMMA GroupIsLive ==
    ASSUME NamesApart, NEW d, IsSeq(d), NEW n \in Names, NEW o \in Nat \ {0}, Group(d, n, o)
    PROVE  \A i \in o .. o + Num(n) : i \in 1 .. Len(d) /\ ~IsFree(d[i])
<1>1. Num(n) \in Nat \ {0} /\ Len(d) \in Nat
    BY PiecesAre, SeqFacts
<1> TAKE i \in o .. o + Num(n)
<1>2. i \in 1 .. Len(d)
    BY <1>1 DEF Group
<1>3. CASE i = o + Num(n)
    BY <1>2, <1>3 DEF Group, ShortOK, IsFree
<1>4. CASE i # o + Num(n)
    <2>1. PICK k \in 1 .. Num(n) : o + k - 1 = i
        <3>1. i - o + 1 \in 1 .. Num(n) /\ o + (i - o + 1) - 1 = i
            BY <1>1, <1>4
        <3> QED
            BY <3>1
    <2>2. LongOK(d[i], n, k)
        BY <2>1 DEF Group
    <2> QED
        BY <1>2, <2>2 DEF LongOK, IsFree
<1> QED
    BY <1>3, <1>4

\* A file whose entries are as they were is still there.
LEMMA GroupStays ==
    ASSUME NamesApart, NEW n \in Names, NEW o \in Nat \ {0}, NEW d, NEW u,
           Group(d, n, o), o + Num(n) <= Len(u),
           \A i \in o .. o + Num(n) : u[i] = d[i]
    PROVE  Group(u, n, o)
<1>1. Num(n) \in Nat \ {0}
    BY PiecesAre
<1>2. \A k \in 1 .. Num(n) : o + k - 1 \in o .. o + Num(n)
    BY <1>1
<1>3. o + Num(n) \in o .. o + Num(n)
    BY <1>1
<1> QED
    BY <1>2, <1>3 DEF Group

\* g is f, but for n.
Changed(f, n, e, g) == g = [f EXCEPT ![n] = e]

\* The first w entries of n are all of them, or there was no space for more.
Enough(n, at, w, u, full) == w = Num(n) + 1 \/ (full /\ at + w = Len(u) + 1)

Given(n, w, first) == w = Num(n) + 1 => first \in Clusters

Placed(place, n, at, w, new) ==
    new = IF w = Num(n) + 1 THEN [place EXCEPT ![n] = at] ELSE place

\* The files of d are in u.
Survive(d, place, u) ==
    \A m \in Names : place[m] # 0 => u[place[m] + Num(m)] = d[place[m] + Num(m)]

EndsWith(u, n, at, kind, first) == u[at + Num(n)] = Short(ShortOf[n], kind, first)

Made(n, at, kind, first, w, u) == w = Num(n) + 1 => EndsWith(u, n, at, kind, first)

\* create leaves the directory as it should be, and the files it did not make.
LEMMA CreateLays ==
    ASSUME NamesApart, NEW d, NEW place, Laid(d, place, FALSE),
           NEW n \in Names, place[n] = 0, NEW at \in Nat \ {0}, Room(d, at, Num(n)),
           NEW kind, <<n, kind>> \in Kinds, NEW first,
           NEW w \in 0 .. Num(n) + 1, Given(n, w, first),
           NEW u, Written(d, at, Entries(n, kind, first), w, u),
           NEW full, Enough(n, at, w, u, full), NEW new, Placed(place, n, at, w, new)
    PROVE  Laid(u, new, full) /\ Survive(d, place, u) /\ Made(n, at, kind, first, w, u)
<1> USE DEF Enough, Placed, Given
<1>0. PICK p : p = Entries(n, kind, first)
    OBVIOUS
<1>1. Num(n) \in Nat \ {0} /\ IsSeq(d) /\ IsSeq(u) /\ place \in [Names -> Nat]
      /\ Len(d) \in Nat /\ Len(u) \in Nat /\ Len(d) <= Len(u) /\ Whole(Len(u)) /\ 2 <= Len(d)
    <2>1. Num(n) \in Nat \ {0}
        BY PiecesAre
    <2>2. IsSeq(d) /\ place \in [Names -> Nat] /\ 2 <= Len(d)
        BY DEF Laid
    <2>3. IsSeq(u) /\ Len(d) <= Len(u) /\ Whole(Len(u))
        BY DEF Written
    <2>4. Len(d) \in Nat /\ Len(u) \in Nat
        BY <2>2, <2>3, SeqFacts
    <2> QED
        BY <2>1, <2>2, <2>3, <2>4
<1>2. /\ \A i \in 1 .. Num(n) : LongOK(p[i], n, i)
      /\ p[Num(n) + 1] = Short(ShortOf[n], kind, first)
    BY <1>0, EntriesAre
<1>3. /\ \A i \in 1 .. Len(d) : ~IsFree(d[i]) => i \in 1 .. Len(u) /\ u[i] = d[i]
      /\ \A i \in 1 .. Len(u) :
             \/ i - at + 1 \in 1 .. w /\ u[i] = p[i - at + 1]
             \/ i \in 1 .. Len(d) /\ u[i] = d[i]
             \/ u[i] = Empty
    <2>1. PICK num \in Nat : num = Num(n)
        BY <1>1
    <2>2. w \in 0 .. num + 1 /\ Room(d, at, num)
        BY <2>1
    <2>3. Written(d, at, p, w, u)
        BY <1>0
    <2>4. IsSeq(d)
        BY <1>1
    <2>5. Kept(d, u) /\ ComesFrom(d, at, p, w, u)
        BY <2>2, <2>3, <2>4, OthersStay
    <2> QED
        BY <2>5 DEF Kept, ComesFrom
<1>4. \A i \in 1 .. w : u[at + i - 1] = p[i] /\ at + i - 1 \in 1 .. Len(u)
    <2> TAKE i \in 1 .. w
    <2>1. at + i - 1 \in 1 .. Len(u)
        BY <1>1 DEF Written
    <2>2. at <= at + i - 1 /\ at + i - 1 < at + w /\ (at + i - 1) - at + 1 = i
        OBVIOUS
    <2>3. PICK x \in 1 .. Len(u) : x = at + i - 1
        BY <2>1
    <2>4. u[x] = p[x - at + 1]
        BY <1>0, <2>2, <2>3 DEF Written
    <2> QED
        BY <2>1, <2>2, <2>3, <2>4
<1>5. new \in [Names -> Nat] /\ \A m \in Names : m # n => new[m] = place[m]
    BY <1>1
<1>6. \A m \in Names : m # n \/ w # Num(n) + 1 => new[m] = place[m]
    BY <1>1
<1>7. w = Num(n) + 1 => new[n] = at
    BY <1>1
<1>8. ASSUME NEW m \in Names, place[m] # 0
      PROVE  Group(u, m, place[m]) /\ u[place[m] + Num(m)] = d[place[m] + Num(m)]
    <2>1. Num(m) \in Nat \ {0} /\ place[m] \in Nat \ {0}
        BY <1>1, <1>8, PiecesAre
    <2>2. Group(d, m, place[m])
        BY <1>8 DEF Laid
    <2>3. PICK o \in Nat \ {0} : o = place[m]
        BY <2>1
    <2>4. \A i \in o .. o + Num(m) : i \in 1 .. Len(d) /\ ~IsFree(d[i])
        BY <1>1, <2>2, <2>3, GroupIsLive
    <2>5. \A i \in o .. o + Num(m) : u[i] = d[i]
        BY <1>3, <2>4
    <2>6. o + Num(m) <= Len(u)
        BY <1>1, <2>1, <2>2, <2>3 DEF Group
    <2>7. Group(u, m, o)
        BY <2>2, <2>3, <2>5, <2>6, GroupStays
    <2>8. o + Num(m) \in o .. o + Num(m)
        BY <2>1
    <2> QED
        BY <2>3, <2>5, <2>7, <2>8
<1>9. ASSUME w = Num(n) + 1
      PROVE  Group(u, n, at) /\ u[at + Num(n)] = Short(ShortOf[n], kind, first)
    <2>1. \A i \in 1 .. Num(n) : LongOK(u[at + i - 1], n, i)
        <3>1. \A i \in 1 .. Num(n) : i \in 1 .. w
            BY <1>1, <1>9
        <3> QED
            BY <1>2, <1>4, <3>1
    <2>2. u[at + Num(n)] = Short(ShortOf[n], kind, first) /\ at + Num(n) <= Len(u)
        <3>1. Num(n) + 1 \in 1 .. w /\ at + (Num(n) + 1) - 1 = at + Num(n)
            BY <1>1, <1>9
        <3>2. u[at + (Num(n) + 1) - 1] = p[Num(n) + 1] /\ at + (Num(n) + 1) - 1 \in 1 .. Len(u)
            BY <1>4, <3>1
        <3> QED
            BY <1>1, <1>2, <3>1, <3>2
    <2>3. ShortOK(u[at + Num(n)], n)
        <3>1. PICK e : e = u[at + Num(n)]
            OBVIOUS
        <3>2. e = Short(ShortOf[n], kind, first)
            BY <2>2, <3>1
        <3>3. HasFields(e, ShortFields)
            BY <3>2 DEF Short, ShortFields, HasFields
        <3>4. /\ e.type = "short" /\ e.del = FALSE /\ e.name = ShortOf[n]
              /\ e.kind = kind /\ e.first = first
            BY <3>2 DEF Short
        <3>5. first \in Clusters
            BY <1>9
        <3>6. ShortOK(e, n)
            BY <3>3, <3>4, <3>5 DEF ShortOK
        <3> QED
            BY <3>1, <3>6
    <2> QED
        BY <2>1, <2>2, <2>3 DEF Group
<1>10. ASSUME NEW m \in Names, new[m] # 0 PROVE Group(u, m, new[m])
    <2>1. CASE m = n /\ w = Num(n) + 1
        BY <1>7, <1>9, <2>1
    <2>2. CASE ~(m = n /\ w = Num(n) + 1)
        BY <1>6, <1>8, <1>10, <2>2
    <2> QED
        BY <2>1, <2>2
<1>11. ASSUME NEW i \in 1 .. Len(u) PROVE EntryOK(u[i])
    <2>1. CASE i - at + 1 \in 1 .. w /\ u[i] = p[i - at + 1]
        <3>1. PICK k \in 1 .. w : k = i - at + 1
            BY <2>1
        <3>2. CASE k \in 1 .. Num(n)
            <4>1. LongOK(u[i], n, k)
                BY <1>2, <2>1, <3>1, <3>2
            <4> QED
                BY <4>1 DEF LongOK, EntryOK
        <3>3. CASE k \notin 1 .. Num(n)
            <4>1. k = Num(n) + 1
                BY <1>1, <3>3
            <4>2. u[i] = Short(ShortOf[n], kind, first)
                BY <1>2, <2>1, <3>1, <4>1
            <4>3. kind \in {"file", "dir"}
                BY NamesAssumption
            <4> QED
                BY <4>2, <4>3 DEF Short, EntryOK
        <3> QED
            BY <3>2, <3>3
    <2>2. CASE i \in 1 .. Len(d) /\ u[i] = d[i]
        BY <2>2 DEF Laid
    <2>3. CASE u[i] = Empty
        BY <2>3 DEF Empty, EntryOK
    <2> QED
        BY <1>3, <2>1, <2>2, <2>3
<1>12. ASSUME NEW o \in 1 .. Len(u), ~IsFree(u[o]), IsLast(u[o])
       PROVE  FirstOK(u, new, full, o)
    <2>1. CASE o - at + 1 \in 1 .. w /\ u[o] = p[o - at + 1]
        <3>1. PICK k \in 1 .. w : k = o - at + 1
            BY <2>1
        <3>2. k \in 1 .. Num(n)
            <4> SUFFICES ASSUME k \notin 1 .. Num(n) PROVE FALSE
                OBVIOUS
            <4>1. k = Num(n) + 1
                BY <1>1
            <4>2. u[o].type = "short"
                BY <1>2, <2>1, <3>1, <4>1 DEF Short
            <4> QED
                BY <1>12, <4>2 DEF IsLast, IsLong
        <3>3. LongOK(u[o], n, k)
            BY <1>2, <2>1, <3>1, <3>2
        <3>4. k = 1 /\ u[o].order = Num(n)
            BY <1>1, <1>12, <3>2, <3>3 DEF LongOK, IsLast
        <3>5. o = at
            BY <3>1, <3>4
        <3>6. CASE w = Num(n) + 1
            BY <1>7, <3>5, <3>6 DEF FirstOK
        <3>7. CASE w # Num(n) + 1
            <4>1. o + Num(n) > Len(u)
                BY <1>1, <3>5, <3>7
            <4> QED
                BY <3>4, <3>7, <4>1 DEF FirstOK
        <3> QED
            BY <3>6, <3>7
    <2>2. CASE o \in 1 .. Len(d) /\ u[o] = d[o]
        <3>1. FirstOK(d, place, FALSE, o)
            BY <1>12, <2>2 DEF Laid
        <3>2. PICK m \in Names : place[m] = o
            BY <3>1 DEF FirstOK
        <3>3. new[m] = o
            BY <1>6, <2>2, <3>2
        <3> QED
            BY <3>3 DEF FirstOK
    <2>3. CASE u[o] = Empty
        BY <1>12, <2>3 DEF Empty, IsFree
    <2> QED
        BY <1>3, <2>1, <2>2, <2>3
<1>13. ASSUME NEW o \in 1 .. Len(u), ~IsFree(u[o]), u[o].type = "short"
       PROVE  LastOK(u, new, full, o)
    <2>1. CASE o - at + 1 \in 1 .. w /\ u[o] = p[o - at + 1]
        <3>1. PICK k \in 1 .. w : k = o - at + 1
            BY <2>1
        <3>2. k \notin 1 .. Num(n)
            <4> SUFFICES ASSUME k \in 1 .. Num(n) PROVE FALSE
                OBVIOUS
            <4>1. LongOK(u[o], n, k)
                BY <1>2, <2>1, <3>1
            <4> QED
                BY <1>13, <4>1 DEF LongOK
        <3>3. k = Num(n) + 1 /\ w = Num(n) + 1
            BY <1>1, <3>2
        <3>a. o = at + Num(n)
            <4>1. o \in Int /\ at \in Int /\ Num(n) \in Int
                BY <1>1
            <4>2. o - at + 1 = Num(n) + 1
                BY <3>1, <3>3
            <4> HIDE <1>7
            <4> QED
                BY <4>1, <4>2
        <3>4. o = new[n] + Num(n) /\ new[n] # 0
            BY <1>7, <3>3, <3>a
        <3> QED
            BY <3>4 DEF LastOK
    <2>2. CASE o \in 1 .. Len(d) /\ u[o] = d[o]
        <3>1. LastOK(d, place, FALSE, o)
            BY <1>13, <2>2 DEF Laid
        <3>2. ASSUME NEW m \in Names, place[m] # 0, o = place[m] + Num(m)
              PROVE  new[m] = place[m]
            BY <1>6, <3>2
        <3> QED
            BY <2>2, <3>1, <3>2 DEF LastOK
    <2>3. CASE u[o] = Empty
        BY <1>13, <2>3 DEF Empty, IsFree
    <2> QED
        BY <1>3, <2>1, <2>2, <2>3
<1>14. 2 <= Len(u)
    BY <1>1
<1>15. Laid(u, new, full)
    BY <1>1, <1>5, <1>10, <1>11, <1>12, <1>13, <1>14 DEF Laid
<1> QED
    BY <1>8, <1>9, <1>15 DEF Survive, Made, EndsWith

\* The entries delete writes to are a and b, or a alone when it stops half-way.
IsDeletion(d, a, b, u, half) ==
    /\ IsSeq(u) /\ Len(u) = Len(d)
    /\ u[a].type = "long" /\ u[a].del = TRUE /\ u[a].last = TRUE
    /\ u[b].type = "short" /\ u[b].kind = d[b].kind
    /\ u[b].del = TRUE \/ (half = TRUE /\ u[b] = d[b])
    /\ \A i \in 1 .. Len(d) : i # a /\ i # b => u[i] = d[i]

\* What the first long entry is when it is marked.
IsMarked(x) == x.type = "long" /\ x.del = TRUE /\ x.last = TRUE

\* The set_deleted calls for the long entries change the first of them.
LEMMA LongDeletedIs ==
    ASSUME NamesApart, NEW d, IsSeq(d), NEW n \in Names, NEW a \in Nat \ {0}, Group(d, n, a),
           NEW b, NEW t, t = LongDeleted(VFile(b, a, Num(n)), d)
    PROVE  \E x : IsMarked(x) /\ IsUpdate(d, a, x, t)
<1>1. Num(n) \in Nat \ {0} /\ Len(d) \in Nat
    BY PiecesAre, SeqFacts
<1>2. PICK v : v = VFile(b, a, Num(n))
    OBVIOUS
<1>3. v.num = Num(n) /\ v.long = a /\ v.num # 0
    BY <1>1, <1>2 DEF VFile
<1>4. a \in 1 .. Len(d)
    BY <1>1 DEF Group
<1>5. LongOK(d[a], n, 1)
    <2>1. LongOK(d[a + 1 - 1], n, 1)
        BY <1>1 DEF Group
    <2>2. a + 1 - 1 = a
        BY <1>1
    <2> QED
        BY <2>1, <2>2
<1>6. PICK e, y : e = d[a] /\ y = IF v.num > 1 /\ ~RunsOver(v) THEN MANGLED ELSE e.text
    OBVIOUS
<1>7. PICK x : x = [e EXCEPT !.del = TRUE, !.text = y]
    OBVIOUS
<1>8. IsMarked(x)
    <2>1. HasFields(e, LongFields) /\ e.type = "long" /\ e.last = TRUE
        BY <1>5, <1>6 DEF LongOK
    <2> QED
        BY <1>7, <2>1 DEF HasFields, LongFields, IsMarked
<1>9. t = [d EXCEPT ![a] = x]
    BY <1>2, <1>3, <1>6, <1>7 DEF LongDeleted
<1>10. IsUpdate(d, a, x, t)
    BY <1>4, <1>9, Updated
<1> QED
    BY <1>8, <1>10

\* delete marks the short entry and the first long one.
LEMMA DeletedAre ==
    ASSUME NamesApart, NEW d, IsSeq(d), NEW n \in Names, NEW a \in Nat \ {0}, Group(d, n, a),
           NEW b, b = a + Num(n), NEW u, u = ShortDeleted(VFile(b, a, Num(n)),
                                                LongDeleted(VFile(b, a, Num(n)), d))
    PROVE  IsDeletion(d, a, b, u, FALSE)
<1>1. Num(n) \in Nat \ {0} /\ Len(d) \in Nat
    BY PiecesAre, SeqFacts
<1>2. a \in 1 .. Len(d) /\ b \in 1 .. Len(d) /\ a # b /\ ShortOK(d[b], n)
    BY <1>1 DEF Group
<1>3. PICK t : t = LongDeleted(VFile(b, a, Num(n)), d)
    OBVIOUS
<1>4. PICK x : IsMarked(x) /\ IsUpdate(d, a, x, t)
    BY <1>3, LongDeletedIs
<1>5. /\ IsSeq(t) /\ Len(t) = Len(d)
      /\ \A i \in 1 .. Len(d) : t[i] = IF i = a THEN x ELSE d[i]
    BY <1>4 DEF IsUpdate
<1>6. PICK y : y = [d[b] EXCEPT !.del = TRUE]
    OBVIOUS
<1>7. y.type = "short" /\ y.del = TRUE /\ y.kind = d[b].kind
    <2>1. PICK f : f = d[b]
        OBVIOUS
    <2>2. HasFields(f, ShortFields) /\ f.type = "short"
        BY <1>2, <2>1 DEF ShortOK
    <2>3. y = [f EXCEPT !.del = TRUE]
        BY <1>6, <2>1
    <2> QED
        BY <2>1, <2>2, <2>3 DEF HasFields, ShortFields
<1>8. t[b] = d[b]
    BY <1>2, <1>5
<1>9. u = [t EXCEPT ![b] = y]
    BY <1>3, <1>6, <1>8 DEF ShortDeleted, VFile
<1>10. /\ IsSeq(u) /\ Len(u) = Len(t)
       /\ \A i \in 1 .. Len(t) : u[i] = IF i = b THEN y ELSE t[i]
    <2>1. b \in 1 .. Len(t)
        BY <1>2, <1>5
    <2>2. IsUpdate(t, b, y, u)
        BY <1>5, <1>9, <2>1, Updated
    <2> QED
        BY <2>2 DEF IsUpdate
<1>11. u[a] = x /\ u[b] = y
    BY <1>2, <1>5, <1>10
<1>12. \A i \in 1 .. Len(d) : i # a /\ i # b => u[i] = d[i]
    BY <1>5, <1>10
<1> QED
    BY <1>4, <1>5, <1>7, <1>10, <1>11, <1>12 DEF IsDeletion, IsMarked

\* A delete that panics has marked the first long entry.
LEMMA HalfDeletedAre ==
    ASSUME NamesApart, NEW d, IsSeq(d), NEW n \in Names, NEW a \in Nat \ {0}, Group(d, n, a),
           NEW b, b = a + Num(n), NEW u, u = LongDeleted(VFile(b, a, Num(n)), d)
    PROVE  IsDeletion(d, a, b, u, TRUE)
<1>1. Num(n) \in Nat \ {0} /\ Len(d) \in Nat
    BY PiecesAre, SeqFacts
<1>2. a \in 1 .. Len(d) /\ b \in 1 .. Len(d) /\ a # b /\ ShortOK(d[b], n)
    BY <1>1 DEF Group
<1>3. PICK x : IsMarked(x) /\ IsUpdate(d, a, x, u)
    BY LongDeletedIs
<1>4. /\ IsSeq(u) /\ Len(u) = Len(d)
      /\ \A i \in 1 .. Len(d) : u[i] = IF i = a THEN x ELSE d[i]
    BY <1>3 DEF IsUpdate
<1>5. u[a] = x /\ u[b] = d[b] /\ d[b].type = "short"
    BY <1>2, <1>4 DEF ShortOK
<1>6. \A i \in 1 .. Len(d) : i # a /\ i # b => u[i] = d[i]
    BY <1>4
<1> QED
    BY <1>3, <1>4, <1>5, <1>6 DEF IsDeletion, IsMarked

SurviveBut(n, d, place, u) ==
    \A m \in Names \ {n} : place[m] # 0 => u[place[m] + Num(m)] = d[place[m] + Num(m)]

\* delete takes one file away, and leaves the others as they were.
LEMMA DeleteLays ==
    ASSUME NamesApart, NEW d, NEW place, Laid(d, place, FALSE),
           NEW n \in Names, place[n] # 0, NEW u, NEW half,
           IsDeletion(d, place[n], place[n] + Num(n), u, half),
           NEW new, Changed(place, n, 0, new)
    PROVE  Laid(u, new, half) /\ SurviveBut(n, d, place, u)
<1> USE DEF Changed
<1>1. Num(n) \in Nat \ {0} /\ IsSeq(d) /\ Len(d) \in Nat /\ place \in [Names -> Nat]
    BY PiecesAre, SeqFacts DEF Laid
<1>2. PICK a \in Nat \ {0} : a = place[n]
    BY <1>1
<1>3. PICK b \in Nat : b = a + Num(n)
    BY <1>1
<1>4. Group(d, n, a)
    BY <1>2 DEF Laid
<1>5. /\ IsSeq(u) /\ Len(u) = Len(d)
      /\ u[a].type = "long" /\ u[a].del = TRUE /\ u[a].last = TRUE
      /\ u[b].type = "short" /\ u[b].kind = d[b].kind
      /\ u[b].del = TRUE \/ (half = TRUE /\ u[b] = d[b])
      /\ \A i \in 1 .. Len(d) : i # a /\ i # b => u[i] = d[i]
    BY <1>2, <1>3 DEF IsDeletion
<1>6. ASSUME NEW m \in Names, m # n, place[m] # 0
      PROVE  Group(u, m, place[m]) /\ u[place[m] + Num(m)] = d[place[m] + Num(m)]
    <2>1. Num(m) \in Nat \ {0}
        BY PiecesAre
    <2>2. PICK o \in Nat \ {0} : o = place[m]
        BY <1>1, <1>6
    <2>3. Group(d, m, o)
        BY <1>6, <2>2 DEF Laid
    <2>4. o # a
        BY <1>2, <1>6, <2>2, PlacesDiffer
    <2>5. (o < a => o + Num(m) < a) /\ (a < o => b < o)
        BY <1>2, <1>3, <1>6, <2>2, PlacesApart
    <2>6. \A i \in o .. o + Num(m) : i # a /\ i # b
        BY <1>1, <1>3, <2>1, <2>4, <2>5
    <2>7. \A i \in o .. o + Num(m) : i \in 1 .. Len(d)
        BY <1>1, <2>3, GroupIsLive
    <2>8. \A i \in o .. o + Num(m) : u[i] = d[i]
        BY <1>5, <2>6, <2>7
    <2>9. o + Num(m) <= Len(u)
        BY <1>5, <2>3 DEF Group
    <2>10. Group(u, m, o)
        BY <2>3, <2>8, <2>9, GroupStays
    <2>11. o + Num(m) \in o .. o + Num(m)
        BY <2>1
    <2> QED
        BY <2>2, <2>8, <2>10, <2>11
<1>7. new \in [Names -> Nat] /\ new[n] = 0 /\ \A m \in Names : m # n => new[m] = place[m]
    BY <1>1
<1>8. \A m \in Names : new[m] # 0 => Group(u, m, new[m])
    BY <1>6, <1>7
<1>9. a \in 1 .. Len(d) /\ b \in 1 .. Len(d)
    BY <1>1, <1>3, <1>4 DEF Group
<1>10. \A i \in 1 .. Len(u) : EntryOK(u[i])
    <2> TAKE i \in 1 .. Len(u)
    <2>1. CASE i = a
        BY <1>5, <2>1 DEF EntryOK
    <2>2. CASE i = b
        <3>1. ShortOK(d[b], n)
            BY <1>3, <1>4 DEF Group
        <3>2. d[b].kind \in {"file", "dir"} /\ d[b].del = FALSE
            BY <3>1, NamesAssumption DEF ShortOK
        <3>3. u[b].del \in BOOLEAN
            BY <1>5, <3>2
        <3> QED
            BY <1>5, <2>2, <3>2, <3>3 DEF EntryOK
    <2>3. CASE i # a /\ i # b
        BY <1>5, <2>3 DEF Laid
    <2> QED
        BY <2>1, <2>2, <2>3
<1>11. ASSUME NEW o \in 1 .. Len(u), ~IsFree(u[o])
       PROVE  o # a /\ (o = b => half = TRUE) /\ u[o] = d[o] /\ o \in 1 .. Len(d)
    BY <1>5, <1>11 DEF IsFree
<1>12. ASSUME NEW o \in 1 .. Len(u), ~IsFree(u[o]), IsLast(u[o])
       PROVE  FirstOK(u, new, half, o)
    <2>1. o # a /\ u[o] = d[o] /\ o \in 1 .. Len(d)
        BY <1>11, <1>12
    <2>2. FirstOK(d, place, FALSE, o)
        BY <1>12, <2>1 DEF Laid
    <2>3. ASSUME NEW m \in Names, place[m] = o PROVE new[m] = o
        BY <1>2, <1>7, <2>1, <2>3
    <2> QED
        BY <1>5, <2>1, <2>2, <2>3 DEF FirstOK
<1>13. ASSUME NEW o \in 1 .. Len(u), ~IsFree(u[o]), u[o].type = "short"
       PROVE  LastOK(u, new, half, o)
    <2>1. o # a /\ (o = b => half = TRUE) /\ u[o] = d[o] /\ o \in 1 .. Len(d)
        BY <1>11, <1>13
    <2>2. LastOK(d, place, FALSE, o)
        BY <1>13, <2>1 DEF Laid
    <2>3. CASE o = b
        <3>1. a \in 1 .. o - 1 /\ IsFree(u[a])
            BY <1>1, <1>3, <1>5, <2>3 DEF IsFree
        <3> QED
            BY <2>1, <2>3, <3>1 DEF LastOK
    <2>4. CASE o # b
        <3>1. ASSUME NEW m \in Names, place[m] # 0, o = place[m] + Num(m) PROVE new[m] = place[m]
            BY <1>2, <1>3, <1>7, <2>4, <3>1
        <3> QED
            BY <2>1, <2>2, <3>1 DEF LastOK
    <2> QED
        BY <2>3, <2>4
<1>14. 2 <= Len(u) /\ Whole(Len(u))
    BY <1>5 DEF Laid
<1>15. Laid(u, new, half)
    BY <1>5, <1>7, <1>8, <1>10, <1>12, <1>13, <1>14 DEF Laid
<1> QED
    BY <1>6, <1>15 DEF SurviveBut

-----------------------------------------------------------------------------
(* ls.  HasInfoIn, InfoIn, LsOf and ListingOf are HasInfo, Info, Ls and    *)
(* Listing of any entries d.                                               *)

HasInfoIn(d, o) ==
    LET k == d[o].order IN
    /\ ~IsFree(d[o]) /\ IsLast(d[o]) /\ o + k <= Len(d)
    /\ \A i \in o + 1 .. o + k - 1 : IsLong(d[i]) /\ ~d[i].del
    /\ d[o + k].type = "short" /\ ~d[o + k].del

InfoIn(d, o) ==
    LET k == d[o].order IN
    [name |-> Joined([i \in 1 .. k |-> d[o + i - 1].text]), at |-> o + k,
     file |-> [kind |-> d[o + k].kind, first |-> d[o + k].first]]

LsStep(d, from, o) ==
    IF o > Len(d) THEN <<>>
    ELSE IF HasInfoIn(d, o) THEN <<InfoIn(d, o)>> \o from[InfoIn(d, o).at + 1]
    ELSE from[o + 1]

LsFrom(d) == CHOOSE from : from = [o \in 1 .. Len(d) + 1 |-> LsStep(d, from, o)]
LsOf(d)   == LsFrom(d)[1]

ListingOf(d) ==
    LET ls == LsOf(d)
        items(n) == {i \in DOMAIN ls : ls[i].name = n}
    IN  [n \in Names |-> IF items(n) = {} THEN NONE ELSE ls[Least(items(n))]]

\* A file, and what ls returns for it.
FileAt(d, place, n) ==
    [kind |-> d[place[n] + Num(n)].kind, first |-> d[place[n] + Num(n)].first]
ItemOf(d, place, n) ==
    [name |-> n, at |-> place[n] + Num(n), file |-> FileAt(d, place, n)]

\* At the place of a file dirent_info reads its name and its short entry.
LEMMA InfoIsItem ==
    ASSUME NamesApart, NEW d, NEW place, NEW full, Laid(d, place, full),
           NEW n \in Names, place[n] # 0
    PROVE  HasInfoIn(d, place[n]) /\ InfoIn(d, place[n]) = ItemOf(d, place, n)
<1>1. PICK k \in Nat \ {0} : k = Num(n)
    BY PiecesAre
<1>2. PICK o \in Nat \ {0} : o = place[n]
    BY DEF Laid
<1>3. Group(d, n, o)
    BY <1>2 DEF Laid
<1>4. \A i \in 1 .. k : LongOK(d[o + i - 1], n, i)
    BY <1>1, <1>3 DEF Group
<1>5. LongOK(d[o], n, 1)
    <2>1. 1 \in 1 .. k /\ o + 1 - 1 = o
        OBVIOUS
    <2>2. LongOK(d[o + 1 - 1], n, 1)
        BY <1>4, <2>1
    <2> QED
        BY <2>1, <2>2
<1>6. d[o].order = k
    BY <1>1, <1>5 DEF LongOK
<1>7. o + k <= Len(d) /\ ShortOK(d[o + k], n)
    BY <1>1, <1>3 DEF Group
<1>8. \A i \in o + 1 .. o + k - 1 : IsLong(d[i]) /\ ~d[i].del
    <2> TAKE i \in o + 1 .. o + k - 1
    <2>1. i - o + 1 \in 1 .. k /\ o + (i - o + 1) - 1 = i
        OBVIOUS
    <2>2. PICK j \in 1 .. k : j = i - o + 1
        BY <2>1
    <2>3. LongOK(d[o + j - 1], n, j) /\ o + j - 1 = i
        BY <1>4, <2>1, <2>2
    <2>4. LongOK(d[i], n, j)
        BY <2>3
    <2> QED
        BY <2>4 DEF LongOK, IsLong
<1>9. HasInfoIn(d, o)
    <2>1. ~IsFree(d[o]) /\ IsLast(d[o])
        BY <1>5 DEF LongOK, IsFree, IsLast, IsLong
    <2>2. d[o + k].type = "short" /\ ~d[o + k].del
        BY <1>7 DEF ShortOK
    <2> QED
        BY <1>6, <1>7, <1>8, <2>1, <2>2 DEF HasInfoIn
<1>10. [i \in 1 .. k |-> d[o + i - 1].text] = Pieces[n]
    <2>1. Pieces[n] = [i \in 1 .. k |-> Pieces[n][i]]
        BY <1>1, PiecesAre
    <2>2. \A i \in 1 .. k : d[o + i - 1].text = Pieces[n][i]
        BY <1>4 DEF LongOK
    <2> QED
        BY <2>1, <2>2
<1>11. Joined(Pieces[n]) = n
    BY PiecesAre
<1>12. InfoIn(d, o) = ItemOf(d, place, n)
    BY <1>1, <1>2, <1>6, <1>10, <1>11 DEF InfoIn, ItemOf, FileAt
<1> QED
    BY <1>2, <1>9, <1>12

\* Where dirent_info reads a file there is one.
LEMMA InfoIsSomewhere ==
    ASSUME NamesApart, NEW d, NEW place, NEW full, Laid(d, place, full),
           NEW o \in 1 .. Len(d), HasInfoIn(d, o)
    PROVE  \E n \in Names : place[n] = o
<1>1. ~IsFree(d[o]) /\ IsLast(d[o]) /\ o + d[o].order <= Len(d)
    BY DEF HasInfoIn
<1>2. FirstOK(d, place, full, o)
    BY <1>1 DEF Laid
<1>3. ASSUME NEW n \in Names, d[o].order = Num(n) /\ o + Num(n) > Len(d) PROVE FALSE
    <2>1. Len(d) \in Nat /\ Num(n) \in Nat
        BY PiecesAre, SeqFacts DEF Laid
    <2> QED
        BY <1>1, <1>3, <2>1
<1> QED
    BY <1>2, <1>3 DEF FirstOK

\* dirent_info moves on.
Forward(d) ==
    \A o \in 1 .. Len(d) : HasInfoIn(d, o) => InfoIn(d, o).at + 1 \in o + 1 .. Len(d) + 1

\* dirent_info goes forward.
LEMMA MovesOn ==
    ASSUME NamesApart, NEW d, NEW place, NEW full, Laid(d, place, full)
    PROVE  Forward(d)
<1> SUFFICES ASSUME NEW o \in 1 .. Len(d), HasInfoIn(d, o)
             PROVE  InfoIn(d, o).at + 1 \in o + 1 .. Len(d) + 1
    BY DEF Forward
<1>1. PICK n \in Names : place[n] = o
    BY InfoIsSomewhere
<1>2. InfoIn(d, o) = ItemOf(d, place, n) /\ Group(d, n, o)
    <2>1. place[n] # 0
        BY <1>1
    <2>2. InfoIn(d, place[n]) = ItemOf(d, place, n)
        BY <2>1, InfoIsItem
    <2>3. Group(d, n, place[n])
        BY <2>1 DEF Laid
    <2> QED
        BY <1>1, <2>2, <2>3
<1>3. InfoIn(d, o).at = o + Num(n)
    BY <1>1, <1>2 DEF ItemOf
<1>4. Num(n) \in Nat /\ Len(d) \in Nat /\ o + Num(n) <= Len(d)
    BY <1>2, PiecesAre, SeqFacts DEF Laid, Group
<1> QED
    BY <1>3, <1>4

\* The recursive function of ls is defined on every directory.
LEMMA LsExists ==
    ASSUME NEW d, IsSeq(d), Forward(d)
    PROVE  \A o \in 1 .. Len(d) + 1 : LsFrom(d)[o] = LsStep(d, LsFrom(d), o)
<1>1. PICK N \in Nat : N = Len(d)
    BY SeqFacts
<1> DEFINE Good(f, k) == \A o \in N + 1 - k .. N + 1 : f[o] = LsStep(d, f, o)
           IsFun(f) == f = [o \in 1 .. N + 1 |-> f[o]]
           K == {k \in 0 .. N : \E f : IsFun(f) /\ Good(f, k)}
<1>2. 0 \in K
    <2> DEFINE f == [o \in 1 .. N + 1 |-> <<>>]
    <2>1. IsFun(f)
        OBVIOUS
    <2>2. Good(f, 0)
        <3> SUFFICES ASSUME NEW o \in N + 1 - 0 .. N + 1 PROVE f[o] = LsStep(d, f, o)
            OBVIOUS
        <3>1. o = N + 1 /\ o \in 1 .. N + 1
            OBVIOUS
        <3>2. LsStep(d, f, o) = <<>>
            BY <1>1, <3>1 DEF LsStep
        <3> QED
            BY <3>1, <3>2
    <2>3. 0 \in 0 .. N
        OBVIOUS
    <2> HIDE DEF f, IsFun, Good
    <2> QED
        BY <2>1, <2>2, <2>3
<1>3. \A k \in 0 .. N - 1 : k \in K => k + 1 \in K
    <2> SUFFICES ASSUME NEW k \in 0 .. N - 1, k \in K PROVE k + 1 \in K
        OBVIOUS
    <2>1. PICK f : IsFun(f) /\ Good(f, k)
        OBVIOUS
    <2>2. PICK x \in 1 .. N : x = N - k
        OBVIOUS
    <2>3. PICK g : g = [o \in 1 .. N + 1 |-> IF o = x THEN LsStep(d, f, o) ELSE f[o]]
        OBVIOUS
    <2>4. \A o \in x .. N + 1 : LsStep(d, g, o) = LsStep(d, f, o)
        <3> TAKE o \in x .. N + 1
        <3>1. CASE o = N + 1
            BY <1>1, <3>1 DEF LsStep
        <3>2. CASE o # N + 1
            <4>0. o \in Int /\ x \in Int /\ 1 <= x /\ x <= o /\ o <= N + 1
                OBVIOUS
            <4> HIDE DEF K, Good, IsFun
            <4>1. o \in 1 .. N /\ ~(o > N)
                BY <3>2, <4>0
            <4>2. CASE HasInfoIn(d, o)
                <5>1. PICK e \in o + 1 .. N + 1 : e = InfoIn(d, o).at + 1
                    BY <1>1, <4>1, <4>2 DEF Forward
                <5>2. g[e] = f[e]
                    BY <2>3, <4>1
                <5> QED
                    BY <1>1, <4>1, <4>2, <5>1, <5>2 DEF LsStep
            <4>3. CASE ~HasInfoIn(d, o)
                <5>1. g[o + 1] = f[o + 1]
                    <6>1. o + 1 \in 1 .. N + 1 /\ o + 1 # x
                        BY <4>1
                    <6> QED
                        BY <2>3, <6>1
                <5> QED
                    BY <1>1, <4>1, <4>3, <5>1 DEF LsStep
            <4> QED
                BY <4>2, <4>3
        <3> QED
            BY <3>1, <3>2
    <2>5. \A o \in x .. N + 1 : g[o] = LsStep(d, f, o)
        <3> TAKE o \in x .. N + 1
        <3>1. CASE o = x
            BY <2>3, <3>1
        <3>2. CASE o # x
            <4>1. o \in N + 1 - k .. N + 1 /\ o \in 1 .. N + 1
                BY <2>2, <3>2
            <4>2. f[o] = LsStep(d, f, o)
                BY <2>1, <4>1
            <4>3. g[o] = f[o]
                BY <2>3, <3>2, <4>1
            <4> QED
                BY <4>2, <4>3
        <3> QED
            BY <3>1, <3>2
    <2>6. x = N + 1 - (k + 1)
        BY <2>2
    <2>7. Good(g, k + 1)
        BY <2>4, <2>5, <2>6
    <2>8. IsFun(g)
        BY <2>3
    <2>9. k + 1 \in 0 .. N
        OBVIOUS
    <2> HIDE DEF IsFun, Good
    <2> QED
        BY <2>7, <2>8, <2>9
<1>4. N \in K
    <2> HIDE DEF K
    <2>1. N \in 0 .. N
        OBVIOUS
    <2> QED
        BY <1>2, <1>3, <2>1, UpTo
<1>5. PICK f : IsFun(f) /\ Good(f, N)
    BY <1>4
<1>6. \A o \in 1 .. N + 1 : f[o] = LsStep(d, f, o)
    <2>1. N + 1 - N = 1
        OBVIOUS
    <2> QED
        BY <1>5, <2>1
<1>7. f = [o \in 1 .. Len(d) + 1 |-> LsStep(d, f, o)]
    BY <1>1, <1>5, <1>6
<1>8. LsFrom(d) = [o \in 1 .. Len(d) + 1 |-> LsStep(d, LsFrom(d), o)]
    BY <1>7 DEF LsFrom
<1> QED
    BY <1>8

\* s lists the files that begin at o or behind it, each once.
Lists(d, place, s, o) ==
    /\ IsSeq(s)
    /\ \A i \in 1 .. Len(s) : \E n \in Names : place[n] >= o /\ s[i] = ItemOf(d, place, n)
    /\ \A n \in Names : place[n] >= o => \E i \in 1 .. Len(s) : s[i] = ItemOf(d, place, n)
    /\ \A i, j \in 1 .. Len(s) : s[i].name = s[j].name => i = j

\* s is x and then t.
IsPrefixed(x, t, s) ==
    /\ IsSeq(s) /\ Len(s) = Len(t) + 1 /\ s[1] = x
    /\ \A i \in 1 .. Len(t) : s[i + 1] = t[i]

\* A sequence with one more item in front.
LEMMA Prefixed ==
    ASSUME NEW x, NEW t, IsSeq(t)
    PROVE  IsPrefixed(x, t, <<x>> \o t)
<1>1. PICK T : t \in Seq(T)
    BY DEF IsSeq
<1>2. PICK S : S = T \cup {x}
    OBVIOUS
<1>3. Len(t) \in Nat /\ t \in [1 .. Len(t) -> T]
    BY <1>1, LenProperties
<1>4. t \in [1 .. Len(t) -> S]
    BY <1>2, <1>3
<1>5. t \in Seq(S)
    BY <1>3, <1>4, FunctionIsSeq
<1>6. PICK h : h = <<x>>
    OBVIOUS
<1>7. h \in Seq(S) /\ Len(h) = 1 /\ h[1] = x
    BY <1>2, <1>6
<1>8. h \o t \in Seq(S) /\ Len(h \o t) = Len(h) + Len(t)
    BY <1>5, <1>7, ConcatProperties
<1>9. \A i \in 1 .. Len(h) + Len(t) : (h \o t)[i] = IF i <= Len(h) THEN h[i] ELSE t[i - Len(h)]
    BY <1>5, <1>7, ConcatProperties
<1>10. PICK s : s = h \o t
    OBVIOUS
<1>11. s[1] = x
    <2>1. 1 \in 1 .. Len(h) + Len(t) /\ 1 <= Len(h)
        BY <1>3, <1>7
    <2> QED
        BY <1>7, <1>9, <1>10, <2>1
<1>12. ASSUME NEW i \in 1 .. Len(t) PROVE s[i + 1] = t[i]
    <2>1. i + 1 \in 1 .. Len(h) + Len(t) /\ ~(i + 1 <= Len(h)) /\ (i + 1) - Len(h) = i
        BY <1>3, <1>7
    <2>2. PICK k \in 1 .. Len(h) + Len(t) : k = i + 1
        BY <2>1
    <2>3. s[k] = t[k - Len(h)]
        BY <1>9, <1>10, <2>1, <2>2
    <2> QED
        BY <2>1, <2>2, <2>3
<1>13. IsSeq(s) /\ Len(s) = Len(t) + 1
    BY <1>3, <1>7, <1>8, <1>10 DEF IsSeq
<1> QED
    BY <1>6, <1>10, <1>11, <1>12, <1>13 DEF IsPrefixed

\* One step of ls, from behind the entries it has read.
LEMMA ListsOneMore ==
    ASSUME NamesApart, NEW d, NEW place, NEW full, Laid(d, place, full),
           NEW n \in Names, NEW o \in Nat \ {0}, place[n] = o, NEW t, NEW s,
           Lists(d, place, t, o + Num(n) + 1), IsPrefixed(ItemOf(d, place, n), t, s)
    PROVE  Lists(d, place, s, o)
<1>1. PICK e \in Nat : e = o + Num(n) + 1
    <2>1. Num(n) \in Nat
        BY PiecesAre
    <2>2. o + Num(n) + 1 \in Nat
        BY <2>1
    <2> QED
        BY <2>2
<1>2. e > o /\ place \in [Names -> Nat]
    <2>1. Num(n) \in Nat
        BY PiecesAre
    <2> QED
        BY <1>1, <2>1 DEF Laid
<1>3. PICK x : x = ItemOf(d, place, n)
    OBVIOUS
<1>4. \A m \in Names : place[m] >= o <=> m = n \/ place[m] >= e
    <2> TAKE m \in Names
    <2>1. place[m] = o => m = n
        BY PlacesDiffer
    <2>2. m # n /\ o < place[m] => o + Num(n) < place[m]
        <3>1. m # n /\ o < place[m] => place[m] # 0 /\ place[n] # 0
            BY <1>2
        <3> QED
            BY <3>1, PlacesApart
    <2>3. Num(n) \in Nat /\ place[m] \in Nat
        BY <1>2, PiecesAre
    <2> QED
        BY <1>1, <1>2, <2>1, <2>2, <2>3
<1>5. /\ IsSeq(s) /\ Len(s) = Len(t) + 1 /\ s[1] = x
      /\ \A i \in 1 .. Len(t) : s[i + 1] = t[i]
    BY <1>3 DEF IsPrefixed
<1>6. /\ IsSeq(t)
      /\ \A i \in 1 .. Len(t) : \E m \in Names : place[m] >= e /\ t[i] = ItemOf(d, place, m)
      /\ \A m \in Names : place[m] >= e => \E i \in 1 .. Len(t) : t[i] = ItemOf(d, place, m)
      /\ \A i, j \in 1 .. Len(t) : t[i].name = t[j].name => i = j
    BY <1>1 DEF Lists
<1>7. Len(t) \in Nat
    BY <1>6, SeqFacts
<1>8. \A i \in 1 .. Len(s) : i = 1 \/ \E k \in 1 .. Len(t) : i = k + 1 /\ s[i] = t[k]
    <2> TAKE i \in 1 .. Len(s)
    <2>1. CASE i # 1
        <3>1. i - 1 \in 1 .. Len(t) /\ i = (i - 1) + 1
            BY <1>5, <1>7, <2>1
        <3>2. PICK k \in 1 .. Len(t) : k = i - 1
            BY <3>1
        <3> QED
            BY <1>5, <3>1, <3>2
    <2> QED
        BY <2>1
<1>9. ASSUME NEW i \in 1 .. Len(s)
      PROVE  \E m \in Names : place[m] >= o /\ s[i] = ItemOf(d, place, m)
    <2>1. CASE i = 1
        BY <1>3, <1>4, <1>5, <2>1
    <2>2. CASE i # 1
        <3>1. PICK k \in 1 .. Len(t) : s[i] = t[k]
            BY <1>8, <2>2
        <3>2. PICK m \in Names : place[m] >= e /\ t[k] = ItemOf(d, place, m)
            BY <1>6
        <3> QED
            BY <1>4, <3>1, <3>2
    <2> QED
        BY <2>1, <2>2
<1>10. ASSUME NEW m \in Names, place[m] >= o
       PROVE  \E i \in 1 .. Len(s) : s[i] = ItemOf(d, place, m)
    <2>1. CASE m = n
        <3>1. 1 \in 1 .. Len(s)
            BY <1>5, <1>7
        <3> QED
            BY <1>3, <1>5, <2>1, <3>1
    <2>2. CASE m # n
        <3>1. PICK k \in 1 .. Len(t) : t[k] = ItemOf(d, place, m)
            BY <1>4, <1>6, <1>10, <2>2
        <3>2. k + 1 \in 1 .. Len(s)
            BY <1>5, <1>7
        <3> QED
            BY <1>5, <3>1, <3>2
    <2> QED
        BY <2>1, <2>2
<1>11. ASSUME NEW k \in 1 .. Len(t) PROVE t[k].name # s[1].name
    <2>1. PICK m \in Names : place[m] >= e /\ t[k] = ItemOf(d, place, m)
        BY <1>6
    <2>2. m # n
        BY <1>2, <2>1
    <2> QED
        BY <1>3, <1>5, <2>1, <2>2 DEF ItemOf
<1>12. ASSUME NEW i \in 1 .. Len(s), NEW j \in 1 .. Len(s), s[i].name = s[j].name
       PROVE  i = j
    <2>1. CASE i = 1 /\ j = 1
        BY <2>1
    <2>2. CASE i = 1 /\ j # 1
        BY <1>8, <1>11, <1>12, <2>2
    <2>3. CASE i # 1 /\ j = 1
        BY <1>8, <1>11, <1>12, <2>3
    <2>4. CASE i # 1 /\ j # 1
        <3>1. PICK k \in 1 .. Len(t) : i = k + 1 /\ s[i] = t[k]
            BY <1>8, <2>4
        <3>2. PICK l \in 1 .. Len(t) : j = l + 1 /\ s[j] = t[l]
            BY <1>8, <2>4
        <3>3. k = l
            BY <1>6, <1>12, <3>1, <3>2
        <3> QED
            BY <3>1, <3>2, <3>3
    <2> QED
        BY <2>1, <2>2, <2>3, <2>4
<1> QED
    BY <1>5, <1>9, <1>10, <1>12 DEF Lists

\* ls lists the files from every position on, each once.
LEMMA LsLists ==
    ASSUME NamesApart, NEW d, NEW place, NEW full, Laid(d, place, full)
    PROVE  Lists(d, place, LsOf(d), 1)
<1>1. PICK N \in Nat : N = Len(d)
    BY SeqFacts DEF Laid
<1>2. PICK f : f = LsFrom(d)
    OBVIOUS
<1>3. \A o \in 1 .. N + 1 : f[o] = LsStep(d, f, o)
    <2>1. IsSeq(d) /\ Forward(d)
        BY MovesOn DEF Laid
    <2> QED
        BY <1>1, <1>2, <2>1, LsExists
<1>4. place \in [Names -> Nat] /\ \A n \in Names : place[n] # 0 => place[n] + Num(n) <= N
    BY <1>1 DEF Laid, Group
<1> DEFINE K == {k \in 0 .. N : \A o \in N + 1 - k .. N + 1 : Lists(d, place, f[o], o)}
<1>5. 0 \in K
    <2>1. ASSUME NEW o \in N + 1 - 0 .. N + 1 PROVE Lists(d, place, f[o], o)
        <3>1. o = N + 1 /\ o \in 1 .. N + 1 /\ o > N
            OBVIOUS
        <3>2. f[o] = <<>>
            BY <1>1, <1>3, <3>1 DEF LsStep
        <3>3. \A n \in Names : ~(place[n] >= o)
            <4> TAKE n \in Names
            <4>1. Num(n) \in Nat /\ place[n] \in Nat
                BY <1>4, PiecesAre
            <4> QED
                BY <1>4, <3>1, <4>1
        <3>4. <<>> \in Seq({}) /\ Len(<<>>) = 0
            OBVIOUS
        <3>5. IsSeq(<<>>)
            BY <3>4 DEF IsSeq
        <3> QED
            BY <3>2, <3>3, <3>4, <3>5 DEF Lists
    <2> QED
        BY <2>1
<1>6. ASSUME NEW k \in 0 .. N - 1, k \in K PROVE k + 1 \in K
    <2>1. \A o \in N + 1 - k .. N + 1 : Lists(d, place, f[o], o)
        BY <1>6
    <2>2. PICK x \in 1 .. N : x = N - k
        OBVIOUS
    <2> HIDE DEF K
    <2>3. f[x] = LsStep(d, f, x)
        BY <1>3
    <2>4. Lists(d, place, f[x], x)
        <3>1. CASE HasInfoIn(d, x)
            <4>1. PICK n \in Names : place[n] = x
                BY <1>1, <3>1, InfoIsSomewhere
            <4>2. InfoIn(d, x) = ItemOf(d, place, n)
                <5>1. place[n] # 0
                    BY <4>1
                <5>2. InfoIn(d, place[n]) = ItemOf(d, place, n)
                    BY <5>1, InfoIsItem
                <5> QED
                    BY <4>1, <5>2
            <4>a. Num(n) \in Nat
                BY PiecesAre
            <4>b. place[n] + Num(n) <= N
                BY <1>4, <4>1
            <4>3. Num(n) \in Nat /\ x + Num(n) <= N
                BY <4>1, <4>a, <4>b
            <4>4. PICK e \in Nat : e = x + Num(n) + 1
                BY <4>3
            <4>5. e \in N + 1 - k .. N + 1
                BY <2>2, <4>3, <4>4
            <4>6. Lists(d, place, f[e], e)
                BY <2>1, <4>5
            <4>7. InfoIn(d, x).at + 1 = e
                BY <4>1, <4>2, <4>4 DEF ItemOf
            <4>8. f[x] = <<InfoIn(d, x)>> \o f[e]
                <5>1. ~(x > Len(d))
                    BY <1>1
                <5> QED
                    BY <2>3, <3>1, <4>7, <5>1 DEF LsStep
            <4>9. PICK t, s, i : t = f[e] /\ s = f[x] /\ i = ItemOf(d, place, n)
                OBVIOUS
            <4>10. IsPrefixed(i, t, <<i>> \o t)
                <5>1. IsSeq(t)
                    BY <4>6, <4>9 DEF Lists
                <5> QED
                    BY <5>1, Prefixed
            <4>11. IsPrefixed(ItemOf(d, place, n), t, s)
                BY <4>2, <4>8, <4>9, <4>10
            <4>12. Lists(d, place, t, x + Num(n) + 1)
                BY <4>4, <4>6, <4>9
            <4>13. x \in Nat \ {0}
                OBVIOUS
            <4>14. Lists(d, place, s, x)
                BY <4>1, <4>11, <4>12, <4>13, ListsOneMore
            <4> QED
                BY <4>9, <4>14
        <3>2. CASE ~HasInfoIn(d, x)
            <4>1. f[x] = f[x + 1]
                <5>1. ~(x > Len(d))
                    BY <1>1
                <5> QED
                    BY <2>3, <3>2, <5>1 DEF LsStep
            <4>2. x + 1 \in N + 1 - k .. N + 1
                BY <2>2
            <4>3. Lists(d, place, f[x + 1], x + 1)
                BY <2>1, <4>2
            <4>4. \A n \in Names : place[n] >= x <=> place[n] >= x + 1
                <5> TAKE n \in Names
                <5>1. place[n] # x
                    <6>1. place[n] # 0 => HasInfoIn(d, place[n])
                        BY InfoIsItem
                    <6> QED
                        BY <3>2, <6>1
                <5>2. place[n] \in Nat
                    BY <1>4
                <5> QED
                    BY <5>1, <5>2
            <4> QED
                BY <4>1, <4>3, <4>4, SMTT(60) DEF Lists
        <3> QED
            BY <3>1, <3>2
    <2>5. \A o \in N + 1 - (k + 1) .. N + 1 : o = x \/ o \in N + 1 - k .. N + 1
        BY <2>2
    <2>6. \A o \in N + 1 - (k + 1) .. N + 1 : Lists(d, place, f[o], o)
        BY <2>1, <2>4, <2>5
    <2>7. k + 1 \in 0 .. N
        OBVIOUS
    <2> QED
        BY <2>6, <2>7 DEF K
<1>7. N \in K
    <2>1. \A k \in 0 .. N - 1 : k \in K => k + 1 \in K
        BY <1>6
    <2> HIDE DEF K
    <2>2. N \in 0 .. N
        OBVIOUS
    <2> QED
        BY <1>5, <2>1, <2>2, UpTo
<1>8. 1 \in N + 1 - N .. N + 1
    OBVIOUS
<1> QED
    BY <1>2, <1>7, <1>8 DEF LsOf

\* The listing has the names of the files that are there, and only those.
LEMMA ListingIs ==
    ASSUME NamesApart, NEW d, NEW place, NEW full, Laid(d, place, full), NEW n \in Names
    PROVE  ListingOf(d)[n] = IF place[n] = 0 THEN NONE ELSE ItemOf(d, place, n)
<1>1. PICK s : s = LsOf(d)
    OBVIOUS
<1>2. Lists(d, place, s, 1)
    BY <1>1, LsLists
<1>3. Len(s) \in Nat /\ DOMAIN s = 1 .. Len(s) /\ place[n] \in Nat
    BY <1>2, SeqFacts DEF Lists, Laid
<1>4. PICK items : items = {i \in DOMAIN s : s[i].name = n}
    OBVIOUS
<1>5. ListingOf(d)[n] = IF items = {} THEN NONE ELSE s[Least(items)]
    BY <1>1, <1>4 DEF ListingOf
<1>6. CASE place[n] = 0
    <2>1. ASSUME NEW i \in 1 .. Len(s), s[i].name = n PROVE FALSE
        <3>1. PICK m \in Names : place[m] >= 1 /\ s[i] = ItemOf(d, place, m)
            BY <1>2 DEF Lists
        <3>2. m = n
            BY <2>1, <3>1 DEF ItemOf
        <3> QED
            BY <1>6, <3>1, <3>2
    <2>2. items = {}
        BY <1>3, <1>4, <2>1
    <2> QED
        BY <1>5, <1>6, <2>2
<1>7. CASE place[n] # 0
    <2>1. place[n] >= 1
        BY <1>3, <1>7
    <2>2. PICK i \in 1 .. Len(s) : s[i] = ItemOf(d, place, n)
        BY <1>2, <2>1 DEF Lists
    <2>3. s[i].name = n
        BY <2>2 DEF ItemOf
    <2>4. i \in items
        BY <1>3, <1>4, <2>3
    <2>5. \A j \in items : j \in Int /\ i <= j
        BY <1>2, <1>3, <1>4, <2>3 DEF Lists
    <2>6. Least(items) = i
        BY <2>4, <2>5, LeastIs
    <2> QED
        BY <1>5, <1>7, <2>2, <2>4, <2>6
<1> QED
    BY <1>6, <1>7

\* The operators of the directory, for its entries.
LEMMA ListingHere == Ls = LsOf(slots) /\ Listing = ListingOf(slots)
<1>1. \A o : HasInfo(o) <=> HasInfoIn(slots, o)
    BY DEF HasInfo, HasInfoIn
<1>2. \A o : Info(o) = InfoIn(slots, o)
    BY DEF Info, InfoIn
<1>3. Ls = LsOf(slots)
    BY <1>1, <1>2 DEF Ls, LsOf, LsFrom, LsStep
<1>4. Listing = ListingOf(slots)
    BY <1>3 DEF Listing, ListingOf
<1> QED
    BY <1>3, <1>4

-----------------------------------------------------------------------------
(* Files and their clusters.                                               *)

FilesOf(d, place) == [n \in Names |-> IF place[n] = 0 THEN NONE ELSE FileAt(d, place, n)]

IsFileOf(f, n) == f \in File /\ f # NONE /\ <<n, f.kind>> \in Kinds

\* What FilesOf says of a name is its file.
LEMMA FilesAre ==
    ASSUME NamesApart, NEW d, NEW place, NEW full, Laid(d, place, full), NEW n \in Names
    PROVE  /\ place[n] = 0 => FilesOf(d, place)[n] = NONE
           /\ place[n] # 0 => /\ FilesOf(d, place)[n] = FileAt(d, place, n)
                              /\ IsFileOf(FilesOf(d, place)[n], n)
<1>1. CASE place[n] = 0
    BY <1>1 DEF FilesOf
<1>2. CASE place[n] # 0
    <2>1. FilesOf(d, place)[n] = FileAt(d, place, n)
        BY <1>2 DEF FilesOf
    <2>2. ShortOK(d[place[n] + Num(n)], n)
        BY <1>2 DEF Laid, Group
    <2>3. PICK f : f = FileAt(d, place, n)
        OBVIOUS
    <2>4. f = [kind |-> d[place[n] + Num(n)].kind, first |-> d[place[n] + Num(n)].first]
        BY <2>3 DEF FileAt
    <2>5. <<n, d[place[n] + Num(n)].kind>> \in Kinds /\ d[place[n] + Num(n)].first \in Clusters
        BY <2>2 DEF ShortOK
    <2>6. d[place[n] + Num(n)].kind \in {"file", "dir"}
        BY <2>5, NamesAssumption
    <2>7. f \in File /\ f.kind = d[place[n] + Num(n)].kind
        BY <2>4, <2>5, <2>6 DEF File
    <2>8. f # NONE
        BY <2>7, NoneAssumption
    <2>9. IsFileOf(f, n)
        BY <2>5, <2>7, <2>8 DEF IsFileOf
    <2> QED
        BY <1>2, <2>1, <2>3, <2>9
<1> QED
    BY <1>1, <1>2

\* A directory whose files are as before, and one with a file more or less.
LEMMA FilesStay ==
    ASSUME NEW d, NEW place, NEW u, Survive(d, place, u)
    PROVE  FilesOf(u, place) = FilesOf(d, place)
BY DEF FilesOf, FileAt, Survive

\* A file more.
LEMMA FilesGrow ==
    ASSUME NEW d, NEW place \in [Names -> Nat], NEW u, NEW n \in Names, NEW at \in Nat \ {0},
           NEW new, Changed(place, n, at, new), place[n] = 0, Survive(d, place, u),
           NEW kind, NEW first, EndsWith(u, n, at, kind, first),
           NEW f, f = [kind |-> kind, first |-> first],
           NEW F, F = FilesOf(d, place), NEW G, Changed(F, n, f, G)
    PROVE  FilesOf(u, new) = G
<1> USE DEF Changed
<1>2. new[n] = at /\ \A m \in Names : m # n => new[m] = place[m]
    OBVIOUS
<1>3. FileAt(u, new, n) = f
    BY <1>2 DEF FileAt, Short, EndsWith
<1>5. F = [m \in Names |-> F[m]] /\ \A m \in Names : F[m] = IF place[m] = 0 THEN NONE ELSE FileAt(d, place, m)
    BY DEF FilesOf
<1>6. ASSUME NEW m \in Names
      PROVE  FilesOf(u, new)[m] = IF m = n THEN f ELSE F[m]
    <2>1. CASE m = n
        BY <1>2, <1>3, <2>1 DEF FilesOf
    <2>2. CASE m # n
        <3>1. place[m] # 0 => FileAt(u, new, m) = FileAt(d, place, m)
            BY <1>2, <2>2 DEF FileAt, Survive
        <3> QED
            BY <1>2, <1>5, <2>2, <3>1 DEF FilesOf
    <2> QED
        BY <2>1, <2>2
<1>7. FilesOf(u, new) = [m \in Names |-> FilesOf(u, new)[m]]
    BY DEF FilesOf
<1>8. FilesOf(u, new) = [m \in Names |-> IF m = n THEN f ELSE F[m]]
    BY <1>6, <1>7
<1> QED
    BY <1>5, <1>8

\* A file less.
LEMMA FilesShrink ==
    ASSUME NEW d, NEW place \in [Names -> Nat], NEW u, NEW n \in Names,
           NEW new, Changed(place, n, 0, new), SurviveBut(n, d, place, u),
           NEW F, F = FilesOf(d, place), NEW G, Changed(F, n, NONE, G)
    PROVE  FilesOf(u, new) = G
<1> USE DEF Changed
<1>2. new[n] = 0 /\ \A m \in Names : m # n => new[m] = place[m]
    OBVIOUS
<1>5. F = [m \in Names |-> F[m]] /\ \A m \in Names : F[m] = IF place[m] = 0 THEN NONE ELSE FileAt(d, place, m)
    BY DEF FilesOf
<1>6. ASSUME NEW m \in Names
      PROVE  FilesOf(u, new)[m] = IF m = n THEN NONE ELSE F[m]
    <2>1. CASE m = n
        BY <1>2, <2>1 DEF FilesOf
    <2>2. CASE m # n
        <3>1. place[m] # 0 => FileAt(u, new, m) = FileAt(d, place, m)
            BY <1>2, <2>2 DEF FileAt, SurviveBut
        <3> QED
            BY <1>2, <1>5, <2>2, <3>1 DEF FilesOf
    <2> QED
        BY <2>1, <2>2
<1>7. FilesOf(u, new) = [m \in Names |-> FilesOf(u, new)[m]]
    BY DEF FilesOf
<1>8. FilesOf(u, new) = [m \in Names |-> IF m = n THEN NONE ELSE F[m]]
    BY <1>6, <1>7
<1> QED
    BY <1>5, <1>8

\* The files have clusters of their own, with their owners' bytes in them.
OwnBytes(f, n) == IF f.kind = "dir" THEN {DOTS} ELSE {CLEAR, n}

Owned(F, fr, data) ==
    /\ F = [n \in Names |-> F[n]]
    /\ \A n \in Names : F[n] # NONE => F[n].first \notin fr /\ data[F[n].first] \in OwnBytes(F[n], n)
    /\ \A m, n \in Names : F[m] # NONE /\ F[n] # NONE /\ F[m].first = F[n].first => m = n

SameBytes(F, data, now) == \A m \in Names : F[m] # NONE => now[F[m].first] = data[F[m].first]

Clean(kind, c, now) == now[c] = IF kind = "dir" THEN DOTS ELSE CLEAR

\* Clusters stay owned while nobody writes them.
LEMMA OwnedStays ==
    ASSUME NEW F, NEW fr, NEW data, Owned(F, fr, data), NEW new, NEW now,
           new \subseteq fr, \A x : x \notin fr => now[x] = data[x]
    PROVE  Owned(F, new, now)
BY DEF Owned

\* A new file gets a free cluster to itself.
LEMMA OwnedGrows ==
    ASSUME NEW F, NEW fr, NEW data, Owned(F, fr, data), NEW new, NEW now,
           new \subseteq fr, SameBytes(F, data, now),
           NEW n \in Names, NEW kind, NEW c \in fr, c \notin new, Clean(kind, c, now),
           NEW f, f = [kind |-> kind, first |-> c], NEW G, G = [F EXCEPT ![n] = f]
    PROVE  Owned(G, new, now)
<1>1. /\ F = [m \in Names |-> F[m]]
      /\ \A m \in Names : F[m] # NONE => F[m].first \notin fr /\ data[F[m].first] \in OwnBytes(F[m], m)
      /\ \A l, m \in Names : F[l] # NONE /\ F[m] # NONE /\ F[l].first = F[m].first => l = m
    BY DEF Owned
<1>2. \A m \in Names : G[m] = IF m = n THEN f ELSE F[m]
    BY <1>1
<1>3. G = [m \in Names |-> G[m]]
    <2>1. G = [m \in Names |-> IF m = n THEN f ELSE F[m]]
        BY <1>1
    <2> QED
        BY <2>1
<1>4. f.first = c /\ f.kind = kind
    OBVIOUS
<1>5. ASSUME NEW m \in Names, G[m] # NONE
      PROVE  G[m].first \notin new /\ now[G[m].first] \in OwnBytes(G[m], m)
    <2>1. CASE m = n
        <3>1. G[m] = f
            BY <1>2, <2>1
        <3>2. now[c] \in OwnBytes(f, m)
            BY <1>4, <2>1 DEF OwnBytes, Clean
        <3> QED
            BY <1>4, <3>1, <3>2
    <2>2. CASE m # n
        BY <1>1, <1>2, <1>5, <2>2 DEF SameBytes
    <2> QED
        BY <2>1, <2>2
<1>6. ASSUME NEW l \in Names, NEW m \in Names, G[l] # NONE, G[m] # NONE, G[l].first = G[m].first
      PROVE  l = m
    BY <1>1, <1>2, <1>4, <1>6
<1> QED
    BY <1>3, <1>5, <1>6 DEF Owned

\* The cluster of a deleted file is free and nobody else had it.
LEMMA OwnedShrinks ==
    ASSUME NEW F, NEW fr, NEW data, Owned(F, fr, data), NEW n \in Names, F[n] # NONE,
           NEW new, new = fr \cup {F[n].first}, NEW G, G = [F EXCEPT ![n] = NONE]
    PROVE  Owned(G, new, data)
<1>1. /\ F = [m \in Names |-> F[m]]
      /\ \A m \in Names : F[m] # NONE => F[m].first \notin fr /\ data[F[m].first] \in OwnBytes(F[m], m)
      /\ \A l, m \in Names : F[l] # NONE /\ F[m] # NONE /\ F[l].first = F[m].first => l = m
    BY DEF Owned
<1>2. \A m \in Names : G[m] = IF m = n THEN NONE ELSE F[m]
    BY <1>1
<1>3. G = [m \in Names |-> G[m]]
    <2>1. G = [m \in Names |-> IF m = n THEN NONE ELSE F[m]]
        BY <1>1
    <2> QED
        BY <2>1
<1>4. \A m \in Names : G[m] # NONE => m # n /\ G[m] = F[m] /\ F[m].first # F[n].first
    BY <1>1, <1>2
<1>5. ASSUME NEW m \in Names, G[m] # NONE
      PROVE  G[m].first \notin new /\ data[G[m].first] \in OwnBytes(G[m], m)
    BY <1>1, <1>4, <1>5
<1>6. ASSUME NEW l \in Names, NEW m \in Names, G[l] # NONE, G[m] # NONE, G[l].first = G[m].first
      PROVE  l = m
    BY <1>1, <1>4, <1>6
<1> QED
    BY <1>3, <1>5, <1>6 DEF Owned

\* A write changes the bytes of one file.
LEMMA OwnedWritten ==
    ASSUME NEW F, NEW fr, NEW data \in [Clusters -> Contents], Owned(F, fr, data),
           NEW n \in Names, F[n] # NONE, F[n].kind = "file",
           \A m \in Names : F[m] # NONE => F[m].first \in Clusters,
           NEW now, now = [data EXCEPT ![F[n].first] = n]
    PROVE  Owned(F, fr, now)
<1>1. /\ F = [m \in Names |-> F[m]]
      /\ \A m \in Names : F[m] # NONE => F[m].first \notin fr /\ data[F[m].first] \in OwnBytes(F[m], m)
      /\ \A l, m \in Names : F[l] # NONE /\ F[m] # NONE /\ F[l].first = F[m].first => l = m
    BY DEF Owned
<1>2. PICK c \in Clusters : c = F[n].first
    OBVIOUS
<1>3. \A x \in Clusters : now[x] = IF x = c THEN n ELSE data[x]
    BY <1>2
<1>4. ASSUME NEW m \in Names, F[m] # NONE
      PROVE  F[m].first \notin fr /\ now[F[m].first] \in OwnBytes(F[m], m)
    <2>1. CASE m = n
        BY <1>1, <1>2, <1>3, <2>1 DEF OwnBytes
    <2>2. CASE m # n
        <3>1. F[m].first # c /\ F[m].first \in Clusters
            BY <1>1, <1>2, <1>4, <2>2
        <3> QED
            BY <1>1, <1>3, <1>4, <3>1
    <2> QED
        BY <2>1, <2>2
<1> QED
    BY <1>1, <1>4 DEF Owned

-----------------------------------------------------------------------------
(* The invariant.                                                          *)

\* The delete of VFile h has stopped half-way.
Half(d, h) == h # NONE /\ RunsOver(h) /\ d[h.long].del

\* A VFile a caller has is the place of its file, unless its delete panicked.
HoldsOne(d, place, n, h, pk) ==
    \/ place[n] # 0 /\ h = Where(place, n)
    \/ pk = TRUE /\ Half(d, h) /\ h.short \in 1 .. Len(d)

Holds(d, place, hd, pk) == \A n \in Names : hd[n] # NONE => HoldsOne(d, place, n, hd[n], pk)

\* What a panic leaves behind: no cluster that create could have, or a file
\* deleted half-way.
Explained(d, fr, ct, hd) ==
    fr = {} \/ ct \in {NONE, 0} \/ \E n \in Names : Half(d, hd[n])

\* The state, given the places of the files.
Good(d, fr, ct, data, hd, pk, place) ==
    /\ Laid(d, place, pk)
    /\ Owned(FilesOf(d, place), fr, data)
    /\ Holds(d, place, hd, pk)
    /\ hd = [n \in Names |-> hd[n]]
    /\ fr \subseteq Clusters /\ Known(ct) /\ data \in [Clusters -> Contents]
    /\ pk \in BOOLEAN /\ (pk = TRUE => Explained(d, fr, ct, hd))

Inv ==
    /\ \E place : Good(slots, free, count, content, held, panicked, place)
    /\ ret = NONE \/ ret \in File

-----------------------------------------------------------------------------
(* create.                                                                 *)

\* e is d with empty entries behind it.
IsLonger(d, e) ==
    /\ IsSeq(e) /\ Len(d) <= Len(e) /\ Whole(Len(e))
    /\ \A i \in 1 .. Len(e) : e[i] = IF i <= Len(d) THEN d[i] ELSE Empty

\* Clusters added are empty entries behind the others.
LEMMA Begun ==
    ASSUME NEW d, IsSeq(d), Whole(Len(d)), NEW g \in Nat, NEW e, e = Extended(d, g)
    PROVE  IsLonger(d, e)
<1>1. PICK m \in Nat : m = g * SlotsPerCluster
    BY WholeGrows
<1>2. /\ IsSeq(e) /\ Len(e) = Len(d) + m
      /\ \A i \in 1 .. Len(e) : e[i] = IF i <= Len(d) THEN d[i] ELSE Empty
    BY <1>1, ExtendedIs
<1>3. Whole(Len(d) + g * SlotsPerCluster)
    BY WholeGrows
<1>4. Len(d) \in Nat
    BY SeqFacts
<1>5. Len(d) <= Len(e) /\ Whole(Len(e))
    BY <1>1, <1>2, <1>3, <1>4
<1> QED
    BY <1>2, <1>5 DEF IsLonger

\* Entries written into a directory that grew are written into the one before.
LEMMA WrittenFurther ==
    ASSUME NEW d, IsSeq(d), NEW e, IsLonger(d, e), NEW at \in Nat, NEW p, NEW w \in Nat, NEW u,
           Written(e, at, p, w, u)
    PROVE  Written(d, at, p, w, u)
<1>1. IsSeq(e) /\ Len(d) <= Len(e) /\ Len(d) \in Nat /\ Len(e) \in Nat
    BY SeqFacts DEF IsLonger
<1>2. IsSeq(u) /\ Len(e) <= Len(u) /\ Whole(Len(u)) /\ at + w <= Len(u) + 1 /\ Len(u) \in Nat
    BY SeqFacts DEF Written
<1>3. ASSUME NEW i \in 1 .. Len(u)
      PROVE  u[i] = IF at <= i /\ i < at + w THEN p[i - at + 1]
                    ELSE IF i <= Len(d) THEN d[i] ELSE Empty
    <2>1. u[i] = IF at <= i /\ i < at + w THEN p[i - at + 1]
                 ELSE IF i <= Len(e) THEN e[i] ELSE Empty
        BY DEF Written
    <2>2. i <= Len(e) => e[i] = IF i <= Len(d) THEN d[i] ELSE Empty
        BY <1>1 DEF IsLonger
    <2>3. i <= Len(d) => i <= Len(e)
        BY <1>1
    <2> QED
        BY <2>1, <2>2, <2>3
<1>4. Len(d) <= Len(u)
    BY <1>1, <1>2
<1> QED
    BY <1>2, <1>3, <1>4 DEF Written

\* Growth alone writes no entry.
LEMMA NothingWritten ==
    ASSUME NEW d, NEW e, IsLonger(d, e), NEW p
    PROVE  Written(d, Len(e) + 1, p, 0, e)
<1>1. IsSeq(e) /\ Len(e) \in Nat
    BY SeqFacts DEF IsLonger
<1>2. \A i \in 1 .. Len(e) : ~(Len(e) + 1 <= i)
    BY <1>1
<1>3. Len(e) + 1 + 0 <= Len(e) + 1
    BY <1>1
<1> QED
    BY <1>2, <1>3 DEF IsLonger, Written

\* The bytes now are data, but for what was free.
Spares(fr, data, now) ==
    now \in [Clusters -> Contents] /\ \A x \in Clusters \ fr : now[x] = data[x]

SameFiles(d, place, u) == FilesOf(u, place) = FilesOf(d, place)

Stopped(n, at, w, u) == w # Num(n) + 1 /\ at + w = Len(u) + 1

\* What a create of a new name, which has a place at `at`, begins with.
Begins(d, fr, ct, data, hd, place, n, at, kind) ==
    /\ Good(d, fr, ct, data, hd, FALSE, place)
    /\ n \in Names /\ place[n] = 0 /\ <<n, kind>> \in Kinds
    /\ at \in Nat \ {0} /\ Room(d, at, Num(n))

\* It ends after w entries, where no cluster is to be had; or with all of them.
Fails(d, fr, ct, data, hd, place, n, at, kind, first, w, u, now, left, num, full) ==
    /\ Begins(d, fr, ct, data, hd, place, n, at, kind)
    /\ w \in 0 .. Num(n) + 1 /\ Stopped(n, at, w, u)
    /\ Written(d, at, Entries(n, kind, first), w, u)
    /\ Spares(fr, data, now) /\ left \subseteq fr
    /\ Known(num) /\ (left = {} \/ num \in {NONE, 0}) /\ full = TRUE

Succeeds(d, fr, ct, data, hd, place, n, at, kind, c, u, new, left, f, now, num, has) ==
    /\ Begins(d, fr, ct, data, hd, place, n, at, kind)
    /\ c \in fr /\ Written(d, at, Entries(n, kind, c), Num(n) + 1, u)
    /\ Changed(place, n, at, new)
    /\ left \subseteq fr \ {c} /\ f = [kind |-> kind, first |-> c]
    /\ Spares(fr, data, now) /\ Clean(kind, c, now)
    /\ Known(num) /\ Changed(hd, n, Where(new, n), has)

\* A create that fails leaves the files as they were, and no cluster to be had.
LEMMA CreateFails ==
    ASSUME NamesApart, NEW d, NEW fr, NEW ct, NEW data, NEW hd, NEW place,
           NEW n, NEW at, NEW kind, NEW first, NEW w, NEW u, NEW now, NEW left, NEW num, NEW full,
           Fails(d, fr, ct, data, hd, place, n, at, kind, first, w, u, now, left, num, full)
    PROVE  Good(u, left, num, now, hd, full, place) /\ SameFiles(d, place, u)
<1> SUFFICES ASSUME Good(d, fr, ct, data, hd, FALSE, place), n \in Names, place[n] = 0,
                    at \in Nat \ {0}, Room(d, at, Num(n)), <<n, kind>> \in Kinds,
                    w \in 0 .. Num(n) + 1, Stopped(n, at, w, u),
                    Written(d, at, Entries(n, kind, first), w, u),
                    Spares(fr, data, now), left \subseteq fr,
                    Known(num), left = {} \/ num \in {NONE, 0}, full = TRUE
             PROVE  Good(u, left, num, now, hd, full, place) /\ SameFiles(d, place, u)
    BY DEF Fails, Begins
<1>1. /\ Laid(d, place, FALSE) /\ Owned(FilesOf(d, place), fr, data)
      /\ fr \subseteq Clusters /\ hd = [m \in Names |-> hd[m]]
    BY DEF Good
<1>2. Laid(u, place, TRUE) /\ Survive(d, place, u)
    <2>1. PICK t : t = TRUE
        OBVIOUS
    <2>2. Enough(n, at, w, u, t)
        BY <2>1 DEF Enough, Stopped
    <2>3. Placed(place, n, at, w, place)
        BY DEF Placed, Stopped
    <2>4. Given(n, w, first)
        BY DEF Given, Stopped
    <2>5. Laid(u, place, t) /\ Survive(d, place, u)
        BY <1>1, <2>2, <2>3, <2>4, CreateLays
    <2> QED
        BY <2>1, <2>5
<1>3. FilesOf(u, place) = FilesOf(d, place)
    BY <1>2, FilesStay
<1>4. PICK F : F = FilesOf(d, place)
    OBVIOUS
<1>5. Owned(F, left, now)
    <2>1. \A m \in Names : F[m] # NONE => F[m].first \in Clusters \ fr
        <3> TAKE m \in Names
        <3>1. F[m] = NONE \/ IsFileOf(F[m], m)
            BY <1>1, <1>4, FilesAre
        <3> QED
            BY <1>1, <1>4, <3>1 DEF IsFileOf, File, Owned
    <2> QED
        BY <1>1, <1>4, <2>1 DEF Owned, Spares
<1>6. Holds(u, place, hd, full)
    BY DEF Good, Holds, HoldsOne
<1>7. Explained(u, left, num, hd)
    BY DEF Explained
<1>8. left \subseteq Clusters /\ now \in [Clusters -> Contents]
    BY <1>1 DEF Spares
<1> QED
    BY <1>1, <1>2, <1>3, <1>4, <1>5, <1>6, <1>7, <1>8 DEF Good, SameFiles

\* A call that succeeds puts the file where the space is.
LEMMA CreateSucceeds ==
    ASSUME NamesApart, NEW d, NEW fr, NEW ct, NEW data, NEW hd, NEW place,
           NEW n, NEW at, NEW kind, NEW c, NEW u, NEW new, NEW left, NEW f, NEW now, NEW num, NEW has,
           Succeeds(d, fr, ct, data, hd, place, n, at, kind, c, u, new, left, f, now, num, has)
    PROVE  /\ Good(u, left, num, now, has, FALSE, new)
           /\ Changed(FilesOf(d, place), n, f, FilesOf(u, new))
<1> SUFFICES ASSUME Good(d, fr, ct, data, hd, FALSE, place), n \in Names, place[n] = 0,
                    at \in Nat \ {0}, Room(d, at, Num(n)), <<n, kind>> \in Kinds,
                    c \in fr, Written(d, at, Entries(n, kind, c), Num(n) + 1, u),
                    Changed(place, n, at, new),
                    left \subseteq fr \ {c}, f = [kind |-> kind, first |-> c],
                    Spares(fr, data, now), Clean(kind, c, now),
                    Known(num), Changed(hd, n, Where(new, n), has)
             PROVE  /\ Good(u, left, num, now, has, FALSE, new)
                    /\ Changed(FilesOf(d, place), n, f, FilesOf(u, new))
    BY DEF Succeeds, Begins
<1>1. /\ Laid(d, place, FALSE) /\ Owned(FilesOf(d, place), fr, data)
      /\ place \in [Names -> Nat] /\ fr \subseteq Clusters /\ Num(n) \in Nat
    <2>1. Laid(d, place, FALSE) /\ Owned(FilesOf(d, place), fr, data) /\ fr \subseteq Clusters
        BY DEF Good
    <2>2. Num(n) \in Nat
        BY PiecesAre
    <2> QED
        BY <2>1, <2>2 DEF Laid
<1>2. Laid(u, new, FALSE) /\ Survive(d, place, u) /\ EndsWith(u, n, at, kind, c)
    <2>1. PICK w \in 0 .. Num(n) + 1 : w = Num(n) + 1
        BY <1>1
    <2>2. PICK t : t = FALSE
        OBVIOUS
    <2>3. Enough(n, at, w, u, t)
        BY <2>1 DEF Enough
    <2>4. Placed(place, n, at, w, new)
        BY <2>1 DEF Placed, Changed
    <2>5. Given(n, w, c)
        BY <1>1 DEF Given
    <2>6. Written(d, at, Entries(n, kind, c), w, u)
        BY <2>1
    <2>7. Laid(u, new, t) /\ Survive(d, place, u) /\ Made(n, at, kind, c, w, u)
        BY <1>1, <2>3, <2>4, <2>5, <2>6, CreateLays
    <2> QED
        BY <2>1, <2>2, <2>7 DEF Made
<1>3. PICK F, G : F = FilesOf(d, place) /\ Changed(F, n, f, G)
    BY DEF Changed
<1>4. FilesOf(u, new) = G
    <2>1. Changed(F, n, f, G)
        BY <1>3
    <2>2. F = FilesOf(d, place)
        BY <1>3
    <2> HIDE <1>3
    <2> QED
        BY <1>1, <1>2, <2>1, <2>2, FilesGrow
<1>5. \A m \in Names : F[m] # NONE => F[m].first \in Clusters \ fr
    <2> TAKE m \in Names
    <2>1. F[m] = NONE \/ IsFileOf(F[m], m)
        BY <1>1, <1>3, FilesAre
    <2> QED
        BY <1>1, <1>3, <2>1 DEF IsFileOf, File, Owned
<1>6. Owned(FilesOf(u, new), left, now)
    <2>3. left \subseteq fr /\ c \notin left
        OBVIOUS
    <2>4. SameBytes(F, data, now)
        BY <1>5 DEF SameBytes, Spares
    <2>5. Owned(F, fr, data)
        BY <1>1, <1>3
    <2>6. Owned(G, left, now)
        BY <1>3, <2>3, <2>4, <2>5, OwnedGrows DEF Changed
    <2> QED
        BY <1>4, <2>6
<1>7. /\ hd = [m \in Names |-> hd[m]]
      /\ \A m \in Names : hd[m] # NONE => place[m] # 0 /\ hd[m] = Where(place, m)
    BY DEF Good, Holds, HoldsOne
<1>8. Holds(u, new, has, FALSE)
    <2> SUFFICES ASSUME NEW m \in Names, has[m] # NONE
                 PROVE  new[m] # 0 /\ has[m] = Where(new, m)
        BY DEF Holds, HoldsOne
    <2>1. CASE m = n
        BY <1>1, <1>7, <2>1 DEF Changed
    <2>2. CASE m # n
        <3>1. has[m] = hd[m] /\ new[m] = place[m]
            BY <1>1, <1>7, <2>2 DEF Changed
        <3> QED
            BY <1>7, <3>1 DEF Where
    <2> QED
        BY <2>1, <2>2
<1>9. has = [m \in Names |-> has[m]]
    <2>1. has = [m \in Names |-> IF m = n THEN Where(new, n) ELSE hd[m]]
        BY <1>7 DEF Changed
    <2> QED
        BY <2>1
<1>10. left \subseteq Clusters
    BY <1>1
<1> QED
    BY <1>2, <1>3, <1>4, <1>6, <1>8, <1>9, <1>10 DEF Good, Spares

\* What the writes of create come to: st is where they end.
Ended(d, at, p, N, u) ==
    \E w \in 0 .. N : w # N /\ Written(d, at, p, w, u) /\ at + w = Len(u) + 1

Outcome(d, at, p, N, st) ==
    /\ st.ok \in BOOLEAN
    /\ st.ok => Written(d, at, p, N, st.d)
    /\ ~st.ok => NoneLeft(st.avail, st.known) /\ Ended(d, at, p, N, st.d)

\* The entries that create writes end in its place, or at the end of the space.
LEMMA CreateWrites ==
    ASSUME NEW d, IsSeq(d), NEW e, IsLonger(d, e), NEW at \in 1 .. Len(d) + 1,
           NEW avail \in Nat, NEW known, Known(known), NEW p, NEW N \in Nat, DOMAIN p = 1 .. N,
           NEW b, b = [d |-> e, at |-> at, avail |-> avail, known |-> known, ok |-> TRUE],
           NEW st, st = WriteEntries(b, p)
    PROVE  Outcome(d, at, p, N, st) /\ st.avail \in Nat /\ Known(st.known)
<1>1. IsSeq(e) /\ Whole(Len(e)) /\ Len(e) \in Nat /\ Len(d) \in Nat /\ Len(d) <= Len(e)
    BY SeqFacts DEF IsLonger
<1>2. at \in 1 .. Len(e) + 1
    BY <1>1
<1>3. PICK w \in 0 .. N : AfterWrites(st, e, at, avail, p, N, w)
    BY <1>1, <1>2, WritesAll
<1>4. at \in Nat /\ w \in Nat
    BY <1>1
<1>5. Written(e, at, p, w, st.d)
    BY <1>3 DEF AfterWrites
<1>6. Written(d, at, p, w, st.d)
    <2>1. PICK u : u = st.d
        OBVIOUS
    <2>2. Written(e, at, p, w, u)
        BY <1>5, <2>1
    <2>3. Written(d, at, p, w, u)
        BY <1>4, <2>2, WrittenFurther
    <2> QED
        BY <2>1, <2>3
<1>7. st.avail \in 0 .. avail /\ Known(st.known) /\ st.ok \in BOOLEAN
    BY <1>3 DEF AfterWrites
<1>8. st.ok => w = N
    BY <1>3 DEF AfterWrites
<1>9. ~st.ok => w # N /\ NoneLeft(st.avail, st.known) /\ at + w = Len(st.d) + 1
    BY <1>3 DEF AfterWrites
<1>10. st.avail \in Nat
    BY <1>7
<1> QED
    BY <1>6, <1>7, <1>8, <1>9, <1>10 DEF Outcome, Ended

\* A part of a finite set that is as large as the set.
LEMMA WholePart ==
    ASSUME NEW S, IsFiniteSet(S), NEW T \in SUBSET S, Cardinality(T) = Cardinality(S)
    PROVE  T = S
BY FS_Subset

\* What create does to the files F and to what the last call returned, r.
CreateEffect(n, kind, F, fr, r, G, s) ==
    \/ s = r /\ G = F
    \/ /\ s \in File /\ s.kind = kind /\ s.first \in fr
       /\ F[n] = NONE /\ Changed(F, n, s, G)

\* The bytes before . and .. are written, or instead of that.
Bytes(fr, data, own, c) ==
    [x \in Clusters |-> IF x \in own THEN ENTRIES ELSE [data EXCEPT ![c] = CLEAR][x]]

\* create clears the new cluster and spares those in use.
LEMMA BytesAre ==
    ASSUME NEW fr \in SUBSET Clusters, NEW data \in [Clusters -> Contents], NEW c \in fr,
           NEW own \in SUBSET (fr \ {c}), NEW b, b = Bytes(fr, data, own, c)
    PROVE  Spares(fr, data, b) /\ b[c] = CLEAR
<1>1. \A x \in Clusters : b[x] = IF x \in own THEN ENTRIES ELSE IF x = c THEN CLEAR ELSE data[x]
    BY DEF Bytes
<1>2. CLEAR \in Contents /\ ENTRIES \in Contents
    BY DEF Contents
<1>3. \A x \in Clusters : b[x] \in Contents
    BY <1>1, <1>2
<1>4. b = [x \in Clusters |-> b[x]]
    BY DEF Bytes
<1> QED
    BY <1>1, <1>3, <1>4 DEF Spares

\* Where create ends, when its writes end in st.
Results(n, kind, c, fr, data, hd, r, st, left, num, now, has, s, full) ==
    LET v  == FindByName(n, st.d)
        ok == st.ok /\ v # NONE
    IN  \E own \in SUBSET (fr \ {c}) :
            /\ Cardinality(own) = Cardinality(fr) - 1 - st.avail
            /\ left = fr \ ({c} \cup own)
            /\ num = st.known
            /\ now = IF ok THEN WithDots(v, kind, st.d, Bytes(fr, data, own, c))
                     ELSE Bytes(fr, data, own, c)
            /\ has = IF ok THEN [hd EXCEPT ![n] = v] ELSE hd
            /\ s = IF ok THEN Found(v, st.d) ELSE r
            /\ full = ~ok

\* create as a whole: the file is there and found, or no cluster can be had.
LEMMA CreateDone ==
    ASSUME NamesApart, NEW d, NEW fr, NEW ct, NEW data, NEW hd, NEW place,
           NEW n, NEW at, NEW kind, Begins(d, fr, ct, data, hd, place, n, at, kind),
           NEW c \in fr, NEW st, Outcome(d, at, Entries(n, kind, c), Num(n) + 1, st), Known(st.known),
           NEW left, NEW num, NEW now, NEW has, NEW r, NEW s, NEW full,
           Results(n, kind, c, fr, data, hd, r, st, left, num, now, has, s, full)
    PROVE  \E new : /\ Good(st.d, left, num, now, has, full, new)
                    /\ CreateEffect(n, kind, FilesOf(d, place), fr, r, FilesOf(st.d, new), s)
<1> SUFFICES ASSUME Good(d, fr, ct, data, hd, FALSE, place), n \in Names, place[n] = 0,
                    at \in Nat \ {0}, Room(d, at, Num(n)), <<n, kind>> \in Kinds
             PROVE  \E new :
                        /\ Good(st.d, left, num, now, has, full, new)
                        /\ CreateEffect(n, kind, FilesOf(d, place), fr, r, FilesOf(st.d, new), s)
    BY DEF Begins
<1>a. PICK v, ok : v = FindByName(n, st.d) /\ ok = (st.ok /\ v # NONE)
    OBVIOUS
<1>b. PICK own \in SUBSET (fr \ {c}) :
            /\ Cardinality(own) = Cardinality(fr) - 1 - st.avail
            /\ left = fr \ ({c} \cup own)
            /\ num = st.known
            /\ now = IF ok THEN WithDots(v, kind, st.d, Bytes(fr, data, own, c))
                     ELSE Bytes(fr, data, own, c)
            /\ has = IF ok THEN [hd EXCEPT ![n] = v] ELSE hd
            /\ s = IF ok THEN Found(v, st.d) ELSE r
            /\ full = ~ok
    BY <1>a DEF Results
<1>c. PICK b : b = Bytes(fr, data, own, c)
    OBVIOUS
<1>1. /\ fr \in SUBSET Clusters /\ data \in [Clusters -> Contents]
      /\ Laid(d, place, FALSE) /\ place \in [Names -> Nat]
    BY DEF Good, Laid
<1>2. Spares(fr, data, b) /\ b[c] = CLEAR
    BY <1>1, <1>c, BytesAre
<1>3. PICK u : u = st.d
    OBVIOUS
<1>4. Num(n) \in Nat
    BY PiecesAre
<1>5. ASSUME ~st.ok
      PROVE  /\ Good(u, left, num, now, has, full, place)
             /\ CreateEffect(n, kind, FilesOf(d, place), fr, r, FilesOf(u, place), s)
    <2>1. ok = FALSE /\ full = TRUE /\ now = b /\ has = hd /\ s = r
        BY <1>5, <1>a, <1>b, <1>c
    <2>2. left = {} \/ num \in {NONE, 0}
        <3> SUFFICES ASSUME ~(num \in {NONE, 0}) PROVE left = {}
            OBVIOUS
        <3>1. IsFiniteSet(fr)
            BY <1>1, ClustersAssumption, FS_Subset
        <3>2. IsFiniteSet(fr \ {c}) /\ Cardinality(fr \ {c}) = Cardinality(fr) - 1
            BY <3>1, FS_RemoveElement
        <3>3. Cardinality(fr) \in Nat
            BY <3>1, FS_CardinalityType
        <3>4. st.avail = 0
            BY <1>5, <1>b DEF Outcome, NoneLeft
        <3>5. Cardinality(own) = Cardinality(fr \ {c})
            BY <1>b, <3>2, <3>3, <3>4
        <3>6. own = fr \ {c}
            BY <3>2, <3>5, WholePart
        <3> QED
            BY <1>b, <3>6
    <2>3. Ended(d, at, Entries(n, kind, c), Num(n) + 1, u)
        BY <1>3, <1>5 DEF Outcome
    <2>4. PICK w \in 0 .. Num(n) + 1 :
              Stopped(n, at, w, u) /\ Written(d, at, Entries(n, kind, c), w, u)
        BY <2>3 DEF Ended, Stopped
    <2>a. left \subseteq fr /\ Known(num)
        BY <1>b
    <2>5. Good(u, left, num, b, hd, full, place) /\ SameFiles(d, place, u)
        <3>1. Fails(d, fr, ct, data, hd, place, n, at, kind, c, w, u, b, left, num, full)
            BY <1>2, <2>1, <2>2, <2>4, <2>a DEF Fails, Begins
        <3> QED
            BY <3>1, CreateFails
    <2> QED
        BY <2>1, <2>2, <2>5 DEF CreateEffect, SameFiles
<1>6. ASSUME st.ok
      PROVE  \E new : /\ Good(u, left, num, now, has, full, new)
                      /\ CreateEffect(n, kind, FilesOf(d, place), fr, r, FilesOf(u, new), s)
    <2>1. Written(d, at, Entries(n, kind, c), Num(n) + 1, u)
        BY <1>3, <1>6 DEF Outcome
    <2>2. PICK new : Changed(place, n, at, new)
        BY DEF Changed
    <2>3. PICK f : f = [kind |-> kind, first |-> c]
        OBVIOUS
    <2>4. new[n] = at /\ new \in [Names -> Nat]
        BY <1>1, <2>2 DEF Changed
    <2>5. PICK g : Changed(hd, n, Where(new, n), g)
        BY DEF Changed
    <2>6. PICK y : y = IF kind = "dir" THEN [b EXCEPT ![c] = DOTS] ELSE b
        OBVIOUS
    <2>7. Spares(fr, data, y) /\ Clean(kind, c, y)
        <3>1. DOTS \in Contents
            BY DEF Contents
        <3>2. c \in Clusters
            BY <1>1
        <3> QED
            BY <1>2, <2>6, <3>1, <3>2 DEF Clean, Spares
    <2>8. left \subseteq fr \ {c} /\ Known(num)
        BY <1>b
    <2>9. Good(u, left, num, y, g, FALSE, new) /\ Changed(FilesOf(d, place), n, f, FilesOf(u, new))
        <3>1. Succeeds(d, fr, ct, data, hd, place, n, at, kind, c, u, new, left, f, y, num, g)
            BY <2>1, <2>2, <2>3, <2>5, <2>7, <2>8 DEF Succeeds, Begins
        <3> QED
            BY <3>1, CreateSucceeds
    <2>10. v = Where(new, n) /\ v # NONE
        <3>1. Laid(u, new, FALSE)
            BY <2>9 DEF Good
        <3>2. /\ FindByName(n, u) = Where(new, n)
              /\ new[n] # 0 => FindByName(n, u) # NONE
            BY <3>1, FindsByName
        <3> QED
            BY <1>3, <1>a, <2>4, <3>2
    <2>11. ok = TRUE /\ full = FALSE
        BY <1>6, <1>a, <1>b, <2>10 DEF Outcome
    <2>12. Found(v, u) = f
        <3>1. FilesOf(u, new)[n] = FileAt(u, new, n)
            BY <2>4 DEF FilesOf
        <3>2. FilesOf(u, new)[n] = f
            <4>1. FilesOf(d, place) = [m \in Names |-> FilesOf(d, place)[m]]
                BY DEF FilesOf
            <4> QED
                BY <2>9, <4>1 DEF Changed
        <3>3. Found(v, u) = FileAt(u, new, n)
            BY <2>4, <2>10 DEF Found, FileAt, Where, VFile
        <3> QED
            BY <3>1, <3>2, <3>3
    <2>13. now = y /\ has = g /\ s = f
        <3>1. u[v.short].first = c
            BY <2>3, <2>12 DEF Found
        <3>2. WithDots(v, kind, u, b) = y
            BY <2>6, <3>1 DEF WithDots
        <3> QED
            BY <1>3, <1>b, <1>c, <2>5, <2>10, <2>11, <2>12, <3>2 DEF Changed
    <2>14. CreateEffect(n, kind, FilesOf(d, place), fr, r, FilesOf(u, new), s)
        <3>1. FilesOf(d, place)[n] = NONE
            BY DEF FilesOf
        <3>2. f \in File /\ f.kind = kind /\ f.first \in fr
            <4>1. c \in Clusters /\ kind \in {"file", "dir"}
                BY <1>1, NamesAssumption
            <4> QED
                BY <2>3, <4>1 DEF File
        <3>3. Changed(FilesOf(d, place), n, s, FilesOf(u, new))
            BY <2>9, <2>13
        <3> QED
            BY <2>13, <3>1, <3>2, <3>3 DEF CreateEffect
    <2> QED
        BY <2>9, <2>11, <2>13, <2>14
<1>7. st.ok \in BOOLEAN
    BY DEF Outcome
<1> QED
    BY <1>3, <1>5, <1>6, <1>7

\* The place create takes is free.
LEMMA PlaceIsFree ==
    ASSUME NamesApart, NEW d, IsSeq(d), NEW n \in Names, NEW at, at = FirstFit(Num(n) + 1, d)
    PROVE  at \in 1 .. Len(d) + 1 /\ at \in Nat \ {0} /\ Room(d, at, Num(n))
<1>1. Num(n) \in Nat /\ Len(d) \in Nat
    BY PiecesAre, SeqFacts
<1>2. PICK num \in Nat : num = Num(n) + 1
    BY <1>1
<1>3. at = FirstFit(num, d)
    BY <1>2
<1>4. at \in 1 .. Len(d) + 1 /\ \A i \in at .. at + num - 1 : i <= Len(d) => IsFree(d[i])
    BY <1>3, FirstFits
<1>5. at \in Nat \ {0}
    BY <1>1, <1>4
<1>6. \A i \in at .. at + Num(n) : i \in at .. at + num - 1
    BY <1>1, <1>2, <1>5
<1>7. Room(d, at, Num(n))
    BY <1>4, <1>6 DEF Room
<1> QED
    BY <1>4, <1>5, <1>7

AllGone(fr, data, left, now, full) ==
    /\ left = {} /\ full = TRUE
    /\ now = [c \in Clusters |-> IF c \in fr THEN ENTRIES ELSE data[c]]

\* A volume that is full when the directory has grown.
LEMMA CreateStops ==
    ASSUME NamesApart, NEW d, NEW fr, NEW ct, NEW data, NEW hd, NEW place,
           Good(d, fr, ct, data, hd, FALSE, place), NEW n \in Names, place[n] = 0,
           NEW kind, <<n, kind>> \in Kinds, NEW u, IsLonger(d, u),
           NEW left, NEW num, Known(num), NEW now, NEW full, AllGone(fr, data, left, now, full)
    PROVE  Good(u, left, num, now, hd, full, place) /\ SameFiles(d, place, u)
<1>1. Num(n) \in Nat /\ IsSeq(d) /\ IsSeq(u) /\ Len(d) \in Nat /\ Len(u) \in Nat /\ Len(d) <= Len(u)
    <2>1. IsSeq(d) /\ IsSeq(u) /\ Len(d) <= Len(u)
        BY DEF Good, Laid, IsLonger
    <2> QED
        BY <2>1, PiecesAre, SeqFacts
<1>2. PICK at \in Nat \ {0} : at = Len(u) + 1
    BY <1>1
<1>3. Room(d, at, Num(n))
    BY <1>1, <1>2 DEF Room
<1>4. PICK w \in 0 .. Num(n) + 1 : w = 0
    BY <1>1
<1>5. Stopped(n, at, w, u)
    BY <1>1, <1>2, <1>4 DEF Stopped
<1>6. \A first : Written(d, at, Entries(n, kind, first), w, u)
    BY <1>2, <1>4, NothingWritten
<1>7. Spares(fr, data, now)
    <2>1. ENTRIES \in Contents /\ data \in [Clusters -> Contents]
        BY DEF Contents, Good
    <2> QED
        BY <2>1 DEF Spares, AllGone
<1>8. left = {} /\ full = TRUE
    BY DEF AllGone
<1> QED
    <2>1. Begins(d, fr, ct, data, hd, place, n, at, kind)
        BY <1>2, <1>3 DEF Begins
    <2>2. Fails(d, fr, ct, data, hd, place, n, at, kind, NONE, w, u, now, left, num, full)
        BY <1>4, <1>5, <1>6, <1>7, <1>8, <2>1 DEF Fails
    <2> QED
        BY <2>2, CreateFails

\* A name that does not exist has no place.
LEMMA NewName ==
    ASSUME NamesApart, NEW d, NEW place, NEW full, Laid(d, place, full),
           NEW n \in Names, NEW kind, <<n, kind>> \in Kinds
    PROVE  IsAlreadyExist(n, kind, d) <=> place[n] # 0
<1>1. FindByName(n, d) = Where(place, n) /\ (place[n] # 0 => FindByName(n, d) # NONE)
    BY FindsByName
<1>2. ASSUME place[n] # 0 PROVE IsAlreadyExist(n, kind, d)
    <2>1. FindByName(n, d).short = place[n] + Num(n)
        BY <1>1, <1>2 DEF Where, VFile
    <2>2. <<n, d[place[n] + Num(n)].kind>> \in Kinds
        BY <1>2 DEF Laid, Group, ShortOK
    <2>3. d[place[n] + Num(n)].kind = kind
        <3>1. PICK k, l : k = <<n, d[place[n] + Num(n)].kind>> /\ l = <<n, kind>>
            OBVIOUS
        <3>2. k = l
            BY <2>2, <3>1 DEF NamesApart
        <3> QED
            BY <3>1, <3>2
    <2> QED
        BY <1>1, <1>2, <2>1, <2>3 DEF IsAlreadyExist
<1>3. ASSUME place[n] = 0 PROVE ~IsAlreadyExist(n, kind, d)
    BY <1>1, <1>3 DEF IsAlreadyExist, Where
<1> QED
    BY <1>2, <1>3

\* create of a new name leads to good places, or panics with no cluster to be had.
LEMMA CreateNewKeeps ==
    ASSUME NamesApart, NEW n, NEW kind, <<n, kind>> \in Kinds, NEW place,
           Good(slots, free, count, content, held, panicked, place), CreateNew(n, kind)
    PROVE  \E new : /\ Good(slots', free', count', content', held', panicked', new)
                    /\ CreateEffect(n, kind, FilesOf(slots, place), free, ret,
                                    FilesOf(slots', new), ret')
<1> DEFINE at == FirstFit(Num(n) + 1, slots)
           grown == IF at + (Num(n) + 1) - 1 <= Len(slots) THEN 0
                    ELSE Added(Len(slots) + (Num(n) + 1), Len(slots), Cardinality(free), count)
           e == Extended(slots, grown)
           left == Cardinality(free) - grown
           known == Fewer(count, grown)
           begun == [d |-> e, at |-> at, avail |-> left - 1, known |-> OneLess(known), ok |-> TRUE]
           st(c) == WriteEntries(begun, Entries(n, kind, c))
           v(c) == FindByName(n, st(c).d)
           ok(c) == st(c).ok /\ v(c) # NONE
<1>1. n \in Names /\ panicked = FALSE
    <2>1. n \in Names
        BY NamesAssumption
    <2> QED
        BY <2>1 DEF CreateNew, Good
<1>2. ~IsAlreadyExist(n, kind, slots)
    BY DEF CreateNew
<1>3. ASSUME left = 0
      PROVE  /\ slots' = e /\ free' = {} /\ count' = known /\ panicked' = TRUE
             /\ content' = [c \in Clusters |-> IF c \in free THEN ENTRIES ELSE content[c]]
             /\ held' = held /\ ret' = ret
    BY <1>3 DEF CreateNew, Num
<1>4. ASSUME left # 0
      PROVE  \E c \in free : \E own \in SUBSET (free \ {c}) :
                 /\ Cardinality(own) = Cardinality(free) - 1 - st(c).avail
                 /\ free' = free \ ({c} \cup own)
                 /\ count' = st(c).known
                 /\ slots' = st(c).d
                 /\ content' = IF ok(c) THEN WithDots(v(c), kind, st(c).d, Bytes(free, content, own, c))
                                        ELSE Bytes(free, content, own, c)
                 /\ held' = IF ok(c) THEN [held EXCEPT ![n] = v(c)] ELSE held
                 /\ ret' = IF ok(c) THEN Found(v(c), st(c).d) ELSE ret
                 /\ panicked' = ~ok(c)
    BY <1>4, ZenonT(60) DEF CreateNew, Num, Bytes, Allocated
<1>5. PICK d, fr, ct, data, hd, r : /\ d = slots /\ fr = free /\ ct = count /\ data = content
                                    /\ hd = held /\ r = ret
    OBVIOUS
<1>6. Good(d, fr, ct, data, hd, FALSE, place)
    BY <1>1, <1>5
<1>7. /\ Laid(d, place, FALSE) /\ IsSeq(d) /\ Whole(Len(d)) /\ fr \subseteq Clusters /\ Known(ct)
      /\ Len(d) \in Nat
    <2>1. Laid(d, place, FALSE) /\ IsSeq(d) /\ Whole(Len(d)) /\ fr \subseteq Clusters /\ Known(ct)
        BY <1>6 DEF Good, Laid
    <2> QED
        BY <2>1, SeqFacts
<1>8. place[n] = 0
    BY <1>1, <1>2, <1>5, <1>7, NewName
<1>9. PICK card \in Nat : card = Cardinality(fr)
    <2>1. IsFiniteSet(fr)
        BY <1>7, ClustersAssumption, FS_Subset
    <2> QED
        BY <2>1, FS_CardinalityType
<1>10. PICK num \in Nat : num = Num(n)
    BY <1>1, PiecesAre
<1>11. PICK a \in Nat \ {0} : a = at /\ a \in 1 .. Len(d) + 1 /\ Room(d, a, Num(n))
    <2>1. PICK x : x = FirstFit(Num(n) + 1, d)
        OBVIOUS
    <2>2. x \in 1 .. Len(d) + 1 /\ x \in Nat \ {0} /\ Room(d, x, Num(n))
        BY <1>1, <1>7, <2>1, PlaceIsFree
    <2> QED
        BY <1>5, <2>1, <2>2
<1>12. PICK g \in 0 .. card : g = grown /\ Known(Fewer(ct, g))
    <2>1. CASE at + (Num(n) + 1) - 1 <= Len(slots)
        <3>1. 0 \in 0 .. card /\ grown = 0
            BY <2>1
        <3>2. Known(Fewer(ct, 0))
            BY <1>7, CountsAre
        <3> HIDE DEF grown
        <3> QED
            BY <3>1, <3>2
    <2>2. CASE ~(at + (Num(n) + 1) - 1 <= Len(slots))
        <3>1. PICK size, cap \in Nat : size = Len(slots) + (Num(n) + 1) /\ cap = Len(slots)
            BY <1>5, <1>7, <1>10
        <3>2. size \in Nat
            BY <1>10, <3>1
        <3>3. PICK g : g = Added(size, cap, card, ct)
            OBVIOUS
        <3>4. g \in 0 .. card /\ Known(Fewer(ct, g))
            BY <1>7, <3>1, <3>2, <3>3, AddedIs
        <3>5. grown = g
            BY <1>5, <1>9, <2>2, <3>1, <3>3
        <3> HIDE DEF grown
        <3> QED
            BY <3>4, <3>5
    <2> QED
        BY <2>1, <2>2
<1>13. PICK u : u = e
    OBVIOUS
<1>14. IsLonger(d, u)
    <2>1. g \in Nat /\ u = Extended(d, g)
        BY <1>5, <1>12, <1>13
    <2> QED
        BY <1>7, <2>1, Begun
<1>15. left \in Nat
    BY <1>5, <1>9, <1>12
<1>16. CASE left = 0
    <2>1. PICK el, tr, now, d2, k2 : /\ el = free' /\ tr = panicked' /\ now = content'
                                     /\ d2 = slots' /\ k2 = count'
        OBVIOUS
    <2>2. /\ el = {} /\ tr = TRUE /\ d2 = u /\ k2 = Fewer(ct, g)
          /\ now = [c \in Clusters |-> IF c \in fr THEN ENTRIES ELSE data[c]]
        BY <1>3, <1>5, <1>12, <1>13, <1>16, <2>1
    <2>a. AllGone(fr, data, el, now, tr)
        BY <2>2 DEF AllGone
    <2>b. Known(k2)
        BY <1>12, <2>2
    <2>3. Good(u, el, k2, now, hd, tr, place) /\ SameFiles(d, place, u)
        BY <1>1, <1>6, <1>8, <1>14, <2>a, <2>b, CreateStops
    <2>4. held' = hd /\ ret' = r
        BY <1>3, <1>5, <1>16
    <2>5. CreateEffect(n, kind, FilesOf(d, place), fr, r, FilesOf(d2, place), ret')
        BY <2>2, <2>3, <2>4 DEF CreateEffect, SameFiles
    <2>6. Good(slots', free', count', content', held', panicked', place)
        BY <2>1, <2>2, <2>3, <2>4
    <2> QED
        BY <1>5, <2>1, <2>5, <2>6
<1>17. CASE left # 0
    <2>0. PICK c \in free : \E own \in SUBSET (free \ {c}) :
              /\ Cardinality(own) = Cardinality(free) - 1 - st(c).avail
              /\ free' = free \ ({c} \cup own)
              /\ count' = st(c).known
              /\ slots' = st(c).d
              /\ content' = IF ok(c) THEN WithDots(v(c), kind, st(c).d, Bytes(free, content, own, c))
                                     ELSE Bytes(free, content, own, c)
              /\ held' = IF ok(c) THEN [held EXCEPT ![n] = v(c)] ELSE held
              /\ ret' = IF ok(c) THEN Found(v(c), st(c).d) ELSE ret
              /\ panicked' = ~ok(c)
        BY <1>4, <1>17
    <2>1. PICK own \in SUBSET (free \ {c}) :
              /\ Cardinality(own) = Cardinality(free) - 1 - st(c).avail
              /\ free' = free \ ({c} \cup own)
              /\ count' = st(c).known
              /\ slots' = st(c).d
              /\ content' = IF ok(c) THEN WithDots(v(c), kind, st(c).d, Bytes(free, content, own, c))
                                     ELSE Bytes(free, content, own, c)
              /\ held' = IF ok(c) THEN [held EXCEPT ![n] = v(c)] ELSE held
              /\ ret' = IF ok(c) THEN Found(v(c), st(c).d) ELSE ret
              /\ panicked' = ~ok(c)
        BY <2>0
    <2>2. PICK avail \in Nat : avail = left - 1
        <3>1. PICK x \in Nat : x = left /\ x # 0
            BY <1>15, <1>17
        <3> HIDE DEF left
        <3>2. x - 1 \in Nat /\ x - 1 = left - 1
            BY <3>1
        <3> QED
            BY <3>2
    <2>a. PICK k1 : k1 = OneLess(known) /\ Known(k1)
        <3>1. PICK x : x = Fewer(ct, g) /\ x = known
            BY <1>5, <1>12
        <3> HIDE DEF known
        <3>2. Known(OneLess(x))
            BY <1>12, <3>1, CountsAre
        <3> QED
            BY <3>1, <3>2
    <2>3. PICK b : b = [d |-> u, at |-> a, avail |-> avail, known |-> k1, ok |-> TRUE]
        OBVIOUS
    <2>4. PICK p : p = Entries(n, kind, c)
        OBVIOUS
    <2>5. PICK s : s = WriteEntries(b, p)
        OBVIOUS
    <2>6. s = st(c)
        BY <1>11, <1>13, <2>2, <2>3, <2>4, <2>5, <2>a
    <2> HIDE DEF at, grown, e, left, known, begun, st
    <2>7. PICK N \in Nat : N = Num(n) + 1
        BY <1>10
    <2>8. DOMAIN p = 1 .. N
        BY <1>1, <2>4, <2>7, EntriesAre
    <2>9. Outcome(d, a, p, N, s) /\ Known(s.known)
        BY <1>7, <1>11, <1>14, <2>3, <2>5, <2>8, <2>a, CreateWrites
    <2>10. Outcome(d, a, Entries(n, kind, c), Num(n) + 1, s)
        BY <2>4, <2>7, <2>9
    <2>11. PICK w, k : w = FindByName(n, s.d) /\ k = (s.ok /\ w # NONE)
        OBVIOUS
    <2>12. w = v(c) /\ k = ok(c)
        BY <2>6, <2>11
    <2> HIDE DEF v, ok
    <2>13. PICK left2, k2, now, has, r2, d2, full :
              /\ left2 = free' /\ k2 = count' /\ now = content' /\ has = held' /\ r2 = ret' /\ d2 = slots'
              /\ full = panicked'
        OBVIOUS
    <2>14. c \in fr /\ d2 = s.d
        BY <1>5, <2>1, <2>6, <2>13
    <2>15. Results(n, kind, c, fr, data, hd, r, s, left2, k2, now, has, r2, full)
        BY <1>5, <2>1, <2>6, <2>11, <2>12, <2>13 DEF Results
    <2>16. \E new : /\ Good(s.d, left2, k2, now, has, full, new)
                    /\ CreateEffect(n, kind, FilesOf(d, place), fr, r, FilesOf(s.d, new), r2)
        <3>1. Begins(d, fr, ct, data, hd, place, n, a, kind)
            BY <1>1, <1>6, <1>8, <1>11 DEF Begins
        <3> QED
            BY <2>9, <2>10, <2>14, <2>15, <3>1, CreateDone
    <2> QED
        BY <1>5, <2>13, <2>14, <2>16
<1> QED
    BY <1>16, <1>17

-----------------------------------------------------------------------------
(* The other calls.                                                        *)

Describes(h, d, place, n) ==
    /\ place[n] # 0 /\ h = Where(place, n)
    /\ Found(h, d) = FilesOf(d, place)[n] /\ IsFileOf(FilesOf(d, place)[n], n)

\* What a VFile the caller has says about its file.
LEMMA HeldIs ==
    ASSUME NamesApart, NEW d, NEW fr, NEW ct, NEW data, NEW hd, NEW place,
           Good(d, fr, ct, data, hd, FALSE, place), NEW n \in Names, hd[n] # NONE
    PROVE  Describes(hd[n], d, place, n)
<1>1. place[n] # 0 /\ hd[n] = Where(place, n) /\ Laid(d, place, FALSE)
    BY DEF Good, Holds, HoldsOne
<1>2. FilesOf(d, place)[n] = FileAt(d, place, n) /\ IsFileOf(FilesOf(d, place)[n], n)
    BY <1>1, FilesAre
<1>3. Found(hd[n], d) = FileAt(d, place, n)
    BY <1>1 DEF Found, FileAt, Where, VFile
<1> QED
    BY <1>1, <1>2, <1>3 DEF Describes

\* What delete does to the entries d, through VFile v, when it returns and when not.
Deletes(d, v, u, half) ==
    IF half THEN RunsOver(v) /\ u = LongDeleted(v, d) ELSE u = ShortDeleted(v, LongDeleted(v, d))

\* Either way it takes one file away, and leaves the others in place.
LEMMA DeleteTakes ==
    ASSUME NamesApart, NEW d, NEW fr, NEW ct, NEW data, NEW hd, NEW place,
           Good(d, fr, ct, data, hd, FALSE, place), NEW n \in Names, hd[n] # NONE,
           NEW u, NEW half \in BOOLEAN, Deletes(d, hd[n], u, half),
           NEW new, Changed(place, n, 0, new)
    PROVE  /\ IsDeletion(d, place[n], place[n] + Num(n), u, half) /\ Laid(u, new, half)
           /\ Changed(FilesOf(d, place), n, NONE, FilesOf(u, new))
<1>1. place[n] # 0 /\ hd[n] = Where(place, n)
    <2>1. Describes(hd[n], d, place, n)
        BY HeldIs
    <2> QED
        BY <2>1 DEF Describes
<1>2. Laid(d, place, FALSE) /\ place \in [Names -> Nat] /\ IsSeq(d)
    BY DEF Good, Laid
<1>3. PICK a \in Nat \ {0} : a = place[n]
    BY <1>1, <1>2
<1>4. PICK b : b = a + Num(n)
    OBVIOUS
<1>5. Group(d, n, a) /\ hd[n] = VFile(b, a, Num(n))
    BY <1>1, <1>2, <1>3, <1>4 DEF Laid, Where
<1>6. IsDeletion(d, a, b, u, half)
    <2>1. CASE half = TRUE
        <3>1. u = LongDeleted(VFile(b, a, Num(n)), d)
            BY <1>5, <2>1 DEF Deletes
        <3>2. IsDeletion(d, a, b, u, TRUE)
            BY <1>2, <1>4, <1>5, <3>1, HalfDeletedAre
        <3> QED
            BY <2>1, <3>2
    <2>2. CASE half = FALSE
        <3>1. u = ShortDeleted(VFile(b, a, Num(n)), LongDeleted(VFile(b, a, Num(n)), d))
            BY <1>5, <2>2 DEF Deletes
        <3>2. IsDeletion(d, a, b, u, FALSE)
            BY <1>2, <1>4, <1>5, <3>1, DeletedAre
        <3> QED
            BY <2>2, <3>2
    <2> QED
        BY <2>1, <2>2
<1>7. IsDeletion(d, place[n], place[n] + Num(n), u, half)
    BY <1>3, <1>4, <1>6
<1>8. Laid(u, new, half) /\ SurviveBut(n, d, place, u)
    BY <1>1, <1>2, <1>7, DeleteLays
<1>9. PICK F, G : F = FilesOf(d, place) /\ Changed(F, n, NONE, G)
    BY DEF Changed
<1>10. FilesOf(u, new) = G
    <2>1. F = FilesOf(d, place) /\ Changed(F, n, NONE, G)
        BY <1>9
    <2> HIDE <1>9
    <2> QED
        BY <1>2, <1>8, <2>1, FilesShrink
<1> QED
    BY <1>7, <1>8, <1>9, <1>10

\* A file that is gone has no bytes to keep.
LEMMA OwnedLess ==
    ASSUME NEW F, NEW fr, NEW data, Owned(F, fr, data), NEW n \in Names,
           NEW G, Changed(F, n, NONE, G)
    PROVE  Owned(G, fr, data)
<1>1. F = [m \in Names |-> F[m]]
    BY DEF Owned
<1>2. \A m \in Names : G[m] = IF m = n THEN NONE ELSE F[m]
    BY <1>1 DEF Changed
<1>3. G = [m \in Names |-> G[m]]
    <2>1. G = [m \in Names |-> IF m = n THEN NONE ELSE F[m]]
        BY <1>1 DEF Changed
    <2> QED
        BY <2>1
<1> QED
    BY <1>2, <1>3 DEF Owned

\* delete as a whole gives the cluster of its file back, and its VFile.
LEMMA DeleteDone ==
    ASSUME NamesApart, NEW d, NEW fr, NEW ct, NEW data, NEW hd, NEW place,
           Good(d, fr, ct, data, hd, FALSE, place), NEW n \in Names, hd[n] # NONE,
           NEW u, Deletes(d, hd[n], u, FALSE),
           NEW left, left = fr \cup {Found(hd[n], d).first}, NEW num, Known(num),
           NEW has, Changed(hd, n, NONE, has)
    PROVE  \E new : /\ Good(u, left, num, data, has, FALSE, new)
                    /\ Changed(FilesOf(d, place), n, NONE, FilesOf(u, new))
<1>1. /\ place[n] # 0
      /\ Found(hd[n], d) = FilesOf(d, place)[n] /\ IsFileOf(FilesOf(d, place)[n], n)
    <2>1. Describes(hd[n], d, place, n)
        BY HeldIs
    <2> QED
        BY <2>1 DEF Describes
<1>2. /\ Owned(FilesOf(d, place), fr, data) /\ place \in [Names -> Nat]
      /\ fr \subseteq Clusters /\ data \in [Clusters -> Contents] /\ hd = [m \in Names |-> hd[m]]
      /\ \A m \in Names : hd[m] # NONE => place[m] # 0 /\ hd[m] = Where(place, m)
    BY DEF Good, Laid, Holds, HoldsOne
<1>3. PICK new : Changed(place, n, 0, new)
    BY DEF Changed
<1>4. Laid(u, new, FALSE) /\ Changed(FilesOf(d, place), n, NONE, FilesOf(u, new))
    BY <1>3, DeleteTakes
<1>5. Owned(FilesOf(u, new), left, data)
    <2>1. PICK F, G : F = FilesOf(d, place) /\ G = FilesOf(u, new)
        OBVIOUS
    <2>2. Owned(F, fr, data) /\ F[n] # NONE /\ left = fr \cup {F[n].first} /\ G = [F EXCEPT ![n] = NONE]
        BY <1>1, <1>2, <1>4, <2>1 DEF IsFileOf, Changed
    <2>3. Owned(G, left, data)
        BY <2>2, OwnedShrinks
    <2> QED
        BY <2>1, <2>3
<1>6. left \subseteq Clusters
    BY <1>1, <1>2 DEF IsFileOf, File
<1>7. has = [m \in Names |-> has[m]]
    <2>1. has = [m \in Names |-> IF m = n THEN NONE ELSE hd[m]]
        BY <1>2 DEF Changed
    <2> QED
        BY <2>1
<1>8. Holds(u, new, has, FALSE)
    <2> SUFFICES ASSUME NEW m \in Names, has[m] # NONE
                 PROVE  new[m] # 0 /\ has[m] = Where(new, m)
        BY DEF Holds, HoldsOne
    <2>1. m # n /\ has[m] = hd[m]
        BY <1>2 DEF Changed
    <2>2. new[m] = place[m]
        BY <1>2, <1>3, <2>1 DEF Changed
    <2> QED
        BY <1>2, <2>1, <2>2 DEF Where
<1>9. Good(u, left, num, data, has, FALSE, new)
    BY <1>2, <1>4, <1>5, <1>6, <1>7, <1>8 DEF Good
<1> QED
    BY <1>4, <1>9

\* A delete that panics keeps the cluster of its file, and its VFile.
LEMMA DeleteStopped ==
    ASSUME NamesApart, NEW d, NEW fr, NEW ct, NEW data, NEW hd, NEW place,
           Good(d, fr, ct, data, hd, FALSE, place), NEW n \in Names, hd[n] # NONE,
           NEW u, Deletes(d, hd[n], u, TRUE)
    PROVE  \E new : /\ Good(u, fr, ct, data, hd, TRUE, new)
                    /\ Changed(FilesOf(d, place), n, NONE, FilesOf(u, new))
<1>1. place[n] # 0 /\ hd[n] = Where(place, n)
    <2>1. Describes(hd[n], d, place, n)
        BY HeldIs
    <2> QED
        BY <2>1 DEF Describes
<1>2. /\ Laid(d, place, FALSE) /\ Owned(FilesOf(d, place), fr, data) /\ place \in [Names -> Nat]
      /\ fr \subseteq Clusters /\ Known(ct) /\ data \in [Clusters -> Contents]
      /\ hd = [m \in Names |-> hd[m]]
      /\ \A m \in Names : hd[m] # NONE => place[m] # 0 /\ hd[m] = Where(place, m)
    BY DEF Good, Laid, Holds, HoldsOne
<1>3. PICK new : Changed(place, n, 0, new)
    BY DEF Changed
<1>4. PICK half \in BOOLEAN : half = TRUE
    OBVIOUS
<1>5. /\ IsDeletion(d, place[n], place[n] + Num(n), u, half) /\ Laid(u, new, half)
      /\ Changed(FilesOf(d, place), n, NONE, FilesOf(u, new))
    <2>1. Deletes(d, hd[n], u, half)
        BY <1>4
    <2> QED
        BY <1>3, <2>1, DeleteTakes
<1>6. Owned(FilesOf(u, new), fr, data)
    BY <1>2, <1>5, OwnedLess
<1>7. Half(u, hd[n]) /\ hd[n].short \in 1 .. Len(u)
    <2>1. hd[n].long = place[n] /\ hd[n].short = place[n] + Num(n)
        BY <1>1 DEF Where, VFile
    <2>2. u[place[n]].del = TRUE /\ Len(u) = Len(d)
        BY <1>5 DEF IsDeletion
    <2>3. RunsOver(hd[n])
        BY DEF Deletes
    <2>4. Num(n) \in Nat \ {0} /\ place[n] \in Nat /\ Len(d) \in Nat
        BY <1>2, PiecesAre, SeqFacts DEF Laid
    <2>5. place[n] + Num(n) <= Len(d)
        BY <1>1, <1>2 DEF Laid, Group
    <2>6. place[n] + Num(n) \in 1 .. Len(u)
        BY <2>2, <2>4, <2>5
    <2> QED
        BY <2>1, <2>2, <2>3, <2>6 DEF Half
<1>8. Holds(u, new, hd, TRUE)
    <2> SUFFICES ASSUME NEW m \in Names, hd[m] # NONE PROVE HoldsOne(u, new, m, hd[m], TRUE)
        BY DEF Holds
    <2>1. CASE m = n
        BY <1>7, <2>1 DEF HoldsOne
    <2>2. CASE m # n
        <3>1. new[m] = place[m]
            BY <1>2, <1>3, <2>2 DEF Changed
        <3> QED
            BY <1>2, <3>1 DEF HoldsOne, Where
    <2> QED
        BY <2>1, <2>2
<1>9. Explained(u, fr, ct, hd)
    BY <1>7 DEF Explained
<1>10. Good(u, fr, ct, data, hd, TRUE, new)
    BY <1>2, <1>4, <1>5, <1>6, <1>8, <1>9 DEF Good
<1> QED
    BY <1>5, <1>10

IsLookedUp(d, place, n) ==
    LET v == FindByName(n, d) IN
    FilesOf(d, place)[n] = IF v = NONE THEN NONE ELSE Found(v, d)

\* A search changes nothing and returns the file.
LEMMA OpenDone ==
    ASSUME NamesApart, NEW d, NEW fr, NEW ct, NEW data, NEW hd, NEW place,
           Good(d, fr, ct, data, hd, FALSE, place), NEW n \in Names,
           NEW has, Changed(hd, n, FindByName(n, d), has)
    PROVE  Good(d, fr, ct, data, has, FALSE, place) /\ IsLookedUp(d, place, n)
<1>1. Laid(d, place, FALSE) /\ hd = [m \in Names |-> hd[m]] /\ Holds(d, place, hd, FALSE)
    BY DEF Good
<1>2. PICK v : v = FindByName(n, d)
    OBVIOUS
<1>3. v = Where(place, n) /\ (place[n] # 0 => v # NONE)
    BY <1>1, <1>2, FindsByName
<1>4. v # NONE => place[n] # 0
    BY <1>3 DEF Where
<1>5. has = [m \in Names |-> IF m = n THEN v ELSE hd[m]]
    BY <1>1, <1>2 DEF Changed
<1>6. Holds(d, place, has, FALSE)
    BY <1>1, <1>3, <1>4, <1>5 DEF Holds, HoldsOne
<1>7. has = [m \in Names |-> has[m]]
    BY <1>5
<1>8. Good(d, fr, ct, data, has, FALSE, place)
    BY <1>6, <1>7 DEF Good
<1>9. CASE v = NONE
    <2>1. FilesOf(d, place)[n] = NONE
        BY <1>3, <1>9 DEF FilesOf
    <2> QED
        BY <1>2, <1>8, <1>9, <2>1 DEF IsLookedUp
<1>10. CASE v # NONE
    <2>1. has[n] # NONE /\ has[n] = v
        BY <1>5, <1>10
    <2>2. Describes(has[n], d, place, n)
        BY <1>8, <2>1, HeldIs
    <2> QED
        BY <1>2, <1>8, <1>10, <2>1, <2>2 DEF IsLookedUp, Describes
<1> QED
    BY <1>9, <1>10

\* A write into a file changes no entry.
LEMMA WriteFileDone ==
    ASSUME NamesApart, NEW d, NEW fr, NEW ct, NEW data, NEW hd, NEW place,
           Good(d, fr, ct, data, hd, FALSE, place), NEW n \in Names, hd[n] # NONE,
           Found(hd[n], d).kind = "file",
           NEW now, now = [data EXCEPT ![Found(hd[n], d).first] = n]
    PROVE  Good(d, fr, ct, now, hd, FALSE, place)
<1>1. Found(hd[n], d) = FilesOf(d, place)[n] /\ IsFileOf(FilesOf(d, place)[n], n)
    <2>1. Describes(hd[n], d, place, n)
        BY HeldIs
    <2> QED
        BY <2>1 DEF Describes
<1>2. PICK F : F = FilesOf(d, place)
    OBVIOUS
<1>3. Laid(d, place, FALSE) /\ Owned(F, fr, data) /\ data \in [Clusters -> Contents]
    BY <1>2 DEF Good
<1>4. \A m \in Names : F[m] # NONE => F[m].first \in Clusters
    <2> TAKE m \in Names
    <2>1. F[m] = NONE \/ IsFileOf(F[m], m)
        BY <1>2, <1>3, FilesAre
    <2> QED
        BY <2>1 DEF IsFileOf, File
<1>5. now = [data EXCEPT ![F[n].first] = n] /\ F[n] # NONE /\ F[n].kind = "file"
    BY <1>1, <1>2 DEF IsFileOf
<1>6. Owned(F, fr, now)
    BY <1>3, <1>4, <1>5, OwnedWritten
<1>7. now \in [Clusters -> Contents]
    <2>1. n \in Contents
        BY DEF Contents
    <2> QED
        BY <1>3, <2>1
<1> QED
    BY <1>2, <1>6, <1>7 DEF Good

-----------------------------------------------------------------------------
(* A directory with . and .. , or without.                                 *)

DotOK(e) ==
    /\ e.type = "short" /\ e.del = FALSE /\ e.kind = "dir"
    /\ \A n \in Names : ShortName(e.name) # n

\* The . and .. of another system are short entries.
LEMMA DotsAre ==
    ASSUME NamesApart, NEW dots \in {<<>>, Dots, ForeignDots}
    PROVE  IsSeq(dots) /\ Len(dots) \in {0, 2} /\ \A i \in 1 .. Len(dots) : DotOK(dots[i])
<1>1. CASE dots = <<>>
    <2>1. <<>> \in Seq({}) /\ Len(<<>>) = 0
        OBVIOUS
    <2> QED
        BY <1>1, <2>1 DEF IsSeq
<1>2. ASSUME NEW x, NEW y, dots = <<x, y>>, DotOK(x), DotOK(y)
      PROVE  IsSeq(dots) /\ Len(dots) \in {0, 2} /\ \A i \in 1 .. Len(dots) : DotOK(dots[i])
    <2>1. <<x, y>> \in Seq({x, y}) /\ Len(<<x, y>>) = 2
        OBVIOUS
    <2>2. \A i \in 1 .. 2 : dots[i] = x \/ dots[i] = y
        BY <1>2
    <2> QED
        BY <1>2, <2>1, <2>2 DEF IsSeq
<1>3. CASE dots = Dots
    <2>1. PICK s, t : s = GenerateShortName(<<Dot>>) /\ t = GenerateShortName(DotDot)
        OBVIOUS
    <2>2. \A n \in Names : ShortName(s) # n /\ ShortName(t) # n
        BY <2>1 DEF NamesApart
    <2>3. DotOK(Short(s, "dir", NONE)) /\ DotOK(Short(t, "dir", NONE))
        BY <2>2 DEF DotOK, Short
    <2>4. dots = <<Short(s, "dir", NONE), Short(t, "dir", NONE)>>
        BY <1>3, <2>1 DEF Dots
    <2> QED
        BY <1>2, <2>3, <2>4
<1>4. CASE dots = ForeignDots
    <2>1. PICK s, t : s = [base |-> <<Dot>>, ext |-> <<>>] /\ t = [base |-> DotDot, ext |-> <<>>]
        OBVIOUS
    <2>2. ShortName(s) = <<Dot>> /\ ShortName(t) = DotDot
        <3>1. <<Dot>> \in Seq({Dot}) /\ DotDot \in Seq({Dot})
            BY DEF DotDot
        <3>2. <<Dot>> \o <<>> = <<Dot>> /\ DotDot \o <<>> = DotDot
            BY <3>1, ConcatEmptySeq
        <3> QED
            BY <2>1, <3>2 DEF ShortName
    <2>3. \A n \in Names : ShortName(s) # n /\ ShortName(t) # n
        BY <2>2 DEF NamesApart
    <2>4. DotOK(Short(s, "dir", NONE)) /\ DotOK(Short(t, "dir", NONE))
        BY <2>3 DEF DotOK, Short
    <2>5. dots = <<Short(s, "dir", NONE), Short(t, "dir", NONE)>>
        BY <1>4, <2>1 DEF ForeignDots
    <2> QED
        BY <1>2, <2>4, <2>5
<1> QED
    BY <1>1, <1>3, <1>4

BeginsWith(dots, d) == d = dots \o [i \in 1 .. SlotsPerCluster - Len(dots) |-> Empty]

\* A new directory has no files.
LEMMA InitLays ==
    ASSUME NamesApart, NEW dots \in {<<>>, Dots, ForeignDots}, NEW d, BeginsWith(dots, d),
           NEW place, place = [n \in Names |-> 0]
    PROVE  Laid(d, place, FALSE)
<1>1. IsSeq(dots) /\ Len(dots) \in {0, 2} /\ \A i \in 1 .. Len(dots) : DotOK(dots[i])
    BY DotsAre
<1>2. PICK e, m : e = Empty /\ m = SlotsPerCluster - Len(dots)
    OBVIOUS
<1>3. SlotsPerCluster \in Nat /\ SlotsPerCluster > 2 /\ m \in Nat /\ Len(dots) \in Nat
    BY <1>1, <1>2, SlotsAssumption
<1>4. PICK t : t = [i \in 1 .. m |-> e]
    OBVIOUS
<1>5. IsSeq(t) /\ Len(t) = m /\ \A i \in 1 .. Len(t) : t[i] = e
    <2>1. t \in [1 .. m -> {e}]
        BY <1>4
    <2>2. IsSeq(t) /\ Len(t) = m
        BY <1>3, <2>1, FunctionIsSeq
    <2> QED
        BY <1>4, <2>2
<1>6. d = dots \o t
    BY <1>2, <1>4 DEF BeginsWith
<1>7. /\ IsSeq(d) /\ Len(d) = Len(dots) + Len(t)
      /\ \A i \in 1 .. Len(d) : d[i] = IF i <= Len(dots) THEN dots[i] ELSE e
    <2>1. IsSeq(dots \o t)
        BY <1>1, <1>5, Longer
    <2>2. Len(dots \o t) = Len(dots) + Len(t)
        BY <1>1, <1>5, Longer
    <2>3. \A i \in 1 .. Len(dots \o t) : (dots \o t)[i] = IF i <= Len(dots) THEN dots[i] ELSE e
        BY <1>1, <1>5, Longer
    <2> QED
        BY <1>6, <2>1, <2>2, <2>3
<1>8. Len(d) = SlotsPerCluster
    BY <1>2, <1>3, <1>5, <1>7
<1>9. 2 <= Len(d) /\ Whole(Len(d))
    <2>1. Len(d) = 1 * SlotsPerCluster /\ 1 \in Nat
        BY <1>3, <1>8
    <2> QED
        BY <1>3, <1>8, <2>1 DEF Whole
<1>10. ASSUME NEW i \in 1 .. Len(d) PROVE DotOK(d[i]) \/ d[i] = Empty
    <2>1. i <= Len(dots) => i \in 1 .. Len(dots)
        BY <1>3, <1>8
    <2> QED
        BY <1>1, <1>2, <1>7, <2>1
<1>11. \A i \in 1 .. Len(d) : EntryOK(d[i])
    <2> TAKE i \in 1 .. Len(d)
    <2>1. CASE DotOK(d[i])
        BY <2>1 DEF DotOK, EntryOK
    <2>2. CASE d[i] = Empty
        BY <2>2 DEF Empty, EntryOK
    <2> QED
        BY <1>10, <2>1, <2>2
<1>12. \A o \in 1 .. Len(d) : ~IsFree(d[o]) => DotOK(d[o])
    BY <1>10 DEF Empty, IsFree
<1>13. \A o \in 1 .. Len(d) : ~IsFree(d[o]) /\ IsLast(d[o]) => FirstOK(d, place, FALSE, o)
    BY <1>12 DEF DotOK, IsLast, IsLong
<1>14. \A o \in 1 .. Len(d) : ~IsFree(d[o]) /\ d[o].type = "short" => LastOK(d, place, FALSE, o)
    BY <1>12 DEF DotOK, LastOK
<1>15. place \in [Names -> Nat] /\ \A n \in Names : place[n] = 0
    OBVIOUS
<1> QED
    BY <1>7, <1>9, <1>11, <1>13, <1>14, <1>15 DEF Laid

\* It is good, with no place taken.
LEMMA InitGood ==
    ASSUME NamesApart, Init, NEW place, place = [n \in Names |-> 0]
    PROVE  Good(slots, free, count, content, held, panicked, place)
<1>1. PICK d, fr, ct, data, hd, pk : /\ d = slots /\ fr = free /\ ct = count /\ data = content
                                     /\ hd = held /\ pk = panicked
    OBVIOUS
<1>2. PICK dots \in {<<>>, Dots, ForeignDots} :
          BeginsWith(dots, d)
    BY <1>1 DEF Init, BeginsWith
<1>3. Laid(d, place, FALSE)
    BY <1>2, InitLays
<1>4. PICK own \in Clusters :
          fr = Clusters \ {own} /\ data = [c \in Clusters |-> IF c = own THEN ENTRIES ELSE OLD]
    BY <1>1 DEF Init
<1>5. fr \subseteq Clusters /\ data \in [Clusters -> Contents]
    BY <1>4 DEF Contents
<1>6. hd = [n \in Names |-> NONE] /\ pk = FALSE
    BY <1>1 DEF Init
<1>7. PICK F : F = FilesOf(d, place)
    OBVIOUS
<1>8. F = [n \in Names |-> NONE]
    BY <1>7 DEF FilesOf
<1>9. Owned(F, fr, data)
    BY <1>8 DEF Owned
<1>10. Holds(d, place, hd, pk)
    BY <1>6 DEF Holds
<1>11. Known(ct)
    BY <1>1 DEF Init, Known
<1>12. Good(d, fr, ct, data, hd, pk, place)
    BY <1>3, <1>5, <1>6, <1>7, <1>9, <1>10, <1>11 DEF Good
<1> QED
    BY <1>1, <1>12

-----------------------------------------------------------------------------
(* Every step keeps the invariant, and is a step of NameSpace or none: F   *)
(* and G are the files before and behind it, r and s what was returned.    *)

Adds(n, F, G, s) ==
    /\ s \in File /\ <<n, s.kind>> \in Kinds /\ F[n] = NONE /\ G = [F EXCEPT ![n] = s]
    /\ \A m \in Names : F[m] # NONE => F[m].first # s.first
Refuses(n, F, G, s) == F[n] # NONE /\ s = NONE /\ G = F
LooksUp(n, F, G, s) == s = F[n] /\ G = F
TakesAway(n, F, G, s) == F[n] # NONE /\ s = NONE /\ G = [F EXCEPT ![n] = NONE]
Loses(n, F, r, G, s) == F[n] # NONE /\ s = r /\ G = [F EXCEPT ![n] = NONE]

OneStep(n, F, r, G, s) ==
    \/ Adds(n, F, G, s) \/ Refuses(n, F, G, s) \/ LooksUp(n, F, G, s)
    \/ TakesAway(n, F, G, s) \/ Loses(n, F, r, G, s)

AbstractStep(F, r, G, s) == (\E n \in Names : OneStep(n, F, r, G, s)) \/ (s = r /\ G = F)

Keeps(place) ==
    \E new : /\ Good(slots', free', count', content', held', panicked', new)
             /\ AbstractStep(FilesOf(slots, place), ret, FilesOf(slots', new), ret')

\* create of a new name adds it, or changes no file.
LEMMA CreateNewSteps ==
    ASSUME NamesApart, NEW place, Good(slots, free, count, content, held, panicked, place),
           NEW n, NEW kind, <<n, kind>> \in Kinds, CreateNew(n, kind)
    PROVE  Keeps(place)
<1>1. PICK new : /\ Good(slots', free', count', content', held', panicked', new)
                 /\ CreateEffect(n, kind, FilesOf(slots, place), free, ret,
                                 FilesOf(slots', new), ret')
    BY CreateNewKeeps
<1>2. PICK F, G, r, s, fr : /\ F = FilesOf(slots, place) /\ G = FilesOf(slots', new)
                            /\ r = ret /\ s = ret' /\ fr = free
    OBVIOUS
<1>3. CreateEffect(n, kind, F, fr, r, G, s)
    BY <1>1, <1>2
<1>4. Owned(F, fr, content)
    BY <1>2 DEF Good
<1>5. n \in Names
    BY NamesAssumption
<1>6. CASE s = r /\ G = F
    BY <1>1, <1>2, <1>6 DEF Keeps, AbstractStep
<1>7. CASE /\ s \in File /\ s.kind = kind /\ s.first \in fr
           /\ F[n] = NONE /\ Changed(F, n, s, G)
    <2>1. \A m \in Names : F[m] # NONE => F[m].first # s.first
        BY <1>4, <1>7 DEF Owned
    <2>2. Adds(n, F, G, s)
        BY <1>7, <2>1 DEF Adds, Changed
    <2> QED
        BY <1>1, <1>2, <1>5, <2>2 DEF Keeps, AbstractStep, OneStep
<1> QED
    BY <1>3, <1>6, <1>7 DEF CreateEffect

\* create of a name that exists is refused.
LEMMA CreateExistingSteps ==
    ASSUME NamesApart, NEW place, Good(slots, free, count, content, held, panicked, place),
           NEW n, NEW kind, <<n, kind>> \in Kinds, CreateExisting(n, kind)
    PROVE  Keeps(place)
<1>1. n \in Names /\ Laid(slots, place, panicked)
    BY NamesAssumption DEF Good
<1>2. IsAlreadyExist(n, kind, slots) /\ ret' = NONE
      /\ UNCHANGED <<slots, free, count, content, held, panicked>>
    BY DEF CreateExisting
<1>3. place[n] # 0
    <2>1. PICK d, full : d = slots /\ full = panicked
        OBVIOUS
    <2>2. Laid(d, place, full) /\ IsAlreadyExist(n, kind, d)
        BY <1>1, <1>2, <2>1
    <2> QED
        BY <1>1, <2>2, NewName
<1>4. IsFileOf(FilesOf(slots, place)[n], n)
    BY <1>1, <1>3, FilesAre
<1>5. Refuses(n, FilesOf(slots, place), FilesOf(slots', place), ret')
    BY <1>2, <1>4 DEF Refuses, IsFileOf
<1>6. Good(slots', free', count', content', held', panicked', place)
    BY <1>2
<1> QED
    BY <1>1, <1>5, <1>6 DEF Keeps, AbstractStep, OneStep

\* A search looks its name up.
LEMMA OpenSteps ==
    ASSUME NamesApart, NEW place, Good(slots, free, count, content, held, panicked, place),
           NEW n \in Names, Open(n)
    PROVE  Keeps(place)
<1>1. PICK d, hd, has : d = slots /\ hd = held /\ has = held'
    OBVIOUS
<1>2. PICK v : v = FindByName(n, d)
    OBVIOUS
<1>3. /\ Changed(hd, n, FindByName(n, d), has) /\ panicked = FALSE
      /\ ret' = (IF v = NONE THEN NONE ELSE Found(v, d))
      /\ UNCHANGED <<slots, free, count, content, panicked>>
    BY <1>1, <1>2 DEF Open, Changed, Good
<1>4. Good(d, free, count, content, hd, FALSE, place)
    BY <1>1, <1>3
<1>5. Good(d, free, count, content, has, FALSE, place) /\ IsLookedUp(d, place, n)
    BY <1>3, <1>4, OpenDone
<1>6. LooksUp(n, FilesOf(slots, place), FilesOf(slots', place), ret')
    BY <1>1, <1>2, <1>3, <1>5 DEF IsLookedUp, LooksUp
<1>7. Good(slots', free', count', content', held', panicked', place)
    BY <1>1, <1>3, <1>5
<1> QED
    BY <1>6, <1>7 DEF Keeps, AbstractStep, OneStep

\* A write leaves the files as they are.
LEMMA WriteFileSteps ==
    ASSUME NamesApart, NEW place, Good(slots, free, count, content, held, panicked, place),
           NEW n \in Names, WriteFile(n)
    PROVE  Keeps(place)
<1>1. PICK d, fr, ct, data, hd, now : /\ d = slots /\ fr = free /\ ct = count /\ data = content
                                      /\ hd = held /\ now = content'
    OBVIOUS
<1>2. /\ hd[n] # NONE /\ Found(hd[n], d).kind = "file" /\ panicked = FALSE
      /\ now = [data EXCEPT ![Found(hd[n], d).first] = n]
      /\ UNCHANGED <<slots, free, count, held, ret, panicked>>
    BY <1>1 DEF WriteFile, Good
<1>3. Good(d, fr, ct, data, hd, FALSE, place)
    BY <1>1, <1>2
<1>4. Good(d, fr, ct, now, hd, FALSE, place)
    BY <1>2, <1>3, WriteFileDone
<1>5. Good(slots', free', count', content', held', panicked', place)
    BY <1>1, <1>2, <1>4
<1>6. ret' = ret /\ FilesOf(slots', place) = FilesOf(slots, place)
    BY <1>2
<1> QED
    BY <1>5, <1>6 DEF Keeps, AbstractStep

\* delete takes its name away, when it returns and when it panics half-way.
LEMMA DeleteSteps ==
    ASSUME NamesApart, NEW place, Good(slots, free, count, content, held, panicked, place),
           NEW n \in Names, Delete(n)
    PROVE  Keeps(place)
<1>1. PICK d, fr, ct, data, hd, u, left, num, has :
          /\ d = slots /\ fr = free /\ ct = count /\ data = content /\ hd = held
          /\ u = slots' /\ left = free' /\ num = count' /\ has = held'
    OBVIOUS
<1>2. hd[n] # NONE /\ panicked = FALSE /\ content' = data
    BY <1>1 DEF Delete, Good
<1>3. Good(d, fr, ct, data, hd, FALSE, place)
    BY <1>1, <1>2
<1>4. Describes(hd[n], d, place, n)
    BY <1>2, <1>3, HeldIs
<1>5. CASE RunsOver(hd[n])
    <2>1. /\ u = LongDeleted(hd[n], d) /\ panicked' = TRUE
          /\ left = fr /\ num = ct /\ has = hd /\ ret' = ret
        BY <1>1, <1>5 DEF Delete
    <2>2. Deletes(d, hd[n], u, TRUE)
        BY <1>5, <2>1 DEF Deletes
    <2>3. PICK new : /\ Good(u, fr, ct, data, hd, TRUE, new)
                     /\ Changed(FilesOf(d, place), n, NONE, FilesOf(u, new))
        BY <1>2, <1>3, <2>2, DeleteStopped
    <2>4. Loses(n, FilesOf(slots, place), ret, FilesOf(slots', new), ret')
        BY <1>1, <1>4, <2>1, <2>3 DEF Loses, Changed, Describes, IsFileOf
    <2>5. Good(slots', free', count', content', held', panicked', new)
        BY <1>1, <1>2, <2>1, <2>3
    <2> QED
        BY <2>4, <2>5 DEF Keeps, AbstractStep, OneStep
<1>6. CASE ~RunsOver(hd[n])
    <2>1. /\ u = ShortDeleted(hd[n], LongDeleted(hd[n], d))
          /\ left = fr \cup {Found(hd[n], d).first}
          /\ num = ct \/ num = OneMore(ct)
          /\ Changed(hd, n, NONE, has) /\ ret' = NONE /\ panicked' = FALSE
        BY <1>1, <1>2, <1>6 DEF Delete, Changed
    <2>2. Deletes(d, hd[n], u, FALSE)
        BY <2>1 DEF Deletes
    <2>3. Known(num)
        <3>1. Known(ct)
            BY <1>3 DEF Good
        <3>2. Known(OneMore(ct))
            BY <3>1, CountsAre
        <3> QED
            BY <2>1, <3>1, <3>2
    <2>4. PICK new : /\ Good(u, left, num, data, has, FALSE, new)
                     /\ Changed(FilesOf(d, place), n, NONE, FilesOf(u, new))
        BY <1>2, <1>3, <2>1, <2>2, <2>3, DeleteDone
    <2>5. TakesAway(n, FilesOf(slots, place), FilesOf(slots', new), ret')
        BY <1>1, <1>4, <2>1, <2>4 DEF TakesAway, Changed, Describes, IsFileOf
    <2>6. Good(slots', free', count', content', held', panicked', new)
        BY <1>1, <1>2, <2>1, <2>4
    <2> QED
        BY <2>5, <2>6 DEF Keeps, AbstractStep, OneStep
<1> QED
    BY <1>5, <1>6

\* So every step keeps good places and is one of NameSpace, or none.
LEMMA NextSteps ==
    ASSUME NamesApart, NEW place, Good(slots, free, count, content, held, panicked, place), [Next]_vars
    PROVE  Keeps(place)
<1>1. CASE UNCHANGED vars
    <2>1. /\ slots' = slots /\ free' = free /\ count' = count /\ content' = content
          /\ held' = held /\ panicked' = panicked /\ ret' = ret
        BY <1>1 DEF vars
    <2> QED
        BY <2>1 DEF Keeps, AbstractStep
<1>2. ASSUME NEW k \in Kinds, CreateExisting(k[1], k[2]) \/ CreateNew(k[1], k[2])
      PROVE  Keeps(place)
    <2>1. PICK n, kind : n = k[1] /\ kind = k[2]
        OBVIOUS
    <2>2. <<n, kind>> \in Kinds
        BY <2>1, NamesAssumption
    <2>3. CASE CreateExisting(n, kind)
        BY <2>2, <2>3, CreateExistingSteps
    <2>4. CASE CreateNew(n, kind)
        BY <2>2, <2>4, CreateNewSteps
    <2> QED
        BY <1>2, <2>1, <2>3, <2>4
<1>3. ASSUME NEW n \in Names, Open(n) \/ WriteFile(n) \/ Delete(n)
      PROVE  Keeps(place)
    BY <1>3, OpenSteps, WriteFileSteps, DeleteSteps
<1> QED
    BY <1>1, <1>2, <1>3 DEF Next

\* What a step returns is a file, or NONE.
LEMMA StepReturns ==
    ASSUME NEW F, NEW r, NEW G, NEW s, AbstractStep(F, r, G, s),
           r = NONE \/ r \in File, \A n \in Names : F[n] = NONE \/ F[n] \in File
    PROVE  s = NONE \/ s \in File
<1>1. CASE s = r /\ G = F
    BY <1>1
<1>2. ASSUME NEW n \in Names, OneStep(n, F, r, G, s)
      PROVE  s = NONE \/ s \in File
    <2>1. CASE Adds(n, F, G, s)
        BY <2>1 DEF Adds
    <2>2. CASE Refuses(n, F, G, s) \/ TakesAway(n, F, G, s) \/ Loses(n, F, r, G, s)
        BY <2>2 DEF Refuses, TakesAway, Loses
    <2>3. CASE LooksUp(n, F, G, s)
        <3>1. s = F[n]
            BY <2>3 DEF LooksUp
        <3> QED
            BY <3>1
    <2> QED
        BY <1>2, <2>1, <2>2, <2>3 DEF OneStep
<1> QED
    BY <1>1, <1>2 DEF AbstractStep

\* What is at a place is a file.
LEMMA Typed ==
    ASSUME NamesApart, NEW place, Good(slots, free, count, content, held, panicked, place)
    PROVE  \A n \in Names : FilesOf(slots, place)[n] = NONE \/ FilesOf(slots, place)[n] \in File
<1> TAKE n \in Names
<1>1. Laid(slots, place, panicked)
    BY DEF Good
<1>2. FilesOf(slots, place)[n] = NONE \/ IsFileOf(FilesOf(slots, place)[n], n)
    BY <1>1, FilesAre
<1> QED
    BY <1>2 DEF IsFileOf

\* The invariant holds at first.
LEMMA InitInv == ASSUME NamesApart, Init PROVE Inv
<1>1. PICK place : place = [n \in Names |-> 0]
    OBVIOUS
<1>2. Good(slots, free, count, content, held, panicked, place)
    BY <1>1, InitGood
<1> QED
    BY <1>2 DEF Init, Inv

\* Every step keeps it.
LEMMA NextInv == ASSUME NamesApart, Inv, [Next]_vars PROVE Inv'
<1>1. PICK place : Good(slots, free, count, content, held, panicked, place)
    BY DEF Inv
<1>2. PICK new : /\ Good(slots', free', count', content', held', panicked', new)
                 /\ AbstractStep(FilesOf(slots, place), ret, FilesOf(slots', new), ret')
    BY <1>1, NextSteps DEF Keeps
<1>3. \A n \in Names : FilesOf(slots, place)[n] = NONE \/ FilesOf(slots, place)[n] \in File
    BY <1>1, Typed
<1>4. PICK F, G, r, s : /\ F = FilesOf(slots, place) /\ G = FilesOf(slots', new)
                        /\ r = ret /\ s = ret'
    OBVIOUS
<1>5. r = NONE \/ r \in File
    BY <1>4 DEF Inv
<1>6. s = NONE \/ s \in File
    BY <1>2, <1>3, <1>4, <1>5, StepReturns
<1> QED
    BY <1>2, <1>4, <1>6 DEF Inv

\* The inductive invariant: there are places for the files such that the
\* directory is laid out by them, whatever the calls before (vfs.rs:440-634).
THEOREM Invariance == ASSUME NamesApart PROVE Spec => []Inv
<1>1. Init => Inv
    BY InitInv
<1>2. Inv /\ [Next]_vars => Inv'
    BY NextInv
<1> QED
    BY <1>1, <1>2, PTL DEF Spec

-----------------------------------------------------------------------------
(* The properties.                                                         *)

\* What ls says of a file is not NONE.
LEMMA ItemIsOne ==
    ASSUME NamesApart, NEW d, NEW place, NEW full, Laid(d, place, full),
           NEW n \in Names, place[n] # 0
    PROVE  ItemOf(d, place, n) # NONE
<1>1. FilesOf(d, place)[n] = FileAt(d, place, n) /\ IsFileOf(FilesOf(d, place)[n], n)
    BY FilesAre
<1>2. FileAt(d, place, n) \in File
    BY <1>1 DEF IsFileOf
<1>3. Num(n) \in Nat
    BY PiecesAre
<1>4. place[n] + Num(n) \in Nat
    BY <1>3 DEF Laid
<1>5. PICK i : i = ItemOf(d, place, n)
    OBVIOUS
<1>6. i \in [name : Names, at : Nat, file : File]
    BY <1>2, <1>4, <1>5 DEF ItemOf
<1> QED
    BY <1>5, <1>6, NoneAssumption

\* What the listing says of a name.
LEMMA Listed ==
    ASSUME NamesApart, NEW place, Good(slots, free, count, content, held, panicked, place),
           NEW n \in Names
    PROVE  /\ Listing[n] = IF place[n] = 0 THEN NONE ELSE ItemOf(slots, place, n)
           /\ Listing[n] = NONE <=> place[n] = 0
<1>1. PICK d, full : d = slots /\ full = panicked
    OBVIOUS
<1>2. Laid(d, place, full)
    BY <1>1 DEF Good
<1>3. ListingOf(d)[n] = IF place[n] = 0 THEN NONE ELSE ItemOf(d, place, n)
    BY <1>2, ListingIs
<1>4. place[n] # 0 => ItemOf(d, place, n) # NONE
    BY <1>2, ItemIsOne
<1> QED
    BY <1>1, <1>3, <1>4, ListingHere

\* The properties follow from the invariant, each on its own.
LEMMA InvTypeOK == ASSUME NamesApart, Inv PROVE TypeOK
<1>1. PICK place : Good(slots, free, count, content, held, panicked, place)
    BY DEF Inv
<1>2. Laid(slots, place, panicked)
    BY <1>1 DEF Good
<1>3. Len(slots) % SlotsPerCluster = 0 /\ DOMAIN slots = 1 .. Len(slots) /\ Len(slots) \in Nat
    BY <1>2, WholeIsWhole, SeqFacts DEF Laid
<1>4. \A i \in DOMAIN slots :
          /\ slots[i].type \in {"empty", "long", "short"} /\ slots[i].del \in BOOLEAN
          /\ slots[i].type = "short" => slots[i].kind \in {"file", "dir"}
    BY <1>2, <1>3 DEF Laid, EntryOK
<1>5. ASSUME NEW n \in Names, held[n] # NONE PROVE held[n].short \in DOMAIN slots
    <2>1. HoldsOne(slots, place, n, held[n], panicked)
        BY <1>1, <1>5 DEF Good, Holds
    <2>2. CASE place[n] # 0 /\ held[n] = Where(place, n)
        <3>1. held[n].short = place[n] + Num(n)
            BY <2>2 DEF Where, VFile
        <3>2. place[n] + Num(n) <= Len(slots) /\ place[n] \in Nat
            BY <1>2, <2>2 DEF Laid, Group
        <3>3. Num(n) \in Nat
            BY PiecesAre
        <3> QED
            BY <1>3, <2>2, <3>1, <3>2, <3>3
    <2>3. CASE held[n].short \in 1 .. Len(slots)
        BY <1>3, <2>3
    <2> QED
        BY <2>1, <2>2, <2>3 DEF HoldsOne
<1>6. /\ free \subseteq Clusters /\ content \in [Clusters -> Contents] /\ panicked \in BOOLEAN
      /\ count \in {NONE} \cup 0 .. U32Max
    BY <1>1 DEF Good, Known
<1>7. ret = NONE \/ ret \in File
    BY DEF Inv
<1> QED
    BY <1>3, <1>4, <1>5, <1>6, <1>7 DEF TypeOK

\* The two ways to look agree, since both find the places.
LEMMA InvFinds == ASSUME NamesApart, Inv PROVE FindsWhatIsListed
<1>1. PICK place : Good(slots, free, count, content, held, panicked, place)
    BY DEF Inv
<1>2. PICK d, full : d = slots /\ full = panicked
    OBVIOUS
<1>3. Laid(d, place, full)
    BY <1>1, <1>2 DEF Good
<1>4. ASSUME NEW n \in Names
      PROVE  IF Listing[n] = NONE THEN FindByName(n, slots) = NONE
             ELSE FindByName(n, slots) # NONE /\ FindByName(n, slots).short = Listing[n].at
    <2>1. /\ FindByName(n, d) = Where(place, n)
          /\ place[n] # 0 => FindByName(n, d) # NONE
        BY <1>3, FindsByName
    <2>2. /\ Listing[n] = IF place[n] = 0 THEN NONE ELSE ItemOf(slots, place, n)
          /\ Listing[n] = NONE <=> place[n] = 0
        BY <1>1, Listed
    <2> QED
        BY <1>2, <2>1, <2>2 DEF Where, VFile, ItemOf
<1>5. ASSUME \A i \in 1 .. 2 : slots[i] = ForeignDots[i]
      PROVE  FindByName(DotDot, slots) = VFile(2, 0, 0)
    <2>1. \A i \in 1 .. 2 : d[i] = ForeignDots[i]
        BY <1>2, <1>5
    <2> QED
        BY <1>2, <1>3, <2>1, FindsDotDot
<1> QED
    BY <1>4, <1>5 DEF FindsWhatIsListed

\* ls lists places, one after the other.
LEMMA InvListedOnce == ASSUME NamesApart, Inv PROVE ListedOnce
<1>1. PICK place : Good(slots, free, count, content, held, panicked, place)
    BY DEF Inv
<1>2. PICK d, full, s : d = slots /\ full = panicked /\ s = LsOf(d)
    OBVIOUS
<1>3. Laid(d, place, full)
    BY <1>1, <1>2 DEF Good
<1>4. Lists(d, place, s, 1)
    BY <1>2, <1>3, LsLists
<1>5. DOMAIN s = 1 .. Len(s)
    BY <1>4, SeqFacts DEF Lists
<1>6. \A i, j \in DOMAIN s : s[i].name = s[j].name => i = j
    BY <1>4, <1>5 DEF Lists
<1>7. \A i \in DOMAIN s : s[i].name \in Names
    BY <1>4, <1>5 DEF Lists, ItemOf
<1> QED
    BY <1>2, <1>6, <1>7, ListingHere DEF ListedOnce

\* A VFile holds the place of its name, unless its delete has panicked.
LEMMA InvHeld == ASSUME NamesApart, Inv PROVE HeldStaysGood
<1>1. PICK place : Good(slots, free, count, content, held, panicked, place)
    BY DEF Inv
<1>2. ASSUME NEW n \in Names, held[n] # NONE
      PROVE  \/ HalfDeleted(held[n])
             \/ Listing[n] # NONE /\ held[n].short = Listing[n].at
    <2>1. HoldsOne(slots, place, n, held[n], panicked)
        BY <1>1, <1>2 DEF Good, Holds
    <2>2. CASE place[n] # 0 /\ held[n] = Where(place, n)
        <3>1. /\ Listing[n] = IF place[n] = 0 THEN NONE ELSE ItemOf(slots, place, n)
              /\ Listing[n] = NONE <=> place[n] = 0
            BY <1>1, Listed
        <3> QED
            BY <2>2, <3>1 DEF Where, VFile, ItemOf
    <2>3. CASE panicked = TRUE /\ Half(slots, held[n])
        BY <2>3 DEF Half, HalfDeleted
    <2> QED
        BY <2>1, <2>2, <2>3 DEF HoldsOne
<1> QED
    BY <1>2 DEF HeldStaysGood

\* The files of ls are those that are there.
LEMMA ListedFilesAre ==
    ASSUME NamesApart, NEW place, Good(slots, free, count, content, held, panicked, place)
    PROVE  ListedFiles = FilesOf(slots, place)
<1>1. ASSUME NEW n \in Names
      PROVE  (IF Listing[n] = NONE THEN NONE ELSE Listing[n].file)
                 = (IF place[n] = 0 THEN NONE ELSE FileAt(slots, place, n))
    <2>1. /\ Listing[n] = IF place[n] = 0 THEN NONE ELSE ItemOf(slots, place, n)
          /\ Listing[n] = NONE <=> place[n] = 0
        BY Listed
    <2> QED
        BY <2>1 DEF ItemOf
<1> QED
    BY <1>1 DEF ListedFiles, FilesOf

\* What ls shows is what owns the clusters.
LEMMA InvOwn == ASSUME NamesApart, Inv PROVE FilesKeepTheirOwn
<1>1. PICK place : Good(slots, free, count, content, held, panicked, place)
    BY DEF Inv
<1>2. PICK F : F = FilesOf(slots, place)
    OBVIOUS
<1>3. Owned(F, free, content)
    BY <1>1, <1>2 DEF Good
<1>4. ASSUME NEW n \in Names, Listing[n] # NONE
      PROVE  /\ Listing[n].file.first \notin free
             /\ content[Listing[n].file.first]
                    \in (IF Listing[n].file.kind = "dir" THEN {DOTS} ELSE {CLEAR, n})
    <2>1. ListedFiles[n] = Listing[n].file
        BY <1>4 DEF ListedFiles
    <2>2. F[n] = Listing[n].file
        BY <1>1, <1>2, <2>1, ListedFilesAre
    <2>3. F[n] # NONE
        <3>1. place[n] # 0
            BY <1>1, <1>4, Listed
        <3>2. IsFileOf(F[n], n)
            BY <1>1, <1>2, <3>1, FilesAre DEF Good
        <3> QED
            BY <3>2 DEF IsFileOf
    <2> QED
        BY <1>3, <2>2, <2>3 DEF Owned, OwnBytes
<1> QED
    BY <1>4 DEF FilesKeepTheirOwn

\* A panic is remembered with what it left behind.
LEMMA InvFull == ASSUME Inv PROVE PanicsOnlyWhenFull
<1> SUFFICES ASSUME panicked PROVE PanicsOnlyWhenFull
    BY DEF PanicsOnlyWhenFull
<1>1. panicked = TRUE /\ Explained(slots, free, count, held)
    BY DEF Inv, Good
<1>2. \A n \in Names : Half(slots, held[n]) => HalfDeleted(held[n])
    BY DEF Half, HalfDeleted
<1> QED
    BY <1>1, <1>2 DEF Explained, PanicsOnlyWhenFull

-----------------------------------------------------------------------------
(* Refinement: seen through ls, the directory is a map.                    *)

ListsSlots == Listing = ListingOf(slots)

\* Also behind a step the listing is that of the entries.
LEMMA ListingThen == Listing' = ListingOf(slots')
<1>1. ListsSlots
    BY ListingHere DEF ListsSlots
<1>2. ListsSlots'
    BY <1>1, PTL
<1> QED
    BY <1>2 DEF ListsSlots

\* Also behind a step the files of ls are those that are there.
LEMMA ListedFilesThen ==
    ASSUME NamesApart, NEW place, Good(slots', free', count', content', held', panicked', place)
    PROVE  ListedFiles' = FilesOf(slots', place)
<1>1. Listing' = ListingOf(slots')
    BY ListingThen
<1>2. ASSUME NEW n \in Names
      PROVE  (IF Listing'[n] = NONE THEN NONE ELSE Listing'[n].file)
                 = (IF place[n] = 0 THEN NONE ELSE FileAt(slots', place, n))
    <2>1. PICK d, full : d = slots' /\ full = panicked'
        OBVIOUS
    <2>2. Laid(d, place, full)
        BY <2>1 DEF Good
    <2>3. /\ ListingOf(d)[n] = IF place[n] = 0 THEN NONE ELSE ItemOf(d, place, n)
          /\ place[n] # 0 => ItemOf(d, place, n) # NONE
        BY <2>2, ListingIs, ItemIsOne
    <2> QED
        BY <1>1, <2>1, <2>3 DEF ItemOf
<1> QED
    BY <1>2 DEF ListedFiles, FilesOf

\* At first the map is empty.
LEMMA InitMap == ASSUME NamesApart, Init PROVE Map!Init
<1>1. PICK place : place = [n \in Names |-> 0]
    OBVIOUS
<1>2. Good(slots, free, count, content, held, panicked, place)
    BY <1>1, InitGood
<1>3. ListedFiles = [n \in Names |-> NONE]
    BY <1>1, <1>2, ListedFilesAre DEF FilesOf
<1> QED
    BY <1>3 DEF Init, Map!Init

\* A step is one of the map, at one name, or leaves it alone.
LEMMA StepIsAbstract ==
    ASSUME NEW n \in Names, OneStep(n, ListedFiles, ret, ListedFiles', ret')
    PROVE  Map!Next
<1>1. CASE Adds(n, ListedFiles, ListedFiles', ret')
    <2>1. Map!Create(n)
        BY <1>1 DEF Adds, Map!Create, Map!Live, Map!File, File
    <2> QED
        BY <2>1 DEF Map!Next
<1>2. CASE Refuses(n, ListedFiles, ListedFiles', ret')
    <2>1. Map!CreateExisting(n)
        BY <1>2 DEF Refuses, Map!CreateExisting
    <2> QED
        BY <2>1 DEF Map!Next
<1>3. CASE LooksUp(n, ListedFiles, ListedFiles', ret')
    <2>1. Map!Lookup(n)
        BY <1>3 DEF LooksUp, Map!Lookup
    <2> QED
        BY <2>1 DEF Map!Next
<1>4. CASE TakesAway(n, ListedFiles, ListedFiles', ret')
    <2>1. Map!Delete(n)
        BY <1>4 DEF TakesAway, Map!Delete
    <2> QED
        BY <2>1 DEF Map!Next
<1>5. CASE Loses(n, ListedFiles, ret, ListedFiles', ret')
    <2>1. Map!DeleteStops(n)
        BY <1>5 DEF Loses, Map!DeleteStops
    <2> QED
        BY <2>1 DEF Map!Next
<1> QED
    BY <1>1, <1>2, <1>3, <1>4, <1>5 DEF OneStep

\* Every step is one of the map, or leaves it alone.
LEMMA NextMap == ASSUME NamesApart, Inv, [Next]_vars PROVE [Map!Next]_(Map!vars)
<1>1. PICK place : Good(slots, free, count, content, held, panicked, place)
    BY DEF Inv
<1>2. PICK new : /\ Good(slots', free', count', content', held', panicked', new)
                 /\ AbstractStep(FilesOf(slots, place), ret, FilesOf(slots', new), ret')
    BY <1>1, NextSteps DEF Keeps
<1>3. ListedFiles = FilesOf(slots, place)
    BY <1>1, ListedFilesAre
<1>4. ListedFiles' = FilesOf(slots', new)
    BY <1>2, ListedFilesThen
<1>5. AbstractStep(ListedFiles, ret, ListedFiles', ret')
    BY <1>2, <1>3, <1>4
<1>6. CASE ret' = ret /\ ListedFiles' = ListedFiles
    BY <1>6 DEF Map!vars
<1>7. ASSUME NEW n \in Names, OneStep(n, ListedFiles, ret, ListedFiles', ret')
      PROVE  Map!Next
    BY <1>7, StepIsAbstract
<1> QED
    BY <1>5, <1>6, <1>7 DEF AbstractStep

-----------------------------------------------------------------------------
(* What holds of every run.                                                *)

\* Every variable stays in its type, and the directory has whole clusters,
\* whatever create and delete write into it (vfs.rs:88-95, dir_entry.rs:47-61,
\* 382-391).
THEOREM TypeCorrect == ASSUME NamesApart PROVE Spec => []TypeOK
<1>1. Inv => TypeOK
    BY InvTypeOK
<1> QED
    BY <1>1, Invariance, PTL

\* find_vfile_byname finds a name exactly when ls lists it, and the same file:
\* the long entries that delete leaves behind, and the entries another system
\* wrote, mislead neither (vfs.rs:206-293, 637-715).
THEOREM SearchAgreesWithListing == ASSUME NamesApart PROVE Spec => []FindsWhatIsListed
<1>1. Inv => FindsWhatIsListed
    BY InvFinds
<1> QED
    BY <1>1, Invariance, PTL

\* ls lists no name twice and none that nobody created (vfs.rs:441-491, 503).
THEOREM NothingTwice == ASSUME NamesApart PROVE Spec => []ListedOnce
<1>1. Inv => ListedOnce
    BY InvListedOnce
<1> QED
    BY <1>1, Invariance, PTL

\* A VFile a caller holds stays that of the file listed under its name, while
\* other files come, go and move into freed entries, also through a panic; but
\* not when its own delete stops half-way (vfs.rs:90-92, cluster_cache.rs:84-89).
THEOREM HeldFilesStayGood == ASSUME NamesApart PROVE Spec => []HeldStaysGood
<1>1. Inv => HeldStaysGood
    BY InvHeld
<1> QED
    BY <1>1, Invariance, PTL

\* No two files share a cluster, none has one that is free, and each holds
\* what its owner wrote (vfs.rs:527, 574-575, 612-633, runfs.rs:93-99).
THEOREM NobodyWritesOthers == ASSUME NamesApart PROVE Spec => []FilesKeepTheirOwn
<1>1. Inv => FilesKeepTheirOwn
    BY InvOwn
<1> QED
    BY <1>1, Invariance, PTL

\* create finds the file it has written, whatever was in the entries before: it
\* panics only when no cluster is free, or FSInfo says so or says nothing, and
\* delete only when it leaves a file half deleted (vfs.rs:527, 539-552,
\* fat.rs:293-305, cluster_cache.rs:84-89).
THEOREM PanicsAreKnown == ASSUME NamesApart PROVE Spec => []PanicsOnlyWhenFull
<1>1. Inv => PanicsOnlyWhenFull
    BY InvFull
<1> QED
    BY <1>1, Invariance, PTL

\* Seen through ls, a directory is the map of NameSpace: create adds a file
\* only under its own name, delete takes away only that, also when it panics
\* half-way, and a lookup returns what the map says (vfs.rs:500-634).
THEOREM RefinesNameSpace == ASSUME NamesApart PROVE Spec => ImplementsNameSpace
<1>1. Init => Map!Init
    BY InitMap
<1>2. Inv /\ [Next]_vars => [Map!Next]_(Map!vars)
    BY NextMap
<1> QED
    BY <1>1, <1>2, Invariance, PTL DEF Spec, ImplementsNameSpace, Map!Spec
=============================================================================
