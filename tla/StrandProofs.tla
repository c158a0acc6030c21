---------------------------- MODULE StrandProofs ----------------------------
(***************************************************************************)
(* What appending an entry to a strand, and running its oldest, does to    *)
(* the number of entries of each kind.                                     *)
(***************************************************************************)
EXTENDS Strand, FiniteSetTheorems, TLAPS

\* A strand holds finitely many entries of a kind.
LEMMA CountType ==
    ASSUME NEW S, NEW s \in Seq(S), NEW op
    PROVE  IsFiniteSet(At(s, op)) /\ Count(s, op) \in Nat
<1>1. IsFiniteSet(1 .. Len(s))  BY FS_Interval
<1>2. At(s, op) \in SUBSET (1 .. Len(s))  BY DEF At
<1>3. IsFiniteSet(At(s, op))  BY <1>1, <1>2, FS_Subset
<1> QED  BY <1>3, FS_CardinalityType DEF Count

LEMMA CountEmpty == \A op : Count(<<>>, op) = 0
<1> TAKE op
<1>1. At(<<>>, op) = {}  BY DEF At
<1> QED  BY <1>1, FS_EmptySet DEF Count

\* Nothing of a kind is there exactly when the count is 0.
LEMMA CountZero ==
    ASSUME NEW S, NEW s \in Seq(S), NEW op
    PROVE  Count(s, op) = 0 <=> \A i \in DOMAIN s : s[i].op # op
<1>1. Count(s, op) = 0 <=> At(s, op) = {}
  BY CountType, FS_EmptySet DEF Count
<1> QED  BY <1>1 DEF At

\* Where one entry of a kind is known, there is no other while the count is 1.
LEMMA CountUnique ==
    ASSUME NEW S, NEW s \in Seq(S), NEW op, Count(s, op) <= 1,
           NEW i \in DOMAIN s, NEW j \in DOMAIN s, s[i].op = op, s[j].op = op
    PROVE  i = j
<1>1. i \in At(s, op) /\ j \in At(s, op)  BY DEF At
<1>2. IsFiniteSet(At(s, op)) /\ Cardinality(At(s, op)) \in Nat
  BY CountType DEF Count
<1>3. Cardinality(At(s, op)) # 0  BY <1>1, <1>2, FS_EmptySet
<1>4. Cardinality(At(s, op)) = 1  BY <1>2, <1>3 DEF Count
<1>5. PICK x : At(s, op) = {x}  BY <1>2, <1>4, FS_Singleton
<1> QED  BY <1>1, <1>5

LEMMA CountAppend ==
    ASSUME NEW S, NEW s \in Seq(S), NEW e \in S, NEW op
    PROVE  Count(Append(s, e), op) =
             IF e.op = op THEN Count(s, op) + 1 ELSE Count(s, op)
<1> DEFINE n == Len(s) + 1
<1>1. n \notin At(s, op)  BY DEF At
<1>2. Append(s, e) \in Seq(S) /\ DOMAIN Append(s, e) = DOMAIN s \cup {n}
      /\ Append(s, e)[n] = e /\ \A i \in DOMAIN s : Append(s, e)[i] = s[i]
  OBVIOUS
<1>3. At(Append(s, e), op) = IF e.op = op THEN At(s, op) \cup {n} ELSE At(s, op)
  BY <1>2 DEF At
<1>4. IsFiniteSet(At(s, op))  BY CountType
<1>5. Cardinality(At(s, op) \cup {n}) = Cardinality(At(s, op)) + 1
  BY <1>1, <1>4, FS_AddElement
<1> QED  BY <1>3, <1>5 DEF Count

LEMMA CountTail ==
    ASSUME NEW S, NEW s \in Seq(S), s # <<>>, NEW op
    PROVE  Count(Tail(s), op) =
             IF Head(s).op = op THEN Count(s, op) - 1 ELSE Count(s, op)
<1> DEFINE A == At(s, op) \ {1}
           B == At(Tail(s), op)
           f == [i \in B |-> i + 1]
<1>1. Tail(s) \in Seq(S) /\ DOMAIN Tail(s) = 1 .. Len(s) - 1 /\ Len(s) >= 1
      /\ \A i \in 1 .. Len(s) - 1 : Tail(s)[i] = s[i + 1]
  OBVIOUS
<1>2. B \subseteq 1 .. Len(s) - 1 /\ A \subseteq 2 .. Len(s)  BY <1>1 DEF At
<1>3. \A i \in B : i + 1 \in A  BY <1>1 DEF At
<1>4. \A j \in A : j - 1 \in B /\ f[j - 1] = j  BY <1>1 DEF At
<1>5. f \in [B -> A]  BY <1>3
<1>6. \A i, j \in B : f[i] = f[j] => i = j  BY <1>2
<1>7. \A j \in A : \E i \in B : f[i] = j  BY <1>4
<1>8. ExistsBijection(B, A)
  <2> HIDE DEF A, B, f
  <2>1. f \in Injection(B, A)  BY <1>5, <1>6 DEF Injection, IsInjective
  <2>2. f \in Surjection(B, A)  BY <1>5, <1>7 DEF Surjection
  <2> QED  BY <2>1, <2>2 DEF ExistsBijection, Bijection
<1>9. IsFiniteSet(B)  BY <1>1, CountType
<1>10. Cardinality(A) = Cardinality(B)  BY <1>8, <1>9, FS_Bijection
<1>11. IsFiniteSet(At(s, op))  BY CountType
<1>12. Cardinality(A) = IF 1 \in At(s, op) THEN Cardinality(At(s, op)) - 1
                        ELSE Cardinality(At(s, op))
  BY <1>11, FS_RemoveElement
<1>13. 1 \in At(s, op) <=> Head(s).op = op  BY <1>1 DEF At
<1> QED  BY <1>10, <1>12, <1>13 DEF Count

-----------------------------------------------------------------------------
(* What a strand contains.                                                 *)

LEMMA ContainsAppend ==
    ASSUME NEW S, NEW s \in Seq(S), NEW e \in S, NEW x
    PROVE  Contains(Append(s, e), x) <=> Contains(s, x) \/ e = x
<1>1. /\ 1 .. Len(Append(s, e)) = (1 .. Len(s)) \cup {Len(s) + 1}
      /\ Append(s, e)[Len(s) + 1] = e
      /\ \A i \in 1 .. Len(s) : Append(s, e)[i] = s[i]
  OBVIOUS
<1> QED  BY <1>1 DEF Contains

LEMMA ContainsTail ==
    ASSUME NEW S, NEW s \in Seq(S), s # <<>>, NEW x
    PROVE  /\ Contains(Tail(s), x) => Contains(s, x)
           /\ Contains(s, x) => Contains(Tail(s), x) \/ Head(s) = x
<1>1. /\ \A i \in 1 .. Len(Tail(s)) : i + 1 \in 1 .. Len(s) /\ Tail(s)[i] = s[i + 1]
      /\ \A i \in 1 .. Len(s) : i = 1 \/ (i - 1 \in 1 .. Len(Tail(s))
                                          /\ Tail(s)[i - 1] = s[i])
      /\ Head(s) = s[1]
  OBVIOUS
<1>2. ASSUME Contains(Tail(s), x) PROVE Contains(s, x)
  <2>1. PICK i \in 1 .. Len(Tail(s)) : Tail(s)[i] = x  BY <1>2 DEF Contains
  <2>2. i + 1 \in 1 .. Len(s) /\ s[i + 1] = x  BY <1>1, <2>1
  <2> QED  BY <2>2 DEF Contains
<1>3. ASSUME Contains(s, x), Head(s) # x PROVE Contains(Tail(s), x)
  <2>1. PICK i \in 1 .. Len(s) : s[i] = x  BY <1>3 DEF Contains
  <2>2. i - 1 \in 1 .. Len(Tail(s)) /\ Tail(s)[i - 1] = x  BY <1>1, <1>3, <2>1
  <2> QED  BY <2>2 DEF Contains
<1> QED  BY <1>2, <1>3

\* What a strand contains counts.
LEMMA ContainsCount ==
    ASSUME NEW S, NEW s \in Seq(S), NEW x, Contains(s, x)
    PROVE  Count(s, x.op) # 0
<1>1. PICK i \in 1 .. Len(s) : s[i] = x  BY DEF Contains
<1>2. i \in DOMAIN s /\ s[i].op = x.op  BY <1>1
<1> QED  BY <1>2, CountZero

-----------------------------------------------------------------------------
(* Frames in order.                                                        *)

LEMMA AscendingAppend ==
    ASSUME NEW f, NEW g, NEW from \in Nat, NEW to \in Nat, NEW n \in Nat,
           from <= to, Ascending(f, from, to),
           DOMAIN f \subseteq Nat, \A i \in DOMAIN f : i < n,
           DOMAIN g = DOMAIN f \cup {n}, \A i \in DOMAIN f : g[i] = f[i],
           g[n] = to + 1
    PROVE  Ascending(g, from, to + 1)
<1>1. {f[i] : i \in DOMAIN f} = (from + 1) .. to  BY DEF Ascending
<1>2. \A i \in DOMAIN f : f[i] \in (from + 1) .. to  BY <1>1
<1>3. {g[i] : i \in DOMAIN g} = {f[i] : i \in DOMAIN f} \cup {to + 1}
  BY Zenon
<1>4. ((from + 1) .. to) \cup {to + 1} = (from + 1) .. (to + 1)  OBVIOUS
<1>5. {g[i] : i \in DOMAIN g} = (from + 1) .. (to + 1)  BY <1>1, <1>3, <1>4
<1>6. ASSUME NEW i \in DOMAIN g, NEW j \in DOMAIN g, i < j
      PROVE  g[i] < g[j]
  <2>1. CASE j = n
    <3>1. i \in DOMAIN f  BY <1>6, <2>1
    <3> QED  BY <1>2, <2>1, <3>1
  <2>2. CASE j # n
    <3>1. i \in DOMAIN f /\ j \in DOMAIN f  BY <1>6, <2>2
    <3> QED  BY <1>6, <3>1 DEF Ascending
  <2> QED  BY <2>1, <2>2
<1> QED  BY <1>5, <1>6 DEF Ascending

LEMMA AscendingRest ==
    ASSUME NEW f, NEW g, NEW from \in Nat, NEW to \in Nat, NEW h \in DOMAIN f,
           Ascending(f, from, to),
           DOMAIN f \subseteq Nat, \A i \in DOMAIN f : h <= i,
           DOMAIN g = DOMAIN f \ {h}, \A i \in DOMAIN g : g[i] = f[i]
    PROVE  f[h] = from + 1 /\ from < to /\ Ascending(g, from + 1, to)
<1>1. {f[i] : i \in DOMAIN f} = (from + 1) .. to  BY DEF Ascending
<1>2. \A i \in DOMAIN f : f[i] \in (from + 1) .. to  BY <1>1
<1>3. from < to  BY <1>2
<1>4. from + 1 \in (from + 1) .. to  BY <1>3
<1>5. PICK k \in DOMAIN f : f[k] = from + 1  BY <1>1, <1>4
<1>6. f[h] = from + 1
  <2>1. CASE k = h  BY <1>5, <2>1
  <2>2. CASE k # h
    <3>1. h < k  BY <2>2
    <3>2. f[h] < f[k]  BY <3>1 DEF Ascending
    <3> QED  BY <1>2, <1>5, <3>2
  <2> QED  BY <2>1, <2>2
<1>7. \A i \in DOMAIN g : f[h] < f[i]
  <2> TAKE i \in DOMAIN g
  <2>1. h < i  OBVIOUS
  <2> QED  BY <2>1 DEF Ascending
<1>8. \A i \in DOMAIN g : g[i] \in (from + 2) .. to  BY <1>2, <1>6, <1>7
<1>9. ASSUME NEW v \in (from + 2) .. to PROVE \E i \in DOMAIN g : g[i] = v
  <2>1. v \in (from + 1) .. to /\ v # from + 1  OBVIOUS
  <2>2. PICK i \in DOMAIN f : f[i] = v  BY <1>1, <2>1
  <2> QED  BY <1>6, <2>1, <2>2
<1>10. {g[i] : i \in DOMAIN g} = (from + 2) .. to  BY <1>8, <1>9
<1>11. (from + 1) + 1 = from + 2  OBVIOUS
<1>12. \A i, j \in DOMAIN g : i < j => g[i] < g[j]  BY DEF Ascending
<1> QED  BY <1>3, <1>6, <1>10, <1>11, <1>12 DEF Ascending

LEMMA AscendingShift ==
    ASSUME NEW f, NEW g, NEW from \in Nat, NEW to \in Nat,
           Ascending(f, from, to), DOMAIN f \subseteq Nat, DOMAIN g \subseteq Nat,
           \A i \in DOMAIN g : i + 1 \in DOMAIN f /\ g[i] = f[i + 1],
           \A i \in DOMAIN f : i - 1 \in DOMAIN g
    PROVE  Ascending(g, from, to)
<1>1. \A i \in DOMAIN f : f[i] = g[i - 1]  OBVIOUS
<1>2. {g[i] : i \in DOMAIN g} = {f[i] : i \in DOMAIN f}
  BY <1>1
<1>3. \A i, j \in DOMAIN g : i < j => g[i] < g[j]
  <2> SUFFICES ASSUME NEW i \in DOMAIN g, NEW j \in DOMAIN g, i < j
               PROVE  g[i] < g[j]
    OBVIOUS
  <2>1. i + 1 < j + 1  OBVIOUS
  <2> QED  BY <2>1 DEF Ascending
<1> QED  BY <1>2, <1>3 DEF Ascending

LEMMA AscendingEmpty ==
    ASSUME NEW f, DOMAIN f = {}, NEW n \in Nat
    PROVE  Ascending(f, n, n)
  BY DEF Ascending

-----------------------------------------------------------------------------
(* Frames on a strand.                                                     *)

LEMMA FramesAppendOther ==
    ASSUME NEW S, NEW s \in Seq(S), NEW e \in S, NEW op, e.op # op
    PROVE  Frames(Append(s, e), op) = Frames(s, op)
<1>1. At(Append(s, e), op) = At(s, op)
      /\ \A i \in At(s, op) : Append(s, e)[i] = s[i]
  BY DEF At
<1> QED  BY <1>1 DEF Frames

LEMMA FramesAppend ==
    ASSUME NEW S, NEW s \in Seq(S), NEW e \in S, NEW op, e.op = op,
           NEW from \in Nat, NEW to \in Nat, from <= to, e.frame = to + 1,
           Ascending(Frames(s, op), from, to)
    PROVE  Ascending(Frames(Append(s, e), op), from, to + 1)
<1> DEFINE f == Frames(s, op)
           g == Frames(Append(s, e), op)
           n == Len(s) + 1
<1>1. DOMAIN f = At(s, op) /\ DOMAIN g = At(Append(s, e), op)  BY DEF Frames
<1>2. At(s, op) \subseteq 1 .. Len(s) /\ At(Append(s, e), op) = At(s, op) \cup {n}
      /\ Append(s, e)[n] = e /\ \A i \in At(s, op) : Append(s, e)[i] = s[i]
  BY DEF At
<1>3. g[n] = to + 1 /\ \A i \in At(s, op) : g[i] = f[i]  BY <1>2 DEF Frames
<1>4. n \in Nat /\ DOMAIN f \subseteq Nat /\ \A i \in DOMAIN f : i < n  BY <1>1, <1>2
<1>5. DOMAIN g = DOMAIN f \cup {n}  BY <1>1, <1>2
<1> HIDE DEF f, g, n
<1>6. Ascending(g, from, to + 1)
  BY <1>1, <1>3, <1>4, <1>5, AscendingAppend DEF f
<1> QED  BY <1>6 DEF g

LEMMA TailAt ==
    ASSUME NEW S, NEW s \in Seq(S), s # <<>>, NEW op
    PROVE  /\ At(s, op) \subseteq Nat /\ At(Tail(s), op) \subseteq Nat
           /\ \A i \in At(s, op) : 1 <= i
           /\ 1 \in At(s, op) <=> Head(s).op = op
           /\ \A i \in At(s, op) \ {1} : i - 1 \in At(Tail(s), op)
<1>1. Tail(s) \in Seq(S) /\ DOMAIN Tail(s) = 1 .. Len(s) - 1 /\ Len(s) >= 1
      /\ DOMAIN s = 1 .. Len(s) /\ Head(s) = s[1]
      /\ \A i \in 1 .. Len(s) - 1 : Tail(s)[i] = s[i + 1]
  OBVIOUS
<1> QED  BY <1>1 DEF At

LEMMA TailShift ==
    ASSUME NEW S, NEW s \in Seq(S), s # <<>>, NEW op, NEW i \in At(Tail(s), op)
    PROVE  i + 1 \in At(s, op) /\ i + 1 # 1 /\ Tail(s)[i] = s[i + 1]
<1>1. i \in 1 .. Len(s) - 1 /\ Tail(s)[i].op = op  BY DEF At
<1>2. Tail(s)[i] = s[i + 1] /\ i + 1 \in DOMAIN s /\ i + 1 # 1  BY <1>1
<1> QED  BY <1>1, <1>2 DEF At

LEMMA FramesTailOther ==
    ASSUME NEW S, NEW s \in Seq(S), s # <<>>, NEW op, Head(s).op # op,
           NEW from \in Nat, NEW to \in Nat, Ascending(Frames(s, op), from, to)
    PROVE  Ascending(Frames(Tail(s), op), from, to)
<1> DEFINE f == Frames(s, op)
           g == Frames(Tail(s), op)
<1>1. DOMAIN f = At(s, op) /\ DOMAIN g = At(Tail(s), op)  BY DEF Frames
<1>2. ASSUME NEW i \in At(Tail(s), op) PROVE i + 1 \in At(s, op) /\ g[i] = f[i + 1]
  <2>1. i + 1 \in At(s, op) /\ Tail(s)[i] = s[i + 1]  BY TailShift
  <2> QED  BY <2>1 DEF Frames
<1>3. DOMAIN f \subseteq Nat /\ DOMAIN g \subseteq Nat /\ \A i \in DOMAIN f : i - 1 \in DOMAIN g
  BY <1>1, TailAt
<1> HIDE DEF f, g
<1>4. Ascending(g, from, to)  BY <1>1, <1>2, <1>3, AscendingShift DEF f
<1> QED  BY <1>4 DEF g

LEMMA FramesTail ==
    ASSUME NEW S, NEW s \in Seq(S), s # <<>>, NEW op, Head(s).op = op,
           NEW from \in Nat, NEW to \in Nat, Ascending(Frames(s, op), from, to)
    PROVE  /\ Head(s).frame = from + 1 /\ from < to
           /\ Ascending(Frames(Tail(s), op), from + 1, to)
<1>0. \A i \in At(Tail(s), op) : i + 1 \in At(s, op) /\ i + 1 # 1 /\ Tail(s)[i] = s[i + 1]
  BY TailShift
<1> DEFINE f == Frames(s, op)
           h == [i \in DOMAIN f \ {1} |-> f[i]]
           g == Frames(Tail(s), op)
<1>1. DOMAIN f = At(s, op) /\ DOMAIN g = At(Tail(s), op) /\ DOMAIN h = At(s, op) \ {1}
  BY DEF Frames
<1>2. 1 \in DOMAIN f /\ f[1] = Head(s).frame
  BY <1>1, TailAt DEF Frames
<1>3. ASSUME NEW i \in At(Tail(s), op)
      PROVE  i + 1 \in At(s, op) \ {1} /\ g[i] = h[i + 1]
  <2>1. i + 1 \in At(s, op) /\ i + 1 # 1 /\ Tail(s)[i] = s[i + 1]  BY <1>0
  <2> QED  BY <2>1 DEF Frames
<1>4. DOMAIN f \subseteq Nat /\ DOMAIN h \subseteq Nat /\ DOMAIN g \subseteq Nat
      /\ (\A i \in DOMAIN f : 1 <= i) /\ \A i \in DOMAIN h : i - 1 \in DOMAIN g
  BY <1>1, TailAt
<1>5. DOMAIN h = DOMAIN f \ {1} /\ \A i \in DOMAIN h : h[i] = f[i]  OBVIOUS
<1>6. Ascending(f, from, to)  OBVIOUS
<1> HIDE DEF f, g, h
<1>7. f[1] = from + 1 /\ from < to /\ Ascending(h, from + 1, to)
  BY <1>2, <1>4, <1>5, <1>6, AscendingRest
<1>8. Ascending(g, from + 1, to)
  <2>1. from + 1 \in Nat  OBVIOUS
  <2> QED  BY <1>1, <1>3, <1>4, <1>7, <2>1, AscendingShift
<1> QED  BY <1>2, <1>7, <1>8 DEF g

-----------------------------------------------------------------------------
(* Frames in a write queue.                                                *)

LEMMA DataAppendKeepalive ==
    ASSUME NEW q \in Seq(Nat), NEW first \in Nat
    PROVE  DataFrames(Append(q, keepalive), first) = DataFrames(q, first)
<1>1. keepalive \in Nat  BY DEF keepalive
<1>2. {j \in DOMAIN Append(q, keepalive) : j >= first /\ Append(q, keepalive)[j] # keepalive}
        = {j \in DOMAIN q : j >= first /\ q[j] # keepalive}
  BY <1>1
<1>3. \A i \in DOMAIN q : Append(q, keepalive)[i] = q[i]  BY <1>1
<1> QED  BY <1>2, <1>3 DEF DataFrames

LEMMA DataAppend ==
    ASSUME NEW q \in Seq(Nat), NEW first \in Nat, first <= Len(q) + 1,
           NEW from \in Nat, NEW to \in Nat, from <= to,
           Ascending(DataFrames(q, first), from, to)
    PROVE  Ascending(DataFrames(Append(q, to + 1), first), from, to + 1)
<1> DEFINE f == DataFrames(q, first)
           g == DataFrames(Append(q, to + 1), first)
           n == Len(q) + 1
<1>1. DOMAIN f = {j \in 1 .. Len(q) : j >= first /\ q[j] # keepalive}
      /\ \A i \in DOMAIN f : f[i] = q[i]
  BY DEF DataFrames
<1>2. /\ DOMAIN Append(q, to + 1) = (1 .. Len(q)) \cup {n}
      /\ Append(q, to + 1)[n] = to + 1
      /\ \A i \in 1 .. Len(q) : Append(q, to + 1)[i] = q[i]
      /\ to + 1 # keepalive
  BY DEF keepalive
<1>3. DOMAIN g = DOMAIN f \cup {n}  BY <1>1, <1>2 DEF DataFrames
<1>4. (\A i \in DOMAIN f : g[i] = f[i]) /\ g[n] = to + 1
  BY <1>1, <1>2, <1>3 DEF DataFrames
<1>5. n \in Nat /\ DOMAIN f \subseteq Nat /\ \A i \in DOMAIN f : i < n  BY <1>1
<1>6. Ascending(f, from, to)  OBVIOUS
<1> HIDE DEF f, g, n
<1>7. Ascending(g, from, to + 1)  BY <1>3, <1>4, <1>5, <1>6, AscendingAppend
<1> QED  BY <1>7 DEF g

\* The front of the queue has been written.
LEMMA DataWritten ==
    ASSUME NEW q \in Seq(Nat), q # <<>>, NEW from \in Nat, NEW to \in Nat,
           Ascending(DataFrames(q, 1), from, to)
    PROVE  /\ Head(q) = keepalive => Ascending(DataFrames(q, 2), from, to)
           /\ Head(q) # keepalive => /\ Head(q) = from + 1 /\ from < to
                                     /\ Ascending(DataFrames(q, 2), from + 1, to)
<1> DEFINE f == DataFrames(q, 1)
           g == DataFrames(q, 2)
<1>1. 1 \in DOMAIN q /\ Head(q) = q[1] /\ DOMAIN q = 1 .. Len(q)  OBVIOUS
<1>2. DOMAIN f = {j \in 1 .. Len(q) : q[j] # keepalive} /\ \A i \in DOMAIN f : f[i] = q[i]
  BY <1>1 DEF DataFrames
<1>3. DOMAIN g = {j \in 2 .. Len(q) : q[j] # keepalive} /\ \A i \in DOMAIN g : g[i] = q[i]
  BY <1>1 DEF DataFrames
<1>4. Ascending(f, from, to)  OBVIOUS
<1>5. DOMAIN f \subseteq Nat /\ \A i \in DOMAIN f : 1 <= i  BY <1>2
<1>6. DOMAIN g = DOMAIN f \ {1} /\ \A i \in DOMAIN g : g[i] = f[i]
  <2>1. 2 .. Len(q) = (1 .. Len(q)) \ {1}  OBVIOUS
  <2>2. DOMAIN g = DOMAIN f \ {1}  BY <1>2, <1>3, <2>1
  <2> QED  BY <1>2, <1>3, <2>2
<1>7. CASE Head(q) = keepalive
  <2>1. 1 \notin DOMAIN f  BY <1>1, <1>2, <1>7
  <2>2. DOMAIN g = DOMAIN f  BY <1>6, <2>1
  <2> HIDE DEF f, g
  <2>3. Ascending(g, from, to)  BY <1>4, <1>6, <2>2 DEF Ascending
  <2> QED  BY <1>7, <2>3 DEF g
<1>8. CASE Head(q) # keepalive
  <2>1. 1 \in DOMAIN f /\ f[1] = Head(q)  BY <1>1, <1>2, <1>8
  <2> HIDE DEF f, g
  <2>2. f[1] = from + 1 /\ from < to /\ Ascending(g, from + 1, to)
    BY <1>4, <1>5, <1>6, <2>1, AscendingRest
  <2> QED  BY <1>8, <2>1, <2>2 DEF g
<1> QED  BY <1>7, <1>8

\* The front of the queue is popped.
LEMMA DataPopped ==
    ASSUME NEW q \in Seq(Nat), q # <<>>, NEW from \in Nat, NEW to \in Nat,
           Ascending(DataFrames(q, 2), from, to)
    PROVE  Ascending(DataFrames(Tail(q), 1), from, to)
<1> DEFINE f == DataFrames(q, 2)
           g == DataFrames(Tail(q), 1)
<1>1. DOMAIN f = {j \in 2 .. Len(q) : q[j] # keepalive} /\ \A i \in DOMAIN f : f[i] = q[i]
  BY DEF DataFrames
<1>2. DOMAIN Tail(q) = 1 .. Len(q) - 1 /\ Len(q) \in Nat
      /\ \A i \in 1 .. Len(q) - 1 : Tail(q)[i] = q[i + 1]
  OBVIOUS
<1>3. DOMAIN g = {j \in 1 .. Len(q) - 1 : q[j + 1] # keepalive}
      /\ \A i \in DOMAIN g : g[i] = q[i + 1]
  BY <1>2 DEF DataFrames
<1>4. Ascending(f, from, to)  OBVIOUS
<1> HIDE DEF f, g
<1>5. ASSUME NEW i \in DOMAIN g PROVE i + 1 \in DOMAIN f /\ g[i] = f[i + 1]
  <2>1. i \in 1 .. Len(q) - 1 /\ q[i + 1] # keepalive  BY <1>3
  <2>2. i + 1 \in 2 .. Len(q)  BY <1>2, <2>1
  <2>3. i + 1 \in DOMAIN f  BY <1>1, <2>1, <2>2
  <2> QED  BY <1>1, <1>3, <2>3
<1>6. ASSUME NEW i \in DOMAIN f PROVE i - 1 \in DOMAIN g
  <2>1. i \in 2 .. Len(q) /\ q[i] # keepalive  BY <1>1
  <2>2. i - 1 \in 1 .. Len(q) - 1 /\ (i - 1) + 1 = i  BY <1>2, <2>1
  <2> QED  BY <1>3, <2>1, <2>2
<1>7. DOMAIN f \subseteq Nat /\ DOMAIN g \subseteq Nat  BY <1>1, <1>2, <1>3
<1>8. Ascending(g, from, to)  BY <1>5, <1>6, <1>7, <1>4, AscendingShift
<1> QED  BY <1>8 DEF g

-----------------------------------------------------------------------------
(* Frames in transit.                                                      *)

LEMMA AckCount ==
    ASSUME NEW S, NEW s \in Seq(S), Count(s, "written") = 0
    PROVE  ~Acknowledged(s)
<1>1. Ack.op = "written"  BY DEF Ack
<1> QED  BY <1>1, ContainsCount DEF Acknowledged

\* Something else becomes ready.
LEMMA TransitAppendOther ==
    ASSUME NEW S, NEW s \in Seq(S), NEW e \in S, NEW op, e.op # op, e # Ack,
           NEW q, NEW written, NEW posted, InTransit(s, op, q, written, posted)
    PROVE  InTransit(Append(s, e), op, q, written, posted)
<1>1. Frames(Append(s, e), op) = Frames(s, op)  BY FramesAppendOther
<1>2. Acknowledged(Append(s, e)) <=> Acknowledged(s)  BY ContainsAppend DEF Acknowledged
<1>3. Waiting(Append(s, e), q) = Waiting(s, q)  BY <1>2 DEF Waiting
<1> QED  BY <1>1, <1>3 DEF InTransit

\* A frame is posted.
LEMMA TransitPost ==
    ASSUME NEW S, NEW s \in Seq(S), NEW e \in S, NEW op, e.op = op, e # Ack,
           NEW q, NEW written \in Nat, NEW posted \in Nat, e.frame = posted + 1,
           InTransit(s, op, q, written, posted)
    PROVE  InTransit(Append(s, e), op, q, written, posted + 1)
<1>1. PICK k \in written .. posted : /\ Ascending(Waiting(s, q), written, k)
                                     /\ Ascending(Frames(s, op), k, posted)
  BY DEF InTransit
<1>2. k \in Nat /\ k <= posted /\ k \in written .. posted + 1  OBVIOUS
<1>3. Ascending(Frames(Append(s, e), op), k, posted + 1)
  BY <1>1, <1>2, FramesAppend
<1>4. Acknowledged(Append(s, e)) <=> Acknowledged(s)  BY ContainsAppend DEF Acknowledged
<1>5. Waiting(Append(s, e), q) = Waiting(s, q)  BY <1>4 DEF Waiting
<1> QED  BY <1>1, <1>2, <1>3, <1>5 DEF InTransit

\* The front of the queue has been written.
LEMMA TransitWritten ==
    ASSUME NEW S, NEW s \in Seq(S), Ack \in S, NEW op, op # "written",
           Count(s, "written") = 0, NEW q \in Seq(Nat), q # <<>>,
           NEW written \in Nat, NEW posted \in Nat,
           InTransit(s, op, q, written, posted)
    PROVE  /\ Head(q) = keepalive => InTransit(Append(s, Ack), op, q, written, posted)
           /\ Head(q) # keepalive => /\ Head(q) = written + 1
                                     /\ InTransit(Append(s, Ack), op, q, written + 1, posted)
<1>1. PICK k \in written .. posted : /\ Ascending(Waiting(s, q), written, k)
                                     /\ Ascending(Frames(s, op), k, posted)
  BY DEF InTransit
<1>2. k \in Nat  OBVIOUS
<1>3. Ack.op # op  BY DEF Ack
<1>4. Frames(Append(s, Ack), op) = Frames(s, op)
  <2> HIDE DEF Ack
  <2> QED  BY <1>3, FramesAppendOther
<1>5. Waiting(s, q) = DataFrames(q, 1)  BY AckCount DEF Waiting
<1>6. Waiting(Append(s, Ack), q) = DataFrames(q, 2)
  <2> HIDE DEF Ack
  <2> QED  BY ContainsAppend DEF Waiting, Acknowledged
<1>7. ASSUME Head(q) = keepalive
      PROVE  InTransit(Append(s, Ack), op, q, written, posted)
  <2>1. Ascending(DataFrames(q, 2), written, k)
    BY <1>1, <1>2, <1>5, <1>7, DataWritten
  <2> QED  BY <1>1, <1>4, <1>6, <2>1 DEF InTransit
<1>8. ASSUME Head(q) # keepalive
      PROVE  Head(q) = written + 1 /\ InTransit(Append(s, Ack), op, q, written + 1, posted)
  <2>1. /\ Head(q) = written + 1 /\ written < k
        /\ Ascending(DataFrames(q, 2), written + 1, k)
    BY <1>1, <1>2, <1>5, <1>8, DataWritten
  <2>2. k \in written + 1 .. posted  BY <1>2, <2>1
  <2> QED  BY <1>1, <1>4, <1>6, <2>1, <2>2 DEF InTransit
<1> QED  BY <1>7, <1>8

\* A handler runs that is neither an acknowledgement nor carries a frame; it
\* may queue a keepalive.
LEMMA TransitRunOther ==
    ASSUME NEW S, NEW s \in Seq(S), s # <<>>, NEW op, Head(s).op # op, Head(s) # Ack,
           NEW q \in Seq(Nat), NEW written \in Nat, NEW posted \in Nat,
           InTransit(s, op, q, written, posted)
    PROVE  /\ InTransit(Tail(s), op, q, written, posted)
           /\ InTransit(Tail(s), op, Append(q, keepalive), written, posted)
<1>1. PICK k \in written .. posted : /\ Ascending(Waiting(s, q), written, k)
                                     /\ Ascending(Frames(s, op), k, posted)
  BY DEF InTransit
<1>2. k \in Nat  OBVIOUS
<1>3. Ascending(Frames(Tail(s), op), k, posted)  BY <1>1, <1>2, FramesTailOther
<1>4. Acknowledged(Tail(s)) <=> Acknowledged(s)  BY ContainsTail DEF Acknowledged
<1>5. Waiting(Tail(s), q) = Waiting(s, q)  BY <1>4 DEF Waiting
<1>6. Waiting(Tail(s), Append(q, keepalive)) = Waiting(s, q)
  <2> DEFINE first == IF Acknowledged(s) THEN 2 ELSE 1
  <2>1. DataFrames(Append(q, keepalive), first) = DataFrames(q, first)
    BY DataAppendKeepalive
  <2> QED  BY <1>4, <2>1 DEF Waiting
<1> QED  BY <1>1, <1>3, <1>5, <1>6 DEF InTransit

\* A posted frame reaches the queue.
LEMMA TransitEnqueue ==
    ASSUME NEW S, NEW s \in Seq(S), s # <<>>, NEW op, Head(s).op = op, op # "written",
           NEW q \in Seq(Nat), q = <<>> => Count(s, "written") = 0,
           NEW written \in Nat, NEW posted \in Nat,
           InTransit(s, op, q, written, posted)
    PROVE  InTransit(Tail(s), op, Append(q, Head(s).frame), written, posted)
<1>1. PICK k \in written .. posted : /\ Ascending(Waiting(s, q), written, k)
                                     /\ Ascending(Frames(s, op), k, posted)
  BY DEF InTransit
<1>2. k \in Nat /\ written <= k  OBVIOUS
<1>3. Head(s).frame = k + 1 /\ k < posted /\ Ascending(Frames(Tail(s), op), k + 1, posted)
  BY <1>1, <1>2, FramesTail
<1>4. Head(s) # Ack  BY DEF Ack
<1>5. Acknowledged(Tail(s)) <=> Acknowledged(s)  BY <1>4, ContainsTail DEF Acknowledged
<1> DEFINE first == IF Acknowledged(s) THEN 2 ELSE 1
<1>6. first \in Nat /\ first <= Len(q) + 1
  <2>1. Acknowledged(s) => q # <<>>  BY AckCount
  <2> QED  BY <2>1
<1>7. Ascending(DataFrames(q, first), written, k)  BY <1>1 DEF Waiting
<1>8. Waiting(Tail(s), Append(q, k + 1)) = DataFrames(Append(q, k + 1), first)
  BY <1>5 DEF Waiting
<1> HIDE DEF first
<1>9. Ascending(DataFrames(Append(q, k + 1), first), written, k + 1)
  BY <1>2, <1>6, <1>7, DataAppend
<1>10. k + 1 \in written .. posted  BY <1>2, <1>3
<1> QED  BY <1>3, <1>8, <1>9, <1>10 DEF InTransit

\* The front of the queue is popped.
LEMMA TransitPop ==
    ASSUME NEW S, NEW s \in Seq(S), s # <<>>, Head(s) = Ack, Count(s, "written") <= 1,
           NEW op, op # "written", NEW q \in Seq(Nat), q # <<>>,
           NEW written \in Nat, NEW posted \in Nat,
           InTransit(s, op, q, written, posted)
    PROVE  InTransit(Tail(s), op, Tail(q), written, posted)
<1>1. PICK k \in written .. posted : /\ Ascending(Waiting(s, q), written, k)
                                     /\ Ascending(Frames(s, op), k, posted)
  BY DEF InTransit
<1>2. k \in Nat  OBVIOUS
<1>3. Head(s).op = "written"  BY DEF Ack
<1>4. Ascending(Frames(Tail(s), op), k, posted)
  BY <1>1, <1>2, <1>3, FramesTailOther
<1>5. Acknowledged(s)
  <2>1. 1 \in 1 .. Len(s) /\ s[1] = Ack  OBVIOUS
  <2> QED  BY <2>1 DEF Acknowledged, Contains
<1>6. ~Acknowledged(Tail(s))
  <2>1. Tail(s) \in Seq(S)  OBVIOUS
  <2>2. Count(Tail(s), "written") = Count(s, "written") - 1  BY <1>3, CountTail
  <2>3. Count(s, "written") \in Nat /\ Count(Tail(s), "written") \in Nat
    BY <2>1, CountType
  <2>4. Count(Tail(s), "written") = 0  BY <2>2, <2>3
  <2> QED  BY <2>1, <2>4, AckCount
<1>7. Ascending(DataFrames(q, 2), written, k)  BY <1>1, <1>5 DEF Waiting
<1>8. Ascending(Waiting(Tail(s), Tail(q)), written, k)
  BY <1>2, <1>6, <1>7, DataPopped DEF Waiting
<1> QED  BY <1>1, <1>4, <1>8 DEF InTransit

\* Nothing is on its way at first.
LEMMA TransitEmpty == \A op : InTransit(<<>>, op, <<>>, 0, 0)
<1> TAKE op
<1>1. DOMAIN Frames(<<>>, op) = {}  BY DEF Frames, At
<1>2. DOMAIN Waiting(<<>>, <<>>) = {}  BY DEF Waiting, DataFrames
<1>3. Ascending(Frames(<<>>, op), 0, 0) /\ Ascending(Waiting(<<>>, <<>>), 0, 0)
  BY <1>1, <1>2, AscendingEmpty
<1> QED  BY <1>3 DEF InTransit

\* One more frame has been written.
LEMMA WrittenPrefix ==
    ASSUME NEW d \in Seq(Nat), d = [i \in 1 .. Len(d) |-> i],
           NEW e \in Seq(Nat), e = Append(d, Len(d) + 1)
    PROVE  Len(e) = Len(d) + 1 /\ e = [i \in 1 .. Len(e) |-> i]
<1>1. /\ Len(d) \in Nat /\ Len(e) = Len(d) + 1 /\ e[Len(d) + 1] = Len(d) + 1
      /\ \A i \in 1 .. Len(d) : e[i] = d[i]
  OBVIOUS
<1>2. \A i \in 1 .. Len(e) : e[i] = i  BY <1>1
<1> QED  BY <1>1, <1>2

=============================================================================
