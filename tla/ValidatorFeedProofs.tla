------------------------ MODULE ValidatorFeedProofs ------------------------
(***************************************************************************)
(* The chain watcher and what becomes of its transitions.  For any chain,  *)
(* any settings and any number of reorganisations, failed queries and stops *)
(* the watcher implements ChainFeed.  As long as the chain only grows, the *)
(* state machine behind it loses nothing but what NothingElseLost names,   *)
(* stores no diff twice but of the last indexed block, and never goes back. *)
(***************************************************************************)
EXTENDS ValidatorFeed, SequenceTheorems, FiniteSetTheorems, TLAPS

(***************************************************************************)
(* Sequences.                                                              *)
(***************************************************************************)
\* Induction over numbers, with a set for the predicate.
LEMMA NatSetInduction ==
  ASSUME NEW Good, 0 \in Good, \A n \in Nat : n \in Good => n + 1 \in Good
  PROVE  Nat \subseteq Good
<1> DEFINE R == {ss \in Nat \X Nat : ss[1] < ss[2]}
           Bad == Nat \ Good
<1> SUFFICES ASSUME Bad # {} PROVE FALSE
  OBVIOUS
<1>1. IsWellFoundedOn(R, Nat)
  BY NatLessThanWellFounded DEF OpToRel
<1>2. PICK n \in Bad : \A m \in Bad : ~(<<m, n>> \in R)
  BY <1>1, WFMin
<1>3. n \in Nat /\ n # 0 /\ n - 1 \in Nat /\ n - 1 < n
  BY <1>2
<1>4. n - 1 \in Good
  BY <1>2, <1>3
<1>5. (n - 1) + 1 = n
  BY <1>3
<1> QED
  BY <1>2, <1>3, <1>4, <1>5

LEMMA ConcatPlaces ==
  ASSUME NEW S, NEW u \in Seq(S), NEW v \in Seq(S)
  PROVE  /\ u \o v \in Seq(S) /\ Len(u \o v) = Len(u) + Len(v)
         /\ \A p \in 1..Len(u) : p \in 1..Len(u \o v) /\ (u \o v)[p] = u[p]
         /\ \A j \in 1..Len(v) :
              Len(u) + j \in 1..Len(u \o v) /\ (u \o v)[Len(u) + j] = v[j]
         /\ \A p \in 1..Len(u \o v) :
              p \in 1..Len(u) \/ \E j \in 1..Len(v) : p = Len(u) + j
<1>1. Len(u) \in Nat /\ Len(v) \in Nat
  OBVIOUS
<1>2. u \o v \in Seq(S) /\ Len(u \o v) = Len(u) + Len(v)
  BY ConcatProperties
<1>3. ASSUME NEW p \in 1..Len(u)
      PROVE  p \in 1..Len(u \o v) /\ (u \o v)[p] = u[p]
  BY <1>1, <1>2
<1>4. ASSUME NEW j \in 1..Len(v)
      PROVE  Len(u) + j \in 1..Len(u \o v) /\ (u \o v)[Len(u) + j] = v[j]
  BY <1>1, <1>2
<1>5. ASSUME NEW p \in 1..Len(u \o v), p \notin 1..Len(u)
      PROVE  \E j \in 1..Len(v) : p = Len(u) + j
  <2>1. p - Len(u) \in 1..Len(v) /\ p = Len(u) + (p - Len(u))
    BY <1>1, <1>2, <1>5
  <2> QED
    BY <2>1
<1> QED
  BY <1>2, <1>3, <1>4, <1>5

\* What FlattenSeq computes on the way.
IsFlat(f, ss, n) ==
  f = [i \in 1..n |-> IF i = 1 THEN ss[i] ELSE f[i - 1] \o ss[i]]

LEMMA FlatValue ==
  ASSUME NEW f, NEW ss, NEW n, IsFlat(f, ss, n), NEW i \in 1..n
  PROVE  f[i] = IF i = 1 THEN ss[i] ELSE f[i - 1] \o ss[i]
BY Zenon DEF IsFlat

LEMMA FlatExists ==
  ASSUME NEW ss
  PROVE  \A n \in Nat : \E f : IsFlat(f, ss, n)
<1> DEFINE Good == {n \in Nat : \E f : IsFlat(f, ss, n)}
<1>1. 0 \in Good
  <2> DEFINE f == [i \in 1..0 |-> ss[i]]
  <2>1. f = [i \in 1..0 |-> IF i = 1 THEN ss[i] ELSE f[i - 1] \o ss[i]]
    OBVIOUS
  <2> HIDE DEF f
  <2>2. IsFlat(f, ss, 0)
    BY <2>1 DEF IsFlat
  <2> QED
    BY <2>2
<1>2. ASSUME NEW n \in Nat, n \in Good PROVE n + 1 \in Good
  <2>1. PICK g : IsFlat(g, ss, n)
    BY <1>2
  <2> DEFINE f == [i \in 1..(n + 1) |->
                     IF i = 1 THEN ss[i] ELSE g[i - 1] \o ss[i]]
  <2>2. \A i \in 1..n : f[i] = g[i]
    BY <2>1, FlatValue
  <2>3. \A i \in 1..(n + 1) : f[i] = IF i = 1 THEN ss[i] ELSE f[i - 1] \o ss[i]
    <3> TAKE i \in 1..(n + 1)
    <3>1. f[i] = IF i = 1 THEN ss[i] ELSE g[i - 1] \o ss[i]
      OBVIOUS
    <3>2. i # 1 => i - 1 \in 1..n
      OBVIOUS
    <3> HIDE DEF f
    <3>3. i # 1 => g[i - 1] = f[i - 1]
      BY <2>2, <3>2
    <3> QED
      BY <3>1, <3>3
  <2>4. f = [i \in 1..(n + 1) |-> f[i]]
    OBVIOUS
  <2> HIDE DEF f
  <2>5. f = [i \in 1..(n + 1) |-> IF i = 1 THEN ss[i] ELSE f[i - 1] \o ss[i]]
    BY <2>3, <2>4
  <2>6. IsFlat(f, ss, n + 1)
    BY <2>5 DEF IsFlat
  <2> QED
    BY <2>6
<1>3. Nat \subseteq Good
  <2> HIDE DEF Good
  <2> QED
    BY <1>1, <1>2, NatSetInduction
<1> QED
  BY <1>3

LEMMA FlatIs ==
  ASSUME NEW ss, Len(ss) \in Nat, Len(ss) # 0
  PROVE  \E f : IsFlat(f, ss, Len(ss)) /\ FlattenSeq(ss) = f[Len(ss)]
<1> DEFINE flat == CHOOSE f : IsFlat(f, ss, Len(ss))
<1>1. IsFlat(flat, ss, Len(ss))
  BY FlatExists
<1>2. FlattenSeq(ss) = flat[Len(ss)]
  BY Zenon DEF FlattenSeq, IsFlat
<1> QED
  BY <1>1, <1>2

\* The sequence ss[i] begins after place off[i].
Offsets(off, ss) ==
  /\ off \in [1..Len(ss) + 1 -> Nat]
  /\ off[1] = 0
  /\ \A i \in 1..Len(ss) : off[i + 1] = off[i] + Len(ss[i])
  /\ \A k \in 1..Len(ss) + 1 : \A i \in 1..k - 1 : off[i] + Len(ss[i]) <= off[k]

LEMMA OffsetsGrow ==
  ASSUME NEW n \in Nat, NEW off \in [1..n + 1 -> Nat], NEW ss,
         \A i \in 1..n : Len(ss[i]) \in Nat /\ off[i + 1] = off[i] + Len(ss[i])
  PROVE  \A k \in 1..n + 1 : \A i \in 1..k - 1 : off[i] + Len(ss[i]) <= off[k]
<1> DEFINE Good == {m \in Nat : m + 1 <= n + 1 =>
                      \A i \in 1..m : off[i] + Len(ss[i]) <= off[m + 1]}
<1>1. 0 \in Good
  OBVIOUS
<1>2. ASSUME NEW m \in Nat, m \in Good PROVE m + 1 \in Good
  <2> SUFFICES ASSUME m + 2 <= n + 1, NEW i \in 1..m + 1
               PROVE  off[i] + Len(ss[i]) <= off[m + 2]
    OBVIOUS
  <2>1. m + 1 \in 1..n /\ (m + 1) + 1 = m + 2
    OBVIOUS
  <2>2. off[m + 2] = off[m + 1] + Len(ss[m + 1]) /\ Len(ss[m + 1]) \in Nat
    BY <2>1
  <2>3. off[m + 1] \in Nat /\ off[i] \in Nat /\ Len(ss[i]) \in Nat
    BY <2>1
  <2>4. CASE i = m + 1
    BY <2>2, <2>3, <2>4
  <2>5. CASE i \in 1..m
    <3>1. off[i] + Len(ss[i]) <= off[m + 1]
      BY <1>2, <2>5
    <3> QED
      BY <2>2, <2>3, <3>1
  <2> QED
    BY <2>4, <2>5
<1>3. Nat \subseteq Good
  <2> HIDE DEF Good
  <2> QED
    BY <1>1, <1>2, NatSetInduction
<1> TAKE k \in 1..n + 1
<1>4. k - 1 \in Nat /\ (k - 1) + 1 = k
  OBVIOUS
<1>5. k - 1 \in Good
  <2> HIDE DEF Good
  <2> QED
    BY <1>3, <1>4
<1> QED
  BY <1>4, <1>5

LEMMA FlatTypes ==
  ASSUME NEW S, NEW ss \in Seq(Seq(S)), NEW f, IsFlat(f, ss, Len(ss))
  PROVE  \A i \in 1..Len(ss) : f[i] \in Seq(S)
<1> DEFINE n == Len(ss)
           Good == {m \in Nat : m + 1 <= n => f[m + 1] \in Seq(S)}
<1>1. n \in Nat /\ \A i \in 1..n : ss[i] \in Seq(S)
  OBVIOUS
<1> HIDE DEF n
<1>2. \A i \in 1..n : f[i] = IF i = 1 THEN ss[i] ELSE f[i - 1] \o ss[i]
  BY FlatValue DEF n
<1>3. 0 \in Good
  <2>1. 1 <= n => f[1] = ss[1] /\ ss[1] \in Seq(S)
    BY <1>1, <1>2
  <2> QED
    BY <2>1
<1>4. ASSUME NEW m \in Nat, m \in Good PROVE m + 1 \in Good
  <2> SUFFICES ASSUME m + 2 <= n PROVE f[m + 2] \in Seq(S)
    OBVIOUS
  <2>1. m + 2 \in 1..n /\ m + 2 # 1 /\ (m + 2) - 1 = m + 1
    BY <1>1
  <2>2. f[m + 2] = f[m + 1] \o ss[m + 2] /\ ss[m + 2] \in Seq(S)
    BY <1>1, <1>2, <2>1
  <2>3. f[m + 1] \in Seq(S)
    BY <1>1, <1>4
  <2> QED
    BY <2>2, <2>3, ConcatProperties
<1>5. Nat \subseteq Good
  <2> HIDE DEF Good
  <2> QED
    BY <1>3, <1>4, NatSetInduction
<1> SUFFICES ASSUME NEW i \in 1..n PROVE f[i] \in Seq(S)
  BY DEF n
<1>6. i - 1 \in Nat /\ (i - 1) + 1 = i /\ i <= n
  BY <1>1
<1>7. i - 1 \in Good
  <2> HIDE DEF Good
  <2> QED
    BY <1>5, <1>6
<1> QED
  BY <1>6, <1>7

\* The sequence FlattenSeq(ss): its members are those of the sequences in ss,
\* at the places off says.
LaidOut(flat, off, ss) ==
  /\ Offsets(off, ss)
  /\ Len(flat) = off[Len(ss) + 1]
  /\ \A i \in 1..Len(ss) : \A j \in 1..Len(ss[i]) :
       off[i] + j \in 1..Len(flat) /\ flat[off[i] + j] = ss[i][j]
  /\ \A p \in 1..Len(flat) : \E i \in 1..Len(ss) : \E j \in 1..Len(ss[i]) : p = off[i] + j

LEMMA FlatPlaces ==
  ASSUME NEW S, NEW ss \in Seq(Seq(S))
  PROVE  FlattenSeq(ss) \in Seq(S) /\ \E off : LaidOut(FlattenSeq(ss), off, ss)
<1> DEFINE n == Len(ss)
<1>0. n \in Nat /\ \A i \in 1..n : ss[i] \in Seq(S) /\ Len(ss[i]) \in Nat
  OBVIOUS
<1>1. CASE n = 0
  <2>1. FlattenSeq(ss) = <<>>
    BY <1>1 DEF FlattenSeq
  <2> DEFINE off == [i \in 1..n + 1 |-> 0]
  <2>2. Offsets(off, ss) /\ off[n + 1] = 0
    BY <1>1 DEF Offsets
  <2> HIDE DEF off
  <2>3. 1..n = {} /\ Len(FlattenSeq(ss)) = 0 /\ 1..Len(FlattenSeq(ss)) = {}
    BY <1>1, <2>1
  <2>4. LaidOut(<<>>, off, ss)
    BY <1>1, <2>1, <2>2, <2>3 DEF LaidOut
  <2> QED
    BY <2>1, <2>4
<1>2. CASE n # 0
  <2>1. PICK f : IsFlat(f, ss, n) /\ FlattenSeq(ss) = f[n]
    BY <1>0, <1>2, FlatIs
  <2>2. \A i \in 1..n : f[i] = IF i = 1 THEN ss[i] ELSE f[i - 1] \o ss[i]
    BY <2>1, FlatValue
  <2>3. \A i \in 1..n : f[i] \in Seq(S) /\ Len(f[i]) \in Nat
    BY <2>1, FlatTypes, LenProperties
  <2> HIDE DEF n
  <2> DEFINE off == [i \in 1..n + 1 |-> IF i = 1 THEN 0 ELSE Len(f[i - 1])]
  <2>4. off[1] = 0 /\ \A i \in 1..n : off[i + 1] = Len(f[i])
    BY <1>0
  <2>5. off \in [1..n + 1 -> Nat]
    <3>1. \A i \in 1..n + 1 : i = 1 \/ i - 1 \in 1..n
      BY <1>0
    <3> QED
      BY <2>3, <3>1
  <2> HIDE DEF off
  <2>6. \A i \in 1..n : Len(f[i]) = off[i] + Len(ss[i])
    <3> TAKE i \in 1..n
    <3>1. CASE i = 1
      BY <1>0, <2>2, <2>4, <3>1
    <3>2. CASE i # 1
      <4>1. i - 1 \in 1..n /\ (i - 1) + 1 = i
        BY <1>0, <3>2
      <4>2. f[i] = f[i - 1] \o ss[i] /\ f[i - 1] \in Seq(S) /\ ss[i] \in Seq(S)
        BY <1>0, <2>2, <2>3, <3>2, <4>1
      <4>3. off[i] = Len(f[i - 1])
        BY <2>4, <4>1
      <4> QED
        BY <4>2, <4>3, ConcatProperties
    <3> QED
      BY <3>1, <3>2
  <2>7. Offsets(off, ss)
    <3>1. \A k \in 1..n + 1 : \A i \in 1..k - 1 : off[i] + Len(ss[i]) <= off[k]
      BY <1>0, <2>4, <2>5, <2>6, OffsetsGrow
    <3> QED
      BY <2>4, <2>5, <2>6, <3>1 DEF Offsets, n
  <2> DEFINE Good == {m \in Nat : m + 1 <= n =>
               /\ \A i \in 1..m + 1 : \A j \in 1..Len(ss[i]) :
                    off[i] + j \in 1..Len(f[m + 1]) /\ f[m + 1][off[i] + j] = ss[i][j]
               /\ \A p \in 1..Len(f[m + 1]) :
                    \E i \in 1..m + 1 : \E j \in 1..Len(ss[i]) : p = off[i] + j}
  <2>8. 0 \in Good
    <3>1. f[1] = ss[1] /\ off[1] = 0 /\ Len(ss[1]) \in Nat
      BY <1>0, <1>2, <2>2, <2>4
    <3>2. \A j \in 1..Len(ss[1]) : off[1] + j = j
      BY <3>1
    <3>3. 1..(0 + 1) = {1} /\ 0 + 1 = 1
      OBVIOUS
    <3> QED
      BY <3>1, <3>2, <3>3
  <2>9. ASSUME NEW m \in Nat, m \in Good PROVE m + 1 \in Good
    <3> DEFINE a == m + 1  b == m + 2
    <3> SUFFICES ASSUME b <= n
                 PROVE  /\ \A i \in 1..b : \A j \in 1..Len(ss[i]) :
                             off[i] + j \in 1..Len(f[b]) /\ f[b][off[i] + j] = ss[i][j]
                        /\ \A p \in 1..Len(f[b]) :
                             \E i \in 1..b : \E j \in 1..Len(ss[i]) : p = off[i] + j
      <4>1. (m + 1) + 1 = b
        OBVIOUS
      <4> QED
        BY <4>1
    <3>1. a \in 1..n /\ b \in 1..n /\ b # 1 /\ b - 1 = a /\ a + 1 = b
      BY <1>0
    <3>5. /\ \A i \in 1..a : \A j \in 1..Len(ss[i]) :
               off[i] + j \in 1..Len(f[a]) /\ f[a][off[i] + j] = ss[i][j]
          /\ \A p \in 1..Len(f[a]) :
               \E i \in 1..a : \E j \in 1..Len(ss[i]) : p = off[i] + j
      BY <2>9, <3>1, <1>0
    <3> HIDE DEF a, b
    <3>2. f[b] = f[a] \o ss[b] /\ off[b] = Len(f[a])
      BY <2>2, <2>4, <3>1
    <3>3. ss[b] \in Seq(S) /\ f[a] \in Seq(S) /\ Len(f[a]) \in Nat /\ Len(ss[b]) \in Nat
      BY <1>0, <2>3, <3>1
    <3>4. /\ \A p \in 1..Len(f[a]) : p \in 1..Len(f[b]) /\ f[b][p] = f[a][p]
          /\ \A j \in 1..Len(ss[b]) :
               Len(f[a]) + j \in 1..Len(f[b]) /\ f[b][Len(f[a]) + j] = ss[b][j]
          /\ \A p \in 1..Len(f[b]) :
               p \in 1..Len(f[a]) \/ \E j \in 1..Len(ss[b]) : p = Len(f[a]) + j
      <4> DEFINE u == f[a]  v == ss[b]
      <4>1. u \in Seq(S) /\ v \in Seq(S) /\ f[b] = u \o v
        BY <3>2, <3>3
      <4> HIDE DEF u, v
      <4>2. /\ \A p \in 1..Len(u) : p \in 1..Len(f[b]) /\ f[b][p] = u[p]
            /\ \A j \in 1..Len(v) :
                 Len(u) + j \in 1..Len(f[b]) /\ f[b][Len(u) + j] = v[j]
            /\ \A p \in 1..Len(f[b]) :
                 p \in 1..Len(u) \/ \E j \in 1..Len(v) : p = Len(u) + j
        BY <4>1, ConcatPlaces
      <4> QED
        BY <4>2 DEF u, v
    <3>6. b \in 1..b /\ \A i \in 1..b : i \in 1..a \/ i = b
      BY <3>1
    <3>9. 1..a \subseteq 1..b
      BY <3>1
    <3>7. ASSUME NEW i \in 1..b, NEW j \in 1..Len(ss[i])
          PROVE  off[i] + j \in 1..Len(f[b]) /\ f[b][off[i] + j] = ss[i][j]
      BY <3>2, <3>4, <3>5, <3>6, Zenon
    <3>8. ASSUME NEW p \in 1..Len(f[b])
          PROVE  \E i \in 1..b : \E j \in 1..Len(ss[i]) : p = off[i] + j
      BY <3>2, <3>4, <3>5, <3>6, <3>9, ZenonT(40)
    <3> QED
      BY <3>7, <3>8
  <2>10. Nat \subseteq Good
    <3> HIDE DEF Good
    <3> QED
      BY <2>8, <2>9, NatSetInduction
  <2>11. n - 1 \in Good /\ (n - 1) + 1 = n
    <3> HIDE DEF Good
    <3> QED
      BY <1>0, <1>2, <2>10
  <2>15. /\ \A i \in 1..n : \A j \in 1..Len(ss[i]) :
              off[i] + j \in 1..Len(f[n]) /\ f[n][off[i] + j] = ss[i][j]
         /\ \A p \in 1..Len(f[n]) :
              \E i \in 1..n : \E j \in 1..Len(ss[i]) : p = off[i] + j
    BY <1>0, <2>11
  <2>12. n <= n /\ n \in 1..n
    BY <1>0, <1>2
  <2>13. Len(f[n]) = off[n + 1]
    BY <2>4, <2>12
  <2>14. LaidOut(f[n], off, ss)
    BY <2>7, <2>12, <2>13, <2>15 DEF LaidOut, n
  <2> QED
    BY <2>1, <2>3, <2>12, <2>14
<1> QED
  BY <1>1, <1>2

LEMMA FlatMembers ==
  ASSUME NEW S, NEW ss \in Seq(Seq(S))
  PROVE  /\ FlattenSeq(ss) \in Seq(S)
         /\ \A x : x \in ToSet(FlattenSeq(ss)) <=> \E i \in 1..Len(ss) : x \in ToSet(ss[i])
         /\ \A i \in 1..Len(ss) : Len(ss[i]) <= Len(FlattenSeq(ss))
<1> DEFINE flat == FlattenSeq(ss)
<1>1. flat \in Seq(S)
  BY FlatPlaces
<1>2. PICK off : LaidOut(flat, off, ss)
  BY FlatPlaces
<1>3. \A i \in 1..Len(ss) : ss[i] \in Seq(S) /\ DOMAIN ss[i] = 1..Len(ss[i]) /\ Len(ss[i]) \in Nat
  OBVIOUS
<1>4. DOMAIN flat = 1..Len(flat) /\ Len(flat) \in Nat
  BY <1>1
<1> HIDE DEF flat
<1>5. ASSUME NEW x \in ToSet(flat) PROVE \E i \in 1..Len(ss) : x \in ToSet(ss[i])
  <2>1. PICK p \in 1..Len(flat) : x = flat[p]
    BY <1>4, <1>5 DEF ToSet
  <2>2. PICK i \in 1..Len(ss) : \E j \in 1..Len(ss[i]) : p = off[i] + j
    BY <1>2, <2>1 DEF LaidOut
  <2>3. PICK j \in 1..Len(ss[i]) : p = off[i] + j
    BY <2>2
  <2>4. x = ss[i][j]
    BY <1>2, <2>1, <2>3 DEF LaidOut
  <2> QED
    BY <1>3, <2>4 DEF ToSet
<1>6. ASSUME NEW i \in 1..Len(ss), NEW x \in ToSet(ss[i]) PROVE x \in ToSet(flat)
  <2>1. PICK j \in 1..Len(ss[i]) : x = ss[i][j]
    BY <1>3 DEF ToSet
  <2>2. off[i] + j \in 1..Len(flat) /\ flat[off[i] + j] = x
    BY <1>2, <2>1 DEF LaidOut
  <2> QED
    BY <1>4, <2>2 DEF ToSet
<1>7. ASSUME NEW i \in 1..Len(ss) PROVE Len(ss[i]) <= Len(flat)
  <2>1. off \in [1..Len(ss) + 1 -> Nat]
    BY <1>2 DEF LaidOut, Offsets
  <2>2. i \in 1..Len(ss) + 1 /\ off[i] \in Nat
    <3>1. i \in 1..Len(ss) + 1
      BY LenProperties
    <3> QED
      BY <2>1, <3>1
  <2>3. CASE Len(ss[i]) = 0
    BY <1>4, <2>3
  <2>4. CASE Len(ss[i]) # 0
    <3>1. Len(ss[i]) \in 1..Len(ss[i])
      BY <1>3, <2>4
    <3>2. off[i] + Len(ss[i]) \in 1..Len(flat)
      BY <1>2, <3>1 DEF LaidOut
    <3> QED
      BY <1>3, <1>4, <2>2, <3>2
  <2> QED
    BY <2>3, <2>4
<1> QED
  BY <1>1, <1>5, <1>6, <1>7 DEF flat

\* The members of the sequences ss keep their order in f.
InOrder(f, ss) ==
  \A p, q \in 1..Len(f) : p < q =>
    \E i, k \in 1..Len(ss) : \E j \in 1..Len(ss[i]), l \in 1..Len(ss[k]) :
      /\ f[p] = ss[i][j] /\ f[q] = ss[k][l]
      /\ i < k \/ (i = k /\ j < l)

LEMMA FlatOrder ==
  ASSUME NEW S, NEW ss \in Seq(Seq(S))
  PROVE  InOrder(FlattenSeq(ss), ss)
<1> SUFFICES \A p, q \in 1..Len(FlattenSeq(ss)) : p < q =>
           \E i, k \in 1..Len(ss) : \E j \in 1..Len(ss[i]), l \in 1..Len(ss[k]) :
             /\ FlattenSeq(ss)[p] = ss[i][j] /\ FlattenSeq(ss)[q] = ss[k][l]
             /\ i < k \/ (i = k /\ j < l)
  BY DEF InOrder
<1> TAKE p, q \in 1..Len(FlattenSeq(ss))
<1> HAVE p < q
<1> DEFINE flat == FlattenSeq(ss)
<1>1. flat \in Seq(S)
  BY FlatPlaces
<1>2. PICK off : LaidOut(flat, off, ss)
  BY FlatPlaces
<1>3. \A i \in 1..Len(ss) : ss[i] \in Seq(S) /\ Len(ss[i]) \in Nat
  OBVIOUS
<1>4. Len(flat) \in Nat /\ Len(ss) \in Nat
  BY <1>1
<1> HIDE DEF flat
<1>12. PICK i \in 1..Len(ss) : \E j \in 1..Len(ss[i]) : p = off[i] + j
  BY <1>2 DEF LaidOut, flat
<1>5. PICK j \in 1..Len(ss[i]) : p = off[i] + j
  BY <1>12
<1>13. PICK k \in 1..Len(ss) : \E l \in 1..Len(ss[k]) : q = off[k] + l
  BY <1>2 DEF LaidOut, flat
<1>6. PICK l \in 1..Len(ss[k]) : q = off[k] + l
  BY <1>13
<1>7. flat[p] = ss[i][j] /\ flat[q] = ss[k][l]
  BY <1>2, <1>5, <1>6 DEF LaidOut
<1>8. off \in [1..Len(ss) + 1 -> Nat] /\ i \in 1..Len(ss) + 1 /\ k \in 1..Len(ss) + 1
  BY <1>2, <1>4 DEF LaidOut, Offsets
<1>9. off[i] \in Nat /\ off[k] \in Nat /\ Len(ss[i]) \in Nat /\ Len(ss[k]) \in Nat
  BY <1>3, <1>8
<1>10. k < i => off[k] + Len(ss[k]) <= off[i]
  <2>1. k < i => k \in 1..i - 1
    BY <1>4
  <2> QED
    BY <1>2, <1>8, <2>1 DEF LaidOut, Offsets
<1>11. i < k \/ (i = k /\ j < l)
  <2>1. CASE i < k
    BY <2>1
  <2>2. CASE i = k
    BY <1>5, <1>6, <1>9, <2>2
  <2>3. CASE k < i
    <3> DEFINE len == Len(ss[k])  a == off[k]  b == off[i]
    <3>2. a \in Nat /\ b \in Nat /\ len \in Nat /\ a + len <= b /\ l \in 1..len
      BY <1>9, <1>10, <2>3
    <3> HIDE DEF len, a, b
    <3>3. a + l <= b
      BY <3>2
    <3>1. off[k] + l <= off[i]
      BY <3>3 DEF a, b
    <3> QED
      BY <1>5, <1>6, <1>9, <3>1
  <2> QED
    BY <1>4, <2>1, <2>2, <2>3
<1> QED
  BY <1>7, <1>11 DEF flat

LEMMA KeptFacts ==
  ASSUME NEW S, NEW s \in Seq(S), NEW T
  PROVE  /\ Kept(s, T) \in Seq(S)
         /\ ToSet(Kept(s, T)) = ToSet(s) \cap T
         /\ \A p, q \in 1..Len(Kept(s, T)) : p < q =>
              \E i, j \in 1..Len(s) :
                i < j /\ Kept(s, T)[p] = s[i] /\ Kept(s, T)[q] = s[j]
<1> DEFINE ss == [i \in 1..Len(s) |-> IF s[i] \in T THEN <<s[i]>> ELSE <<>>]
<1>1. ss \in Seq(Seq(S)) /\ Len(ss) = Len(s)
  <2>1. \A i \in 1..Len(s) : s[i] \in S
    OBVIOUS
  <2>2. \A i \in 1..Len(s) : (IF s[i] \in T THEN <<s[i]>> ELSE <<>>) \in Seq(S)
    BY <2>1
  <2> QED
    BY <2>2
<1>2. \A i \in 1..Len(s) : /\ s[i] \in T => ss[i] = <<s[i]>>
                           /\ s[i] \notin T => ss[i] = <<>>
  BY Zenon
<1>3. Kept(s, T) = FlattenSeq(ss)
  BY DEF Kept
<1> HIDE DEF ss
<1>4. FlattenSeq(ss) \in Seq(S)
  BY <1>1, FlatMembers
<1>5. \A i \in 1..Len(s) : \A j \in 1..Len(ss[i]) :
        j = 1 /\ ss[i][j] = s[i] /\ s[i] \in T
  <2> TAKE i \in 1..Len(s)
  <2>1. CASE s[i] \in T
    <3>1. ss[i] = <<s[i]>>
      BY <1>2, <2>1
    <3>2. Len(<<s[i]>>) = 1 /\ <<s[i]>>[1] = s[i]
      OBVIOUS
    <3>3. 1..Len(ss[i]) = {1} /\ ss[i][1] = s[i]
      BY <3>1, <3>2
    <3> QED
      BY <2>1, <3>3
  <2>2. CASE s[i] \notin T
    <3>1. ss[i] = <<>> /\ Len(ss[i]) = 0
      BY <1>2, <2>2
    <3> QED
      BY <3>1
  <2> QED
    BY <2>1, <2>2
<1>6. \A i \in 1..Len(s) : ToSet(ss[i]) = {s[i]} \cap T
  <2> TAKE i \in 1..Len(s)
  <2>1. CASE s[i] \in T
    <3>1. ss[i] = <<s[i]>> /\ DOMAIN <<s[i]>> = {1} /\ <<s[i]>>[1] = s[i]
      BY <1>2, <2>1
    <3> QED
      BY <2>1, <3>1 DEF ToSet
  <2>2. CASE s[i] \notin T
    <3>1. ss[i] = <<>> /\ DOMAIN ss[i] = {}
      BY <1>2, <2>2
    <3> QED
      BY <2>2, <3>1 DEF ToSet
  <2> QED
    BY <2>1, <2>2
<1>7. ToSet(FlattenSeq(ss)) = ToSet(s) \cap T
  <2>1. \A x : x \in ToSet(FlattenSeq(ss)) <=> \E i \in 1..Len(s) : x \in ToSet(ss[i])
    BY <1>1, FlatMembers
  <2>2. ToSet(s) = {s[i] : i \in 1..Len(s)}
    BY DEF ToSet
  <2> QED
    BY <1>6, <2>1, <2>2
<1>8. ASSUME NEW p \in 1..Len(FlattenSeq(ss)), NEW q \in 1..Len(FlattenSeq(ss)), p < q
      PROVE  \E i, j \in 1..Len(s) :
                i < j /\ FlattenSeq(ss)[p] = s[i] /\ FlattenSeq(ss)[q] = s[j]
  <2>3. PICK i \in 1..Len(ss), k \in 1..Len(ss) :
           \E j \in 1..Len(ss[i]), l \in 1..Len(ss[k]) :
             /\ FlattenSeq(ss)[p] = ss[i][j] /\ FlattenSeq(ss)[q] = ss[k][l]
             /\ i < k \/ (i = k /\ j < l)
    <3> DEFINE f == FlattenSeq(ss)
    <3>1. InOrder(f, ss)
      <4>1. ss \in Seq(Seq(S))
        BY <1>1
      <4> QED
        BY <4>1, FlatOrder
    <3> HIDE DEF f
    <3>2. p \in 1..Len(f) /\ q \in 1..Len(f)
      BY DEF f
    <3>3. \E i, k \in 1..Len(ss) : \E j \in 1..Len(ss[i]), l \in 1..Len(ss[k]) :
            /\ f[p] = ss[i][j] /\ f[q] = ss[k][l]
            /\ i < k \/ (i = k /\ j < l)
      BY <1>8, <3>1, <3>2 DEF InOrder
    <3> QED
      BY <3>3 DEF f
  <2>1. PICK j \in 1..Len(ss[i]), l \in 1..Len(ss[k]) :
           /\ FlattenSeq(ss)[p] = ss[i][j] /\ FlattenSeq(ss)[q] = ss[k][l]
           /\ i < k \/ (i = k /\ j < l)
    BY <2>3
  <2>2. j = 1 /\ l = 1 /\ ss[i][j] = s[i] /\ ss[k][l] = s[k]
    BY <1>1, <1>5, <2>1
  <2> QED
    BY <1>1, <2>1, <2>2
<1> QED
  BY <1>3, <1>4, <1>7, <1>8

Event == UNION {ToSet(logs) : logs \in LogSets}
Log == [event : Event, index : Nat]
LogList == {[i \in 1..Len(logs) |-> [event |-> logs[i], index |-> i]] : logs \in LogSets}
Header == [number : Nat, fork : Nat, parent : Nat, logs : LogList]

NodeOK ==
  /\ chain \in Seq(Header)
  /\ Height \in 1..MaxHeight /\ top \in Height..MaxHeight
  /\ top >= StartHeight /\ Height > top - MaxReorgDepth
  /\ reorgs \in Nat
  /\ \A n \in 1..Height : chain[n].number = n /\ chain[n].fork <= reorgs
  /\ \A n \in 2..Height : chain[n].parent = chain[n - 1].fork

Counted == failures \in Nat /\ stops \in Nat

InChain(c, b) == b.number <= Len(c) /\ c[b.number] = b

\* A block that the node with chain c, greatest height t and r reorganisations
\* has answered with: it is in the chain, or it has given way
\* to one of a later branch, or to none.
Seen(c, t, r, b) ==
  /\ b \in Header /\ b.number \in 1..t /\ b.fork <= r
  /\ \/ InChain(c, b)
     \/ b.fork < r /\ (b.number <= Len(c) => c[b.number].fork > b.fork)

\* A piece of a chain that existed; what is no longer in the chain is at its end.
Piece(c, t, r, bs) ==
  /\ bs \in Seq(Header)
  /\ \A i \in 1..Len(bs) : Seen(c, t, r, bs[i])
  /\ \A i, j \in 1..Len(bs) : bs[j].number = bs[i].number + (j - i)
  /\ \A i \in 2..Len(bs) : bs[i].parent = bs[i - 1].fork
  /\ \A i, j \in 1..Len(bs) : i <= j /\ InChain(c, bs[j]) => InChain(c, bs[i])

Past(b) == Seen(chain, top, reorgs, b)
PieceNow(bs) == Piece(chain, top, reorgs, bs)

\* What a restart relies on, of the view v, the logs g handed over for it and
\* the last indexed block l.
ViewAt(v, g, l) ==
  /\ PieceNow(v)
  /\ g \in Seq(Seq(Log)) /\ Len(g) <= Len(v)
  /\ l \in 0..top
  /\ l = 0 => v = <<>>
  /\ l # 0 => l >= MaxReorgDepth
  /\ \A i \in 1..Len(v) : v[i].number <= l - MaxReorgDepth => InChain(chain, v[i])
  /\ v # <<>> => v[Len(v)].number >= l - MaxReorgDepth
  /\ Len(g) < Len(v) => v[Len(g) + 1].number > l - MaxReorgDepth

\* The blocks bs that are loaded or kept lie on block f, which is final.
LoadedAt(f, bs, l) ==
  /\ f \in MaxReorgDepth - 1..Final /\ f >= l - MaxReorgDepth
  /\ PieceNow(bs) /\ Len(bs) <= MaxReorgDepth
  /\ \A i \in 1..Len(bs) : bs[i].number = f + i
  /\ bs # <<>> /\ f >= 1 => bs[1].parent = chain[f].fork

Fetching ==
  /\ LoadedAt(safe, blocks, lastIndexed)
  /\ last \in safe + 1..safe + MaxReorgDepth /\ last <= top
  /\ Len(blocks) < last - safe
  /\ pending = last + 1
  /\ queue = Catchup(safe)
  /\ step = Idle
  /\ \/ latest = NoBlock
     \/ /\ Past(latest) /\ latest.number = last
        /\ last = safe + 1 /\ safe >= 1 => latest.parent = chain[safe].fork

News(bs, m) == [i \in 1..Len(bs) - m |-> NewBlock(bs[m + i])]
Floor == pending - 1 - Len(blocks)

\* The catchup after a restart has not begun.
Restarting ==
  /\ lastIndexed # 0 /\ queue = Catchup(Floor) \o News(blocks, 0)
  /\ step = Idle

\* The catchup has taken back what is not final.
FirstUncled == lastIndexed - MaxReorgDepth + 1

Rewound ==
  /\ lastIndexed # 0 /\ FirstUncled <= Floor
  /\ queue = <<Warp(FirstUncled, Floor)>> \o News(blocks, 0)
  /\ step = Idle
  /\ view # <<>> => /\ InChain(chain, view[Len(view)])
                    /\ view[Len(view)].number = FirstUncled - 1
  /\ Len(got) = Len(view)

\* The logs of block f + m have been handed over, or they are being asked for,
\* or those of a warp to block f are.
StepAt(m, f, v, g, st) ==
  \/ st = Idle /\ Len(g) = Len(v)
  \/ /\ v # <<>> /\ Len(g) = Len(v) - 1
     /\ \E retries \in 0..BlockSingleQueryRetryCount : st = Logs(v[Len(v)], retries)
  \/ /\ m = 0 /\ Len(g) < Len(v)
     /\ \E size \in 1..BlockPageSize : st = Warping(v[Len(g) + 1].number, f, size)

\* The last blocks of the view v are the first m of the blocks bs; the others
\* are queued.
FollowsAt(m, f, bs, q, v, g, st) ==
  /\ q = News(bs, m)
  /\ Len(v) >= m
  /\ \A i \in 1..m : v[Len(v) - m + i] = bs[i]
  /\ Len(v) > m => InChain(chain, v[Len(v) - m]) /\ v[Len(v) - m].number = f
  /\ StepAt(m, f, v, g, st)

Following ==
  \E m \in 0..Len(blocks) : FollowsAt(m, Floor, blocks, queue, view, got, step)

Running ==
  /\ pending \in Nat \ {0} /\ pending - 1 <= top
  /\ LoadedAt(Floor, blocks, lastIndexed)
  /\ Restarting \/ Rewound \/ Following

WatcherInv ==
  /\ NodeOK /\ ViewAt(view, got, lastIndexed) /\ Counted
  /\ \/ pc = "down" /\ step = Idle /\ blocks = <<>>
     \/ pc = "fetching" /\ Fetching
     \/ pc = "running" /\ Running

(***************************************************************************)
(* Blocks and the node.                                                    *)
(***************************************************************************)
LEMMA LogListFacts ==
  ASSUME NEW logs \in LogList
  PROVE  /\ logs \in Seq(Log)
         /\ \A i \in 1..Len(logs) : logs[i].index = i
<1>1. PICK names \in LogSets :
        logs = [i \in 1..Len(names) |-> [event |-> names[i], index |-> i]]
  BY DEF LogList
<1>2. Len(names) \in Nat /\ DOMAIN names = 1..Len(names)
  BY WatcherAssumption
<1>3. \A i \in 1..Len(names) : names[i] \in Event
  BY <1>2 DEF Event, ToSet
<1>4. \A i \in 1..Len(names) : [event |-> names[i], index |-> i] \in Log
  BY <1>2, <1>3 DEF Log
<1>5. logs \in Seq(Log) /\ Len(logs) = Len(names)
  BY <1>1, <1>2, <1>4
<1>6. ASSUME NEW i \in 1..Len(names) PROVE logs[i].index = i
  BY <1>1, <1>6
<1> QED
  BY <1>5, <1>6

LEMMA BlockFacts ==
  ASSUME NEW number \in Nat, NEW fork \in Nat, NEW parent \in Nat, NEW logs \in LogSets
  PROVE  /\ Block(number, fork, parent, logs) \in Header
         /\ Block(number, fork, parent, logs).number = number
         /\ Block(number, fork, parent, logs).fork = fork
         /\ Block(number, fork, parent, logs).parent = parent
BY DEF Block, Header, LogList

LEMMA HeaderFacts ==
  ASSUME NEW b \in Header
  PROVE  b.number \in Nat /\ b.fork \in Nat /\ b.parent \in Nat /\ b.logs \in LogList
BY DEF Header

LEMMA Heights ==
  ASSUME NodeOK
  PROVE  /\ Height \in Nat \ {0} /\ top \in Nat /\ Height <= top /\ Height <= MaxHeight
         /\ MaxReorgDepth \in Nat \ {0}
         /\ Final \in Nat /\ Final = top - MaxReorgDepth /\ Final < Height
         /\ Final >= 2 * MaxReorgDepth - 2
BY WatcherAssumption DEF NodeOK, Final, Most

LEMMA ChainFacts ==
  ASSUME NodeOK, NEW n \in 1..Height
  PROVE  /\ chain[n] \in Header /\ chain[n].number = n
         /\ InChain(chain, chain[n]) /\ Seen(chain, top, reorgs, chain[n])
<1>1. chain \in Seq(Header) /\ Height \in Nat /\ Height <= top /\ top \in Nat
  BY Heights DEF NodeOK
<1>2. chain[n] \in Header
  BY <1>1 DEF Height
<1>3. chain[n].number = n /\ chain[n].fork <= reorgs
  BY DEF NodeOK
<1>4. InChain(chain, chain[n])
  BY <1>1, <1>3 DEF InChain, Height
<1> QED
  BY <1>1, <1>2, <1>3, <1>4 DEF Seen, Height

\* The node's chain grows from block keep on, with a block of branch reorgs'.
Grows(keep) ==
  /\ keep \in Final..Height
  /\ chain' \in Seq(Header) /\ Len(chain') = keep + 1
  /\ \A n \in 1..keep : chain'[n] = chain[n]
  /\ chain'[keep + 1].number = keep + 1
  /\ chain'[keep + 1].fork = reorgs'
  /\ keep >= 1 => chain'[keep + 1].parent = chain[keep].fork
  /\ reorgs' \in Nat /\ reorgs' >= reorgs /\ (keep < Height => reorgs' > reorgs)
  /\ top' = Most(top, keep + 1)
  /\ keep < MaxHeight

LEMMA GrownFacts ==
  ASSUME NEW c \in Seq(Header), NEW fork \in Nat, NEW logs \in LogSets
  PROVE  /\ Grown(c, fork, logs) \in Seq(Header)
         /\ Len(Grown(c, fork, logs)) = Len(c) + 1
         /\ \A n \in 1..Len(c) : Grown(c, fork, logs)[n] = c[n]
         /\ Grown(c, fork, logs)[Len(c) + 1].number = Len(c) + 1
         /\ Grown(c, fork, logs)[Len(c) + 1].fork = fork
         /\ Len(c) >= 1 => Grown(c, fork, logs)[Len(c) + 1].parent = c[Len(c)].fork
<1> DEFINE b == Block(Len(c) + 1, fork, Tip(c).fork, logs)
<1>1. Len(c) \in Nat
  OBVIOUS
<1>2. Tip(c).fork \in Nat /\ (Len(c) >= 1 => Tip(c) = c[Len(c)])
  <2>1. CASE c = <<>>
    BY <2>1 DEF Tip, NoBlock
  <2>2. CASE c # <<>>
    <3>1. Len(c) \in 1..Len(c) /\ c[Len(c)] \in Header
      BY <2>2
    <3> QED
      BY <2>2, <3>1, HeaderFacts DEF Tip, Last
  <2> QED
    BY <2>1, <2>2
<1>3. b \in Header /\ b.number = Len(c) + 1 /\ b.fork = fork /\ b.parent = Tip(c).fork
  BY <1>1, <1>2, BlockFacts, SMTT(30)
<1>4. Grown(c, fork, logs) = Append(c, b)
  BY DEF Grown
<1> HIDE DEF b
<1> QED
  BY <1>1, <1>2, <1>3, <1>4

LEMMA NodeGrows ==
  ASSUME NodeOK, Mine \/ Reorg
  PROVE  \E keep \in Nat : Grows(keep)
<1>1. Height = Len(chain) /\ Len(chain) \in Nat /\ chain \in Seq(Header) /\ reorgs \in Nat
  BY DEF Height, NodeOK
<1>2. CASE Mine
  <2>1. PICK logs \in LogSets : chain' = Grown(chain, reorgs, logs)
    BY <1>2 DEF Mine
  <2>2. Height < MaxHeight /\ top' = Most(top, Height + 1) /\ reorgs' = reorgs
    BY <1>2 DEF Mine
  <2>3. /\ chain' \in Seq(Header) /\ Len(chain') = Height + 1
        /\ \A n \in 1..Height : chain'[n] = chain[n]
        /\ chain'[Height + 1].number = Height + 1
        /\ chain'[Height + 1].fork = reorgs
        /\ Height >= 1 => chain'[Height + 1].parent = chain[Height].fork
    BY <1>1, <2>1, GrownFacts, ZenonT(40)
  <2>4. Height \in Final..Height /\ ~(Height < Height)
    BY Heights
  <2>5. reorgs' >= reorgs /\ reorgs' \in Nat
    BY <1>1, <2>2
  <2>6. Grows(Height)
    BY <2>2, <2>3, <2>4, <2>5 DEF Grows
  <2> QED
    BY <1>1, <2>6
<1>3. CASE Reorg
  <2>1. PICK keep \in Final..Height - 1, logs \in LogSets :
          chain' = Grown(SubSeq(chain, 1, keep), reorgs + 1, logs)
    BY <1>3 DEF Reorg
  <2>2. Height < MaxHeight /\ top' = top /\ reorgs' = reorgs + 1
    BY <1>3 DEF Reorg
  <2>3. keep \in Nat /\ keep < Height /\ keep \in Final..Height
       /\ Height \in Nat /\ Height <= top /\ top \in Nat
    BY Heights
  <2> DEFINE c == SubSeq(chain, 1, keep)
  <2>4. c \in Seq(Header) /\ Len(c) = keep /\ \A n \in 1..keep : c[n] = chain[n]
    BY <1>1, <2>3
  <2> HIDE DEF c
  <2>5. chain' = Grown(c, reorgs + 1, logs)
    BY <2>1 DEF c
  <2>6. top' = Most(top, keep + 1)
    BY <2>2, <2>3 DEF Most
  <2>7. /\ chain' \in Seq(Header) /\ Len(chain') = keep + 1
        /\ \A n \in 1..keep : chain'[n] = c[n]
        /\ chain'[keep + 1].number = keep + 1
        /\ chain'[keep + 1].fork = reorgs + 1
        /\ keep >= 1 => chain'[keep + 1].parent = c[keep].fork
    <3>1. reorgs + 1 \in Nat
      BY <1>1
    <3> QED
      BY <2>4, <2>5, <3>1, GrownFacts, ZenonT(40)
  <2>9. /\ \A n \in 1..keep : chain'[n] = chain[n]
        /\ keep >= 1 => chain'[keep + 1].parent = chain[keep].fork
    BY <2>3, <2>4, <2>7
  <2>10. /\ chain'[keep + 1].fork = reorgs'
         /\ reorgs' \in Nat /\ reorgs' > reorgs /\ reorgs' >= reorgs
    BY <1>1, <2>2, <2>7
  <2>11. keep < MaxHeight
    BY <2>2, <2>3, Heights, WatcherAssumption
  <2>8. Grows(keep)
    BY <2>3, <2>6, <2>7, <2>9, <2>10, <2>11 DEF Grows
  <2> QED
    BY <2>3, <2>8
<1> QED
  BY <1>2, <1>3

\* What the node has answered with stays something it has answered with; what
\* had given way does not come back; the final blocks stay.
LEMMA GrowsFacts ==
  ASSUME NodeOK, NEW keep \in Nat, Grows(keep)
  PROVE  /\ NodeOK' /\ Final' >= Final /\ top' >= top /\ keep >= Final
         /\ \A b : Seen(chain, top, reorgs, b) => Seen(chain', top', reorgs', b)
         /\ \A b : Seen(chain, top, reorgs, b) /\ InChain(chain', b) => InChain(chain, b) /\ b.number <= keep
         /\ \A b : Seen(chain, top, reorgs, b) /\ InChain(chain, b) /\ b.number <= keep => InChain(chain', b)
         /\ \A n \in 1..Final : chain'[n] = chain[n]
<1>1. /\ Height \in Nat \ {0} /\ top \in Nat /\ Height <= top /\ Height <= MaxHeight
      /\ MaxReorgDepth \in Nat \ {0} /\ MaxHeight \in Nat /\ StartHeight \in Nat
      /\ Final \in Nat /\ Final = top - MaxReorgDepth
      /\ reorgs \in Nat /\ top >= StartHeight
  BY Heights, WatcherAssumption DEF NodeOK
<1>2. /\ keep >= Final /\ keep <= Height /\ Height' = keep + 1 /\ keep < MaxHeight
      /\ \A n \in 1..keep : chain'[n] = chain[n]
      /\ reorgs' \in Nat /\ reorgs' >= reorgs /\ (keep < Height => reorgs' > reorgs)
      /\ chain'[keep + 1].number = keep + 1 /\ chain'[keep + 1].fork = reorgs'
  BY <1>1 DEF Grows, Height
<1>3. top' \in Nat /\ top' >= top /\ top' >= keep + 1 /\ top' <= MaxHeight /\ keep + 1 > top' - MaxReorgDepth
  BY <1>1, <1>2 DEF Grows, Most, NodeOK
<1>4. Final' >= Final
  <2>1. Final' = Most(top' - MaxReorgDepth, 0)
    BY DEF Final
  <2>2. \A t \in Nat : t >= top => Most(t - MaxReorgDepth, 0) >= top - MaxReorgDepth
    BY <1>1 DEF Most
  <2> QED
    BY <1>1, <1>3, <2>1, <2>2
<1>5. NodeOK'
  <2>1. chain' \in Seq(Header) /\ Height' \in 1..MaxHeight /\ top' \in Height'..MaxHeight
    BY <1>1, <1>2, <1>3 DEF Grows
  <2>2. top' >= StartHeight /\ Height' > top' - MaxReorgDepth
    <3>1. \A t \in Nat : t >= top => t >= StartHeight
      BY <1>1
    <3> QED
      BY <1>1, <1>2, <1>3, <3>1
  <2>3. \A n \in 1..Height' : chain'[n].number = n /\ chain'[n].fork <= reorgs'
    <3> TAKE n \in 1..Height'
    <3>1. CASE n \in 1..keep
      <4>1. chain[n].number = n /\ chain[n].fork <= reorgs /\ chain[n].fork \in Nat
        BY <1>1, <1>2, <3>1, ChainFacts, HeaderFacts DEF NodeOK
      <4> QED
        BY <1>1, <1>2, <3>1, <4>1
    <3>2. CASE n = keep + 1
      BY <1>2, <3>2
    <3> QED
      BY <1>2, <3>1, <3>2
  <2>4. \A n \in 2..Height' : chain'[n].parent = chain'[n - 1].fork
    <3> TAKE n \in 2..Height'
    <3>1. CASE n \in 1..keep
      <4>1. n - 1 \in 1..keep /\ n \in 2..Height
        BY <1>1, <1>2, <3>1
      <4> QED
        BY <1>2, <3>1, <4>1 DEF NodeOK
    <3>2. CASE n = keep + 1
      <4>1. n - 1 = keep /\ keep >= 1 /\ keep \in 1..keep
        BY <1>1, <1>2, <3>2
      <4> QED
        BY <1>2, <3>2, <4>1 DEF Grows
    <3> QED
      BY <1>2, <3>1, <3>2
  <2> QED
    BY <1>2, <2>1, <2>2, <2>3, <2>4 DEF NodeOK
<1>6. ASSUME NEW b, Seen(chain, top, reorgs, b)
      PROVE  Seen(chain', top', reorgs', b) /\ (InChain(chain', b) => InChain(chain, b) /\ b.number <= keep)
  <2> DEFINE n == b.number  f == b.fork
  <2>1. b \in Header /\ n \in Nat /\ f \in Nat /\ n >= 1 /\ n <= top /\ f <= reorgs
    BY <1>1, <1>6, HeaderFacts DEF Seen
  <2>2. n <= top' /\ f <= reorgs'
    BY <1>1, <1>2, <1>3, <2>1
  <2>3. CASE InChain(chain, b) /\ n <= keep
    <3>1. n \in 1..keep /\ chain[n] = b
      BY <2>1, <2>3 DEF InChain, Height
    <3>2. InChain(chain', b)
      BY <1>2, <2>1, <3>1 DEF InChain, Height
    <3> QED
      BY <1>2, <1>3, <2>1, <2>2, <2>3, <3>2 DEF Seen
  <2>4. CASE ~(InChain(chain, b) /\ n <= keep)
    <3>1. f < reorgs' /\ (n <= Height' => chain'[n].fork > f)
      <4>1. CASE InChain(chain, b)
        <5>1. n > keep /\ n <= Height
          BY <1>1, <1>2, <2>1, <2>4, <4>1 DEF InChain, Height
        <5>2. f < reorgs'
          BY <1>1, <1>2, <2>1, <5>1
        <5>3. n <= Height' => n = keep + 1
          BY <1>2, <2>1, <5>1
        <5> QED
          BY <1>2, <2>1, <5>2, <5>3
      <4>2. CASE ~InChain(chain, b)
        <5>1. f < reorgs /\ (n <= Height => chain[n].fork > f)
          BY <1>6, <4>2 DEF Seen, Height
        <5>2. f < reorgs'
          BY <1>1, <1>2, <2>1, <5>1
        <5>3. n <= keep => chain'[n].fork > f
          <6>1. n <= keep => n \in 1..keep /\ n <= Height
            BY <1>1, <1>2, <2>1
          <6> QED
            BY <1>2, <5>1, <6>1
        <5>4. n = keep + 1 => chain'[n].fork > f
          BY <1>2, <2>1, <5>2
        <5> QED
          BY <1>2, <2>1, <5>2, <5>3, <5>4
      <4> QED
        BY <4>1, <4>2
    <3>2. ~InChain(chain', b)
      <4>1. SUFFICES ASSUME n <= Height', chain'[n] = b PROVE FALSE
        BY DEF InChain, Height
      <4>2. f > f
        BY <3>1, <4>1
      <4> QED
        BY <2>1, <4>2
    <3> QED
      BY <1>2, <1>3, <2>1, <2>2, <3>1, <3>2 DEF Seen, Height
  <2> QED
    BY <2>3, <2>4
<1>7. ASSUME NEW b, Seen(chain, top, reorgs, b), InChain(chain, b), b.number <= keep
      PROVE  InChain(chain', b)
  <2>1. b.number \in 1..keep
    BY <1>1, <1>2, <1>7 DEF Seen
  <2> QED
    BY <1>2, <1>7, <2>1 DEF InChain, Height
<1>8. \A n \in 1..Final : chain'[n] = chain[n]
  BY <1>1, <1>2
<1> QED
  BY <1>2, <1>3, <1>4, <1>5, <1>6, <1>7, <1>8

(***************************************************************************)
(* Pieces of a chain.                                                      *)
(***************************************************************************)
LEMMA PieceFacts ==
  ASSUME NEW c, NEW t \in Nat, NEW r, NEW bs, Piece(c, t, r, bs)
  PROVE  /\ bs \in Seq(Header) /\ Len(bs) \in Nat
         /\ \A i \in 1..Len(bs) :
              /\ bs[i] \in Header /\ Seen(c, t, r, bs[i])
              /\ bs[i].number \in Nat /\ bs[i].number >= 1 /\ bs[i].number <= t
              /\ bs[i].fork \in Nat /\ bs[i].parent \in Nat /\ bs[i].logs \in LogList
              /\ bs[i].number = bs[Len(bs)].number + (i - Len(bs))
              /\ bs[i].number = bs[1].number + (i - 1)
<1>1. bs \in Seq(Header) /\ Len(bs) \in Nat
  BY DEF Piece
<1>2. ASSUME NEW i \in 1..Len(bs)
      PROVE  /\ bs[i] \in Header /\ Seen(c, t, r, bs[i])
             /\ bs[i].number \in Nat /\ bs[i].number >= 1 /\ bs[i].number <= t
             /\ bs[i].fork \in Nat /\ bs[i].parent \in Nat /\ bs[i].logs \in LogList
             /\ bs[i].number = bs[Len(bs)].number + (i - Len(bs))
             /\ bs[i].number = bs[1].number + (i - 1)
  <2>1. bs[i] \in Header /\ Seen(c, t, r, bs[i])
    BY <1>1 DEF Piece
  <2>2. bs[i].number \in 1..t
    BY <2>1 DEF Seen
  <2>3. Len(bs) \in 1..Len(bs) /\ 1 \in 1..Len(bs)
    BY <1>1
  <2>4. /\ bs[i].number = bs[Len(bs)].number + (i - Len(bs))
        /\ bs[i].number = bs[1].number + (i - 1)
    BY <2>3 DEF Piece
  <2> QED
    BY <2>1, <2>2, <2>4, HeaderFacts
<1> QED
  BY <1>1, <1>2

LEMMA PiecePart ==
  ASSUME NEW c, NEW t \in Nat, NEW r, NEW bs, Piece(c, t, r, bs),
         NEW m \in Nat \ {0}, NEW k \in Nat, k <= Len(bs)
  PROVE  Piece(c, t, r, SubSeq(bs, m, k))
<1> DEFINE s == SubSeq(bs, m, k)
<1>1. bs \in Seq(Header) /\ Len(bs) \in Nat
  BY DEF Piece
<1>2. \A i \in m..k : bs[i] \in Header
  BY <1>1
<1>3. /\ s \in Seq(Header) /\ Len(s) = (IF m <= k THEN k - m + 1 ELSE 0)
      /\ \A i \in 1..k - m + 1 : s[i] = bs[m + i - 1]
  BY <1>2, SubSeqProperties
<1> HIDE DEF s
<1>4. \A i \in 1..Len(s) : s[i] = bs[m + i - 1] /\ m + i - 1 \in 1..Len(bs)
  BY <1>1, <1>3
<1>5. \A i \in 1..Len(s) : Seen(c, t, r, s[i])
  BY <1>4 DEF Piece
<1>6. \A i, j \in 1..Len(s) : s[j].number = s[i].number + (j - i)
  <2> TAKE i, j \in 1..Len(s)
  <2> DEFINE a == m + i - 1  b == m + j - 1
  <2>1. a \in 1..Len(bs) /\ b \in 1..Len(bs) /\ s[i] = bs[a] /\ s[j] = bs[b]
    BY <1>4
  <2>2. b - a = j - i
    BY <1>1, <1>3
  <2> HIDE DEF a, b
  <2>3. bs[b].number = bs[a].number + (b - a)
    BY <2>1 DEF Piece
  <2> QED
    BY <2>1, <2>2, <2>3
<1>7. \A i \in 2..Len(s) : s[i].parent = s[i - 1].fork
  <2> TAKE i \in 2..Len(s)
  <2> DEFINE a == m + i - 1
  <2>1. i \in 1..Len(s) /\ i - 1 \in 1..Len(s) /\ a \in 2..Len(bs) /\ m + (i - 1) - 1 = a - 1
    BY <1>1, <1>3, <1>4
  <2>2. s[i] = bs[a] /\ s[i - 1] = bs[a - 1]
    BY <1>4, <2>1
  <2> HIDE DEF a
  <2>3. bs[a].parent = bs[a - 1].fork
    BY <2>1 DEF Piece
  <2> QED
    BY <2>2, <2>3
<1>8. \A i, j \in 1..Len(s) : i <= j /\ InChain(c, s[j]) => InChain(c, s[i])
  <2> TAKE i, j \in 1..Len(s)
  <2> DEFINE a == m + i - 1  b == m + j - 1
  <2>1. a \in 1..Len(bs) /\ b \in 1..Len(bs) /\ s[i] = bs[a] /\ s[j] = bs[b]
    BY <1>4
  <2>2. i <= j => a <= b
    BY <1>1, <1>3
  <2> HIDE DEF a, b
  <2>3. a <= b /\ InChain(c, bs[b]) => InChain(c, bs[a])
    BY <2>1 DEF Piece
  <2> QED
    BY <2>1, <2>2, <2>3
<1> QED
  BY <1>3, <1>5, <1>6, <1>7, <1>8 DEF Piece, s

\* A block of the chain lies on a block of the chain.
LEMMA InChainBelow ==
  ASSUME NodeOK, NEW a, NEW b, Past(a), InChain(chain, b), b.number = a.number + 1,
         b.parent = a.fork
  PROVE  InChain(chain, a)
<1> DEFINE n == a.number
<1>1. Height \in Nat /\ chain \in Seq(Header) /\ Height = Len(chain)
  BY Heights DEF NodeOK, Height
<1>2. n \in Nat /\ n >= 1 /\ a.fork \in Nat
  <2>1. a \in Header /\ n \in 1..top
    BY DEF Past, Seen
  <2> QED
    BY <2>1, HeaderFacts
<1>3. n + 1 <= Height /\ chain[n + 1] = b
  BY <1>1 DEF InChain
<1>4. n + 1 \in 2..Height /\ (n + 1) - 1 = n
  BY <1>1, <1>2, <1>3
<1>5. chain[n + 1].parent = chain[n].fork
  BY <1>4 DEF NodeOK
<1>6. chain[n].fork = a.fork
  BY <1>3, <1>5
<1>7. n <= Len(chain)
  BY <1>1, <1>2, <1>3
<1>8. ~(chain[n].fork > a.fork)
  BY <1>2, <1>6
<1> QED
  BY <1>7, <1>8 DEF Past, Seen

LEMMA PieceAppend ==
  ASSUME NodeOK, NEW bs, PieceNow(bs), NEW b, Past(b),
         bs # <<>> => /\ b.number = bs[Len(bs)].number + 1
                      /\ b.parent = bs[Len(bs)].fork
  PROVE  PieceNow(Append(bs, b))
<1> DEFINE s == Append(bs, b)
           n == Len(bs)
<1>1. bs \in Seq(Header) /\ n \in Nat /\ b \in Header /\ b.number \in Nat
  BY HeaderFacts DEF PieceNow, Piece, Past, Seen
<1>2. /\ s \in Seq(Header) /\ Len(s) = n + 1
      /\ \A i \in 1..n : s[i] = bs[i]
      /\ s[n + 1] = b
  BY <1>1
<1> HIDE DEF s
<1>3. \A i \in 1..n + 1 : i \in 1..n \/ i = n + 1
  BY <1>1
<1>4. \A i \in 1..n : /\ Past(bs[i]) /\ bs[i].number \in Nat
                      /\ bs[i].number = bs[n].number + (i - n)
                      /\ n \in 1..n /\ bs # <<>>
  <2>1. top \in Nat /\ Piece(chain, top, reorgs, bs)
    BY Heights DEF PieceNow
  <2>2. \A i \in 1..n : /\ Past(bs[i]) /\ bs[i].number \in Nat
                        /\ bs[i].number = bs[n].number + (i - n)
    BY <2>1, PieceFacts DEF Past
  <2>3. \A i \in 1..n : n \in 1..n /\ bs # <<>>
    BY <1>1
  <2> QED
    BY <2>2, <2>3
<1>5. \A i \in 1..n + 1 : Past(s[i])
  BY <1>2, <1>3, <1>4
<1>6. \A i, j \in 1..n + 1 : s[j].number = s[i].number + (j - i)
  <2> TAKE i, j \in 1..n + 1
  <2>1. CASE i \in 1..n /\ j \in 1..n
    BY <1>2, <2>1 DEF PieceNow, Piece
  <2>2. CASE i \in 1..n /\ j = n + 1
    <3> DEFINE x == bs[i].number  y == bs[n].number
    <3>1. x = y + (i - n) /\ y \in Nat /\ b.number = y + 1
      BY <1>4, <2>2
    <3>2. s[i].number = x /\ s[j].number = y + 1
      BY <1>2, <2>2, <3>1
    <3> HIDE DEF x, y
    <3> QED
      BY <1>1, <2>2, <3>1, <3>2
  <2>3. CASE i = n + 1 /\ j \in 1..n
    <3> DEFINE x == bs[j].number  y == bs[n].number
    <3>1. x = y + (j - n) /\ y \in Nat /\ b.number = y + 1
      BY <1>4, <2>3
    <3>2. s[j].number = x /\ s[i].number = y + 1
      BY <1>2, <2>3, <3>1
    <3> HIDE DEF x, y
    <3> QED
      BY <1>1, <2>3, <3>1, <3>2
  <2>4. CASE i = n + 1 /\ j = n + 1
    BY <1>1, <1>2, <2>4
  <2> QED
    BY <1>3, <2>1, <2>2, <2>3, <2>4
<1>7. \A i \in 2..n + 1 : s[i].parent = s[i - 1].fork
  <2> TAKE i \in 2..n + 1
  <2>1. CASE i \in 2..n
    <3>1. i \in 1..n /\ i - 1 \in 1..n
      BY <1>1, <2>1
    <3> QED
      BY <1>2, <2>1, <3>1 DEF PieceNow, Piece
  <2>2. CASE i = n + 1
    <3>1. n \in 1..n /\ i - 1 = n /\ bs # <<>>
      BY <1>1, <2>2
    <3> QED
      BY <1>2, <2>2, <3>1
  <2> QED
    BY <1>1, <2>1, <2>2
<1>8. \A i, j \in 1..n + 1 : i <= j /\ InChain(chain, s[j]) => InChain(chain, s[i])
  <2> TAKE i, j \in 1..n + 1
  <2> SUFFICES ASSUME i <= j, InChain(chain, s[j]) PROVE InChain(chain, s[i])
    OBVIOUS
  <2>1. CASE j \in 1..n
    <3>1. i \in 1..n
      BY <1>1, <2>1
    <3> QED
      BY <1>2, <2>1, <3>1 DEF PieceNow, Piece
  <2>2. CASE i \in 1..n /\ j = n + 1
    <3>1. n \in 1..n /\ bs # <<>> /\ Past(bs[n]) /\ i <= n
      BY <1>4, <2>2
    <3>2. InChain(chain, bs[n])
      BY <1>2, <2>2, <3>1, InChainBelow
    <3>3. InChain(chain, bs[i])
      BY <2>2, <3>1, <3>2 DEF PieceNow, Piece
    <3> QED
      BY <1>2, <2>2, <3>3
  <2>3. CASE i = n + 1 /\ j = n + 1
    BY <2>3
  <2> QED
    BY <1>1, <1>3, <2>1, <2>2, <2>3
<1> QED
  BY <1>2, <1>5, <1>6, <1>7, <1>8 DEF PieceNow, Piece, Past, s

\* A part of the chain is a piece of it.
LEMMA ChainPiece ==
  ASSUME NodeOK, NEW bs \in Seq(Header), NEW a \in Int,
         \A i \in 1..Len(bs) : a + i \in 1..Height /\ bs[i] = chain[a + i]
  PROVE  PieceNow(bs)
<1>1. Len(bs) \in Nat /\ Height \in Nat
  BY Heights
<1>2. \A i \in 1..Len(bs) :
        bs[i].number = a + i /\ InChain(chain, bs[i]) /\ Past(bs[i])
  BY ChainFacts DEF Past
<1>3. \A i, j \in 1..Len(bs) : bs[j].number = bs[i].number + (j - i)
  BY <1>1, <1>2
<1>4. \A i \in 2..Len(bs) : bs[i].parent = bs[i - 1].fork
  <2> TAKE i \in 2..Len(bs)
  <2> DEFINE n == a + i
  <2>1. i \in 1..Len(bs) /\ i - 1 \in 1..Len(bs) /\ n - 1 = a + (i - 1)
    BY <1>1
  <2>2. n \in 1..Height /\ n - 1 \in 1..Height /\ bs[i] = chain[n] /\ bs[i - 1] = chain[n - 1]
    BY <2>1
  <2>3. n \in 2..Height
    BY <1>1, <2>2
  <2> HIDE DEF n
  <2>4. chain[n].parent = chain[n - 1].fork
    BY <2>3 DEF NodeOK
  <2> QED
    BY <2>2, <2>4
<1> QED
  BY <1>2, <1>3, <1>4 DEF PieceNow, Piece, Past

LEMMA PieceGrows ==
  ASSUME NodeOK, NEW keep \in Nat, Grows(keep), NEW bs, PieceNow(bs)
  PROVE  Piece(chain', top', reorgs', bs)
<1>1. top \in Nat
  BY Heights
<1>2. \A b : Seen(chain, top, reorgs, b) => Seen(chain', top', reorgs', b)
  BY GrowsFacts
<1>3. \A b : Seen(chain, top, reorgs, b) /\ InChain(chain', b) => InChain(chain, b) /\ b.number <= keep
  BY GrowsFacts
<1>4. \A b : Seen(chain, top, reorgs, b) /\ InChain(chain, b) /\ b.number <= keep => InChain(chain', b)
  BY GrowsFacts
<1>5. \A i, j \in 1..Len(bs) : i <= j /\ InChain(chain', bs[j]) => InChain(chain', bs[i])
  <2> TAKE i, j \in 1..Len(bs)
  <2> SUFFICES ASSUME i <= j, InChain(chain', bs[j]) PROVE InChain(chain', bs[i])
    OBVIOUS
  <2>1. Seen(chain, top, reorgs, bs[i]) /\ Seen(chain, top, reorgs, bs[j])
    BY DEF PieceNow, Piece
  <2>2. InChain(chain, bs[j]) /\ bs[j].number <= keep
    BY <1>3, <2>1
  <2>3. InChain(chain, bs[i])
    BY <2>2 DEF PieceNow, Piece
  <2> DEFINE x == bs[i].number  y == bs[j].number
  <2>4. y = x + (j - i) /\ x \in Nat
    BY <1>1, PieceFacts DEF PieceNow, Piece
  <2>5. y <= keep
    BY <2>2
  <2> HIDE DEF x, y
  <2>6. Len(bs) \in Nat
    BY <1>1, PieceFacts DEF PieceNow
  <2>7. x <= keep
    BY <2>4, <2>5, <2>6
  <2> QED
    BY <1>4, <2>1, <2>3, <2>7 DEF x
<1> QED
  BY <1>2, <1>5 DEF PieceNow, Piece

(***************************************************************************)
(* The view and the blocks that are loaded.                                *)
(***************************************************************************)
LEMMA ViewFacts ==
  ASSUME NodeOK, NEW v, NEW g, NEW l, ViewAt(v, g, l)
  PROVE  /\ PieceNow(v) /\ v \in Seq(Header) /\ Len(v) \in Nat
         /\ g \in Seq(Seq(Log)) /\ Len(g) \in Nat /\ Len(g) <= Len(v)
         /\ l \in Nat /\ l <= top
         /\ l # 0 => l >= MaxReorgDepth
         /\ \A i \in 1..Len(v) :
              /\ v[i] \in Header /\ Past(v[i]) /\ v[i].logs \in LogList
              /\ v[i].number \in Nat /\ v[i].number >= 1 /\ v[i].number <= top
              /\ v[i].fork \in Nat
              /\ v[i].number = v[Len(v)].number + (i - Len(v))
<1>1. top \in Nat
  BY Heights
<1>2. Piece(chain, top, reorgs, v)
  BY DEF ViewAt, PieceNow
<1>3. l \in 0..top /\ g \in Seq(Seq(Log)) /\ Len(g) \in Nat /\ Len(g) <= Len(v)
  BY DEF ViewAt
<1>4. l # 0 => l >= MaxReorgDepth
  BY DEF ViewAt
<1>5. /\ v \in Seq(Header) /\ Len(v) \in Nat
      /\ \A i \in 1..Len(v) :
           /\ v[i] \in Header /\ Seen(chain, top, reorgs, v[i])
           /\ v[i].number \in Nat /\ v[i].number >= 1 /\ v[i].number <= top
           /\ v[i].fork \in Nat /\ v[i].logs \in LogList
           /\ v[i].number = v[Len(v)].number + (i - Len(v))
  BY <1>1, <1>2, PieceFacts
<1>6. l \in Nat /\ l <= top
  BY <1>1, <1>3
<1>7. \A i \in 1..Len(v) : Past(v[i])
  BY <1>5 DEF Past
<1> QED
  BY <1>2, <1>3, <1>4, <1>5, <1>6, <1>7 DEF PieceNow

LEMMA LoadedFacts ==
  ASSUME NodeOK, NEW f, NEW bs, NEW l, LoadedAt(f, bs, l)
  PROVE  /\ f \in Nat /\ f >= MaxReorgDepth - 1 /\ f <= Final /\ f >= l - MaxReorgDepth
         /\ PieceNow(bs) /\ bs \in Seq(Header) /\ Len(bs) \in Nat /\ Len(bs) <= MaxReorgDepth
         /\ \A i \in 1..Len(bs) :
              /\ bs[i] \in Header /\ Past(bs[i]) /\ bs[i].number = f + i
              /\ bs[i].fork \in Nat
<1>1. top \in Nat /\ MaxReorgDepth \in Nat \ {0} /\ Final \in Nat
  BY Heights
<1>2. Piece(chain, top, reorgs, bs)
  BY DEF LoadedAt, PieceNow
<1>3. /\ f \in MaxReorgDepth - 1..Final /\ f >= l - MaxReorgDepth
      /\ Len(bs) <= MaxReorgDepth /\ \A i \in 1..Len(bs) : bs[i].number = f + i
  BY DEF LoadedAt
<1>4. /\ bs \in Seq(Header) /\ Len(bs) \in Nat
      /\ \A i \in 1..Len(bs) : bs[i] \in Header /\ Seen(chain, top, reorgs, bs[i]) /\ bs[i].fork \in Nat
  BY <1>1, <1>2, PieceFacts
<1>5. f \in Nat /\ f >= MaxReorgDepth - 1 /\ f <= Final
  BY <1>1, <1>3
<1> QED
  BY <1>2, <1>3, <1>4, <1>5 DEF PieceNow, Past

\* The numbers of the view, and which of its blocks are in the chain.
LEMMA FollowsNumbers ==
  ASSUME NodeOK, NEW m \in Nat, NEW f, NEW bs, NEW q, NEW v, NEW g, NEW st, NEW l,
         LoadedAt(f, bs, l), ViewAt(v, g, l), m <= Len(bs), FollowsAt(m, f, bs, q, v, g, st)
  PROVE  \A i \in 1..Len(v) : /\ v[i].number = f + m - Len(v) + i
                              /\ v[i].number <= f => InChain(chain, v[i])
<1>1. /\ Len(v) \in Nat /\ f \in Nat /\ Len(bs) \in Nat
      /\ \A i \in 1..Len(bs) : bs[i].number = f + i
  BY ViewFacts, LoadedFacts
<1>2. \A i, j \in 1..Len(v) : v[j].number = v[i].number + (j - i)
  BY DEF ViewAt, PieceNow, Piece
<1>3. Len(v) >= m
  BY DEF FollowsAt
<1>4. \A i \in 1..m : v[Len(v) - m + i] = bs[i]
  BY DEF FollowsAt
<1>5. Len(v) > m => InChain(chain, v[Len(v) - m]) /\ v[Len(v) - m].number = f
  BY DEF FollowsAt
<1> DEFINE n == Len(v)
<1>6. ASSUME NEW i \in 1..n PROVE v[i].number = f + m - n + i
  <2>1. CASE m > 0
    <3>1. m \in 1..m /\ m \in 1..Len(bs) /\ n - m + m = n /\ n \in 1..n
      BY <1>1, <1>3, <2>1
    <3>2. v[n] = bs[m] /\ bs[m].number = f + m
      BY <1>1, <1>4, <3>1
    <3>3. v[i].number = (f + m) + (i - n)
      BY <1>2, <3>1, <3>2
    <3> QED
      BY <1>1, <3>3
  <2>2. CASE m = 0
    <3>1. n > m /\ n - m = n /\ n \in 1..n
      BY <1>1, <2>2
    <3>2. v[n].number = f
      BY <1>5, <3>1
    <3>3. v[i].number = f + (i - n)
      BY <1>2, <3>1, <3>2
    <3> QED
      BY <1>1, <2>2, <3>3
  <2> QED
    BY <2>1, <2>2
<1>7. ASSUME NEW i \in 1..n, v[i].number <= f PROVE InChain(chain, v[i])
  <2>1. f + m - n + i <= f
    BY <1>6, <1>7
  <2>2. n - m \in 1..n /\ i <= n - m /\ n > m
    BY <1>1, <1>3, <2>1
  <2>3. InChain(chain, v[n - m])
    BY <1>5, <2>2
  <2>4. \A j \in 1..n : i <= j /\ InChain(chain, v[j]) => InChain(chain, v[i])
    BY DEF ViewAt, PieceNow, Piece
  <2> QED
    BY <2>2, <2>3, <2>4
<1> QED
  BY <1>6, <1>7

\* A view that is extended by the next of the blocks stays a piece of a chain.
LEMMA FollowsLink ==
  ASSUME NodeOK, NEW m \in Nat, NEW f, NEW bs, NEW q, NEW v, NEW g, NEW st, NEW l,
         LoadedAt(f, bs, l), ViewAt(v, g, l), m <= Len(bs), FollowsAt(m, f, bs, q, v, g, st),
         NEW b, Past(b), b.number = f + m + 1,
         m > 0 => b.parent = bs[m].fork,
         m = 0 /\ f >= 1 => b.parent = chain[f].fork
  PROVE  PieceNow(Append(v, b))
<1>1. /\ Len(v) \in Nat /\ f \in Nat /\ Len(bs) \in Nat /\ PieceNow(v)
      /\ v \in Seq(Header)
      /\ \A i \in 1..Len(bs) : bs[i].number = f + i
      /\ \A i \in 1..Len(v) : v[i].number >= 1
  BY ViewFacts, LoadedFacts
<1>2. Len(v) >= m /\ (Len(v) > m => InChain(chain, v[Len(v) - m]) /\ v[Len(v) - m].number = f)
  BY DEF FollowsAt
<1>3. \A i \in 1..m : v[Len(v) - m + i] = bs[i]
  BY DEF FollowsAt
<1>4. CASE v = <<>>
  BY <1>1, <1>4, PieceAppend
<1>5. CASE v # <<>>
  <2>1. Len(v) \in 1..Len(v)
    BY <1>1, <1>5
  <2>2. CASE m > 0
    <3>1. m \in 1..m /\ m \in 1..Len(bs) /\ Len(v) - m + m = Len(v)
      BY <1>1, <2>2
    <3>2. v[Len(v)] = bs[m] /\ bs[m].number = f + m
      BY <1>1, <1>3, <3>1
    <3> QED
      BY <1>1, <2>2, <3>2, PieceAppend
  <2>3. CASE m = 0
    <3>1. Len(v) > m /\ Len(v) - m = Len(v)
      BY <1>1, <2>1, <2>3
    <3>2. InChain(chain, v[Len(v)]) /\ v[Len(v)].number = f
      BY <1>2, <3>1
    <3>3. f >= 1 /\ chain[f] = v[Len(v)]
      BY <1>1, <2>1, <3>2 DEF InChain
    <3>4. b.number = v[Len(v)].number + 1 /\ b.parent = v[Len(v)].fork
      BY <1>1, <2>3, <3>2, <3>3
    <3> QED
      BY <1>1, <3>4, PieceAppend
  <2> QED
    BY <2>2, <2>3
<1> QED
  BY <1>4, <1>5

\* A block is reported; f2 is the final block the kept ones then lie on.
LEMMA ReportView ==
  ASSUME NodeOK, NEW v, NEW g, NEW l, ViewAt(v, g, l), Len(g) = Len(v),
         NEW b, Past(b), PieceNow(Append(v, b)),
         NEW f2 \in Nat, f2 >= MaxReorgDepth - 1, f2 >= l - MaxReorgDepth,
         f2 >= b.number - MaxReorgDepth, b.number > f2,
         \A i \in 1..Len(v) : v[i].number <= f2 => InChain(chain, v[i])
  PROVE  ViewAt(Append(v, b), g, Most(l, b.number))
<1> DEFINE w == Append(v, b)
           k == Most(l, b.number)
           D == MaxReorgDepth
<1>1. /\ v \in Seq(Header) /\ Len(v) \in Nat /\ g \in Seq(Seq(Log)) /\ l \in Nat /\ l <= top
      /\ D \in Nat \ {0} /\ top \in Nat
      /\ \A i \in 1..Len(v) : v[i].number \in Nat
  BY ViewFacts, Heights
<1>2. b \in Header /\ b.number \in Nat /\ b.number <= top /\ b.number >= 1
  BY <1>1 DEF Past, Seen
<1>3. k \in Nat /\ k <= top /\ k # 0 /\ k >= D /\ k - D <= f2
  BY <1>1, <1>2 DEF Most
<1> HIDE DEF k
<1>4. Len(w) = Len(v) + 1 /\ w[Len(v) + 1] = b /\ \A i \in 1..Len(v) : w[i] = v[i]
  BY <1>1, <1>2
<1>5. b.number > k - D
  BY <1>1, <1>2, <1>3
<1>6. ASSUME NEW i \in 1..Len(w), w[i].number <= k - D PROVE InChain(chain, w[i])
  <2>1. CASE i \in 1..Len(v)
    <3>1. v[i].number <= k - D /\ v[i].number \in Nat
      BY <1>1, <1>4, <1>6, <2>1
    <3>2. v[i].number <= f2
      BY <1>1, <1>3, <3>1
    <3> QED
      BY <1>4, <2>1, <3>2
  <2>2. CASE i = Len(v) + 1
    BY <1>1, <1>2, <1>3, <1>4, <1>5, <1>6, <2>2
  <2> QED
    BY <1>1, <1>4, <2>1, <2>2
<1>7. w[Len(w)].number >= k - D
  <2>1. b.number >= k - D
    BY <1>1, <1>2, <1>3, <1>5
  <2> QED
    BY <1>4, <2>1
<1>8. Len(g) < Len(w) => w[Len(g) + 1].number > k - D
  BY <1>4, <1>5
<1>9. Len(g) <= Len(w) /\ k \in 0..top
  BY <1>1, <1>3, <1>4
<1> HIDE DEF w
<1> QED
  BY <1>1, <1>3, <1>6, <1>7, <1>8, <1>9 DEF ViewAt, w, k

\* Blocks are taken back.
LEMMA CutView ==
  ASSUME NodeOK, NEW v, NEW g, NEW l, ViewAt(v, g, l),
         NEW k \in 0..Len(v), k <= Len(g), k > 0 => v[k].number >= l - MaxReorgDepth
  PROVE  /\ ViewAt(SubSeq(v, 1, k), SubSeq(g, 1, k), l)
         /\ Len(SubSeq(v, 1, k)) = k /\ Len(SubSeq(g, 1, k)) = k
         /\ \A i \in 1..k : SubSeq(v, 1, k)[i] = v[i]
         /\ \A i \in 1..k : SubSeq(g, 1, k)[i] = g[i]
<1> DEFINE w == SubSeq(v, 1, k)
           h == SubSeq(g, 1, k)
<1>1. /\ v \in Seq(Header) /\ Len(v) \in Nat /\ g \in Seq(Seq(Log)) /\ Len(g) \in Nat
      /\ l \in Nat /\ l <= top /\ top \in Nat
  BY ViewFacts, Heights
<1>2. k \in Nat /\ k <= Len(v)
  BY <1>1
<1>3. PieceNow(w)
  BY <1>1, <1>2, PiecePart DEF ViewAt, PieceNow
<1>4. Len(w) = k /\ (\A i \in 1..k : w[i] = v[i])
  BY <1>1, <1>2
<1>5. h \in Seq(Seq(Log)) /\ Len(h) = k /\ (\A i \in 1..k : h[i] = g[i])
  BY <1>1, <1>2
<1> HIDE DEF w, h
<1>6. \A i \in 1..Len(w) : w[i].number <= l - MaxReorgDepth => InChain(chain, w[i])
  <2>1. \A i \in 1..Len(v) : v[i].number <= l - MaxReorgDepth => InChain(chain, v[i])
    BY DEF ViewAt
  <2>2. \A i \in 1..Len(w) : i \in 1..Len(v) /\ w[i] = v[i]
    BY <1>1, <1>2, <1>4
  <2> QED
    BY <2>1, <2>2
<1>7. l = 0 => w = <<>>
  <2>1. l = 0 => Len(v) = 0
    BY DEF ViewAt
  <2>2. w \in Seq(Header)
    BY <1>3 DEF PieceNow, Piece
  <2> QED
    BY <1>1, <1>2, <1>4, <2>1, <2>2
<1>8. w # <<>> => w[Len(w)].number >= l - MaxReorgDepth
  <2>1. w # <<>> => k > 0 /\ k \in 1..k
    <3>1. w \in Seq(Header)
      BY <1>3 DEF PieceNow, Piece
    <3> QED
      BY <1>2, <1>4, <3>1
  <2> QED
    BY <1>4, <2>1
<1>9. l # 0 => l >= MaxReorgDepth
  BY ViewFacts
<1> QED
  BY <1>1, <1>2, <1>3, <1>4, <1>5, <1>6, <1>7, <1>8, <1>9 DEF ViewAt, w, h

(***************************************************************************)
(* Growth and reorganisations of the chain.                                *)
(***************************************************************************)
LEMMA NodeStep ==
  ASSUME WatcherInv, Mine \/ Reorg
  PROVE  WatcherInv'
<1>1. /\ NodeOK /\ ViewAt(view, got, lastIndexed) /\ Counted
      /\ \/ pc = "down" /\ step = Idle /\ blocks = <<>>
         \/ pc = "fetching" /\ Fetching
         \/ pc = "running" /\ Running
  BY DEF WatcherInv
<1>2. /\ pc' = pc /\ latest' = latest /\ safe' = safe /\ last' = last /\ blocks' = blocks
      /\ pending' = pending /\ queue' = queue /\ step' = step
      /\ lastIndexed' = lastIndexed /\ view' = view /\ got' = got
      /\ failures' = failures /\ stops' = stops
  BY DEF Mine, Reorg, blockWatcher, consumer
<1>3. PICK keep \in Nat : Grows(keep)
  BY <1>1, NodeGrows
<1>4. /\ NodeOK' /\ Final' >= Final /\ top' >= top /\ keep >= Final
      /\ \A b : Past(b) => Seen(chain', top', reorgs', b)
      /\ \A b : Past(b) /\ InChain(chain, b) /\ b.number <= keep => InChain(chain', b)
      /\ \A n \in 1..Final : chain'[n] = chain[n]
  BY <1>1, <1>3, GrowsFacts DEF Past
<1>5. /\ top \in Nat /\ Final \in Nat /\ MaxReorgDepth \in Nat \ {0}
      /\ Final = top - MaxReorgDepth
  BY <1>1, Heights
<1>6. top' \in Nat /\ Final' \in Nat
  <2>1. top' \in Nat
    BY <1>4, WatcherAssumption DEF NodeOK
  <2>2. \A t \in Nat : Most(t - MaxReorgDepth, 0) \in Nat
    BY <1>5 DEF Most
  <2> QED
    BY <2>1, <2>2 DEF Final
<1>7. \A bs : PieceNow(bs) => Piece(chain', top', reorgs', bs)
  BY <1>1, <1>3, PieceGrows
<1>8. \A b : Past(b) /\ InChain(chain, b) /\ b.number \in Nat /\ b.number <= Final
        => InChain(chain', b)
  <2> TAKE b
  <2>1. b.number \in Nat /\ b.number <= Final => b.number <= keep
    BY <1>3, <1>4, <1>5
  <2> QED
    BY <1>4, <2>1
<1>9. /\ view \in Seq(Header) /\ Len(view) \in Nat /\ lastIndexed \in Nat /\ lastIndexed <= top
      /\ \A i \in 1..Len(view) : Past(view[i]) /\ view[i].number \in Nat
  BY <1>1, ViewFacts
<1>10. ViewAt(view, got, lastIndexed)'
  <2>1. lastIndexed \in 0..top'
    <3>1. \A t \in Nat : t >= top => lastIndexed <= t
      BY <1>5, <1>9
    <3> QED
      BY <1>4, <1>6, <1>9, <3>1
  <2>2. \A i \in 1..Len(view) :
          view[i].number <= lastIndexed - MaxReorgDepth => InChain(chain', view[i])
    <3> TAKE i \in 1..Len(view)
    <3> SUFFICES ASSUME view[i].number <= lastIndexed - MaxReorgDepth
                 PROVE  InChain(chain', view[i])
      OBVIOUS
    <3>1. InChain(chain, view[i])
      BY <1>1 DEF ViewAt
    <3>2. view[i].number <= Final
      BY <1>5, <1>9
    <3> QED
      BY <1>8, <1>9, <3>1, <3>2
  <2>3. Piece(chain', top', reorgs', view)
    BY <1>1, <1>7 DEF ViewAt
  <2> QED
    BY <1>1, <1>2, <2>1, <2>2, <2>3 DEF ViewAt, PieceNow
<1>11. Counted'
  BY <1>1, <1>2 DEF Counted
<1>12. ASSUME NEW f, LoadedAt(f, blocks, lastIndexed)
       PROVE  /\ f \in Nat /\ f <= Final /\ (f >= 1 => chain'[f] = chain[f])
              /\ f \in MaxReorgDepth - 1..Final' /\ f >= lastIndexed - MaxReorgDepth
              /\ Piece(chain', top', reorgs', blocks) /\ Len(blocks) <= MaxReorgDepth
              /\ \A i \in 1..Len(blocks) : blocks[i].number = f + i
              /\ blocks # <<>> /\ f >= 1 => blocks[1].parent = chain'[f].fork
  <2>1. f \in Nat /\ f >= MaxReorgDepth - 1 /\ f <= Final
    BY <1>1, <1>12, LoadedFacts
  <2>2. f >= 1 => chain'[f] = chain[f]
    BY <1>4, <1>5, <2>1
  <2>3. f \in MaxReorgDepth - 1..Final'
    <3>1. \A t \in Nat : t >= Final => f <= t
      BY <1>5, <2>1
    <3> QED
      BY <1>4, <1>5, <1>6, <2>1, <3>1
  <2>4. Piece(chain', top', reorgs', blocks)
    BY <1>7, <1>12 DEF LoadedAt
  <2> QED
    BY <1>12, <2>1, <2>2, <2>3, <2>4 DEF LoadedAt
<1>13. CASE pc = "down" /\ step = Idle /\ blocks = <<>>
  BY <1>2, <1>4, <1>10, <1>11, <1>13 DEF WatcherInv
<1>14. CASE pc = "fetching" /\ Fetching
  <2>1. LoadedAt(safe, blocks, lastIndexed)
    BY <1>14 DEF Fetching
  <2>2. LoadedAt(safe, blocks, lastIndexed)'
    BY <1>2, <1>12, <2>1 DEF LoadedAt, PieceNow
  <2>3. last <= top'
    <3>1. \A t \in Nat : t >= top => last <= t
      <4>1. last <= top /\ last \in Nat
        BY <1>12, <2>1, <1>14, <1>5 DEF Fetching
      <4> QED
        BY <4>1, <1>5
    <3> QED
      BY <1>4, <1>6, <3>1
  <2>4. latest # NoBlock =>
           /\ Seen(chain', top', reorgs', latest) /\ latest.number = last
           /\ last = safe + 1 /\ safe >= 1 => latest.parent = chain'[safe].fork
    BY <1>4, <1>12, <1>14, <2>1 DEF Fetching
  <2>5. (queue = Catchup(safe))'
    BY <1>2, <1>14 DEF Fetching, Catchup
  <2>6. Fetching'
    BY <1>2, <1>14, <2>2, <2>3, <2>4, <2>5 DEF Fetching, Past
  <2> QED
    BY <1>2, <1>4, <1>10, <1>11, <1>14, <2>6 DEF WatcherInv
<1>15. CASE pc = "running" /\ Running
  <2>1. LoadedAt(Floor, blocks, lastIndexed) /\ Floor' = Floor
    BY <1>2, <1>15 DEF Running, Floor
  <2>2. LoadedAt(Floor, blocks, lastIndexed)'
    BY <1>2, <1>12, <2>1 DEF LoadedAt, PieceNow
  <2>3. (pending \in Nat \ {0} /\ pending - 1 <= top)'
    <3>1. pending \in Nat \ {0} /\ pending - 1 <= top
      BY <1>15 DEF Running
    <3>2. \A t \in Nat : t >= top => pending - 1 <= t
      BY <1>5, <3>1
    <3> QED
      BY <1>2, <1>4, <1>6, <3>1, <3>2
  <2>4. CASE Restarting
    <3>1. Restarting'
      BY <1>2, <2>1, <2>4 DEF Restarting, Catchup, News
    <3> QED
      BY <1>2, <1>4, <1>10, <1>11, <1>15, <2>2, <2>3, <3>1 DEF WatcherInv, Running
  <2>5. CASE Rewound
    <3>1. view # <<>> => InChain(chain', view[Len(view)])
      <4>1. ASSUME view # <<>> PROVE InChain(chain', view[Len(view)])
        <5>1. Len(view) \in 1..Len(view)
          BY <1>9, <4>1
        <5>2. /\ InChain(chain, view[Len(view)])
              /\ view[Len(view)].number = FirstUncled - 1
          BY <2>5, <4>1 DEF Rewound
        <5>3. view[Len(view)].number <= Final
          BY <1>5, <1>9, <5>2 DEF FirstUncled
        <5> QED
          BY <1>8, <1>9, <5>1, <5>2, <5>3
      <4> QED
        BY <4>1
    <3>2. Rewound'
      BY <1>2, <2>1, <2>5, <3>1 DEF Rewound, FirstUncled, News
    <3> QED
      BY <1>2, <1>4, <1>10, <1>11, <1>15, <2>2, <2>3, <3>2 DEF WatcherInv, Running
  <2>6. CASE Following
    <3>1. PICK m \in 0..Len(blocks) : FollowsAt(m, Floor, blocks, queue, view, got, step)
      BY <2>6 DEF Following
    <3>2. Len(view) > m => InChain(chain', view[Len(view) - m])
      <4>1. ASSUME Len(view) > m PROVE InChain(chain', view[Len(view) - m])
        <5>1. Len(view) - m \in 1..Len(view) /\ Floor \in Nat /\ Floor <= Final
          <6>1. Len(blocks) \in Nat
            BY <1>1, <2>1, LoadedFacts
          <6> QED
            BY <1>9, <1>12, <2>1, <4>1, <6>1
        <5>2. InChain(chain, view[Len(view) - m]) /\ view[Len(view) - m].number = Floor
          BY <3>1, <4>1 DEF FollowsAt
        <5> QED
          BY <1>8, <1>9, <5>1, <5>2
      <4> QED
        BY <4>1
    <3>3. FollowsAt(m, Floor, blocks, queue, view, got, step)'
      BY <1>2, <2>1, <3>1, <3>2 DEF FollowsAt, StepAt, News
    <3>4. Following'
      BY <1>2, <3>3 DEF Following
    <3> QED
      BY <1>2, <1>4, <1>10, <1>11, <1>15, <2>2, <2>3, <3>4 DEF WatcherInv, Running
  <2> QED
    BY <1>15, <2>4, <2>5, <2>6 DEF Running
<1> QED
  BY <1>1, <1>13, <1>14, <1>15

(***************************************************************************)
(* Start, loading and stop.                                                *)
(***************************************************************************)
LEMMA NodeSame ==
  ASSUME UNCHANGED node
  PROVE  /\ chain' = chain /\ top' = top /\ reorgs' = reorgs
         /\ NodeOK => NodeOK'
         /\ Final' = Final /\ Height' = Height
<1>1. chain' = chain /\ top' = top /\ reorgs' = reorgs
  BY DEF node
<1>2. Final' = Final /\ Height' = Height
  BY <1>1 DEF Final, Height
<1> QED
  BY <1>1, <1>2 DEF NodeOK

LEMMA ViewSame ==
  ASSUME ViewAt(view, got, lastIndexed), UNCHANGED node, UNCHANGED consumer
  PROVE  ViewAt(view, got, lastIndexed)'
<1>1. chain' = chain /\ top' = top /\ reorgs' = reorgs
  BY NodeSame
<1>2. view' = view /\ got' = got /\ lastIndexed' = lastIndexed
  BY DEF consumer
<1> QED
  BY <1>1, <1>2 DEF ViewAt, PieceNow

LEMMA CountedStep ==
  ASSUME Counted, UNCHANGED failures \/ Failing, UNCHANGED stops \/ stops' = stops + 1
  PROVE  Counted'
BY DEF Counted, Failing

LEMMA HaltStep ==
  ASSUME WatcherInv, FetchFails \/ Stop
  PROVE  WatcherInv'
<1>1. NodeOK /\ ViewAt(view, got, lastIndexed) /\ Counted
  BY DEF WatcherInv
<1>2. /\ pc' = "down" /\ step' = Idle /\ blocks' = <<>>
      /\ UNCHANGED node /\ UNCHANGED consumer
      /\ UNCHANGED failures \/ Failing
      /\ UNCHANGED stops \/ stops' = stops + 1
  BY DEF FetchFails, Stop, Halt
<1>3. NodeOK' /\ ViewAt(view, got, lastIndexed)' /\ Counted'
  BY <1>1, <1>2, NodeSame, ViewSame, CountedStep
<1> QED
  BY <1>2, <1>3 DEF WatcherInv

LEMMA StartStep ==
  ASSUME WatcherInv, Start
  PROVE  WatcherInv'
<1>1. NodeOK /\ ViewAt(view, got, lastIndexed) /\ Counted /\ step = Idle
  BY DEF WatcherInv, Start, Fetching, Running
<1>2. /\ pc' = "fetching" /\ step' = step /\ blocks' = <<>>
      /\ latest' = Last(chain) /\ last' = Height
      /\ safe' = Most(Height - MaxReorgDepth, 0)
      /\ pending' = Height + 1 /\ queue' = Catchup(safe')
      /\ UNCHANGED node /\ UNCHANGED consumer
      /\ UNCHANGED failures /\ UNCHANGED stops
      /\ Height >= lastIndexed
  BY DEF Start
<1>3. NodeOK' /\ ViewAt(view, got, lastIndexed)' /\ Counted'
  BY <1>1, <1>2, NodeSame, ViewSame, CountedStep
<1>4. /\ Height \in Nat \ {0} /\ top \in Nat /\ Height <= top
      /\ MaxReorgDepth \in Nat \ {0} /\ Final \in Nat /\ Final = top - MaxReorgDepth
      /\ Final < Height /\ Final >= 2 * MaxReorgDepth - 2
  BY <1>1, Heights
<1>5. lastIndexed \in Nat /\ lastIndexed <= top
  BY <1>1, ViewFacts
<1> DEFINE f == Height - MaxReorgDepth
<1>6. f \in Nat /\ safe' = f /\ f >= MaxReorgDepth - 1 /\ f <= Final
      /\ f >= lastIndexed - MaxReorgDepth
  BY <1>2, <1>4, <1>5 DEF Most
<1>7. PieceNow(<<>>)
  BY DEF PieceNow, Piece
<1>8. LoadedAt(f, <<>>, lastIndexed)
  BY <1>4, <1>6, <1>7 DEF LoadedAt
<1>9. Height \in 1..Height /\ Last(chain) = chain[Height]
  BY <1>4 DEF Last, Height
<1>10. Past(Last(chain)) /\ Last(chain).number = Height
  BY <1>1, <1>9, ChainFacts DEF Past
<1>11. Height = f + 1 /\ f >= 1 => Last(chain).parent = chain[f].fork
  <2>1. Height = f + 1 /\ f >= 1 => Height \in 2..Height /\ Height - 1 = f
    BY <1>4, <1>6
  <2> QED
    BY <1>1, <1>9, <2>1 DEF NodeOK
<1>12. Height \in f + 1..f + MaxReorgDepth /\ Len(<<>>) < Height - f
  BY <1>4
<1> HIDE DEF f
<1>13. chain' = chain /\ top' = top /\ reorgs' = reorgs /\ Final' = Final
  BY <1>2, NodeSame
<1>14. lastIndexed' = lastIndexed
  BY <1>2 DEF consumer
<1>15. LoadedAt(safe, blocks, lastIndexed)'
  BY <1>2, <1>6, <1>8, <1>13, <1>14 DEF LoadedAt, PieceNow
<1>16. (queue = Catchup(safe))'
  BY <1>2, <1>14 DEF Catchup
<1>17. Past(latest)'
  BY <1>2, <1>10, <1>13 DEF Past
<1>18. Fetching'
  BY <1>1, <1>2, <1>4, <1>6, <1>10, <1>11, <1>12, <1>13, <1>15, <1>16, <1>17 DEF Fetching, Idle
<1> QED
  BY <1>2, <1>3, <1>18 DEF WatcherInv

LEMMA FetchStep ==
  ASSUME WatcherInv, Fetch
  PROVE  /\ WatcherInv'
         /\ pc' = "running" => /\ Floor' = safe /\ blocks' \in Seq(Header)
                              /\ queue' = Catchup(safe) \o News(blocks', 0)
<1>1. NodeOK /\ ViewAt(view, got, lastIndexed) /\ Counted /\ Fetching /\ pc = "fetching"
  BY DEF WatcherInv, Fetch
<1> DEFINE b == IF latest.number = Cursor THEN latest ELSE chain[Cursor]
           fits == blocks = <<>> \/ Last(blocks).fork = b.parent
           n == Len(blocks)
<1>2. /\ blocks' = IF fits THEN Append(blocks, b) ELSE <<>>
      /\ IF fits /\ Cursor = last
         THEN /\ pc' = "running"
              /\ queue' = queue \o [i \in 1..Len(blocks') |-> NewBlock(blocks'[i])]
         ELSE /\ latest' = IF fits THEN latest ELSE NoBlock
              /\ pc' = pc /\ queue' = queue /\ safe' = safe /\ last' = last
      /\ UNCHANGED node /\ pending' = pending /\ step' = step /\ UNCHANGED consumer
      /\ UNCHANGED failures /\ UNCHANGED stops
  BY DEF Fetch
<1>3. NodeOK' /\ ViewAt(view, got, lastIndexed)' /\ Counted'
  BY <1>1, <1>2, NodeSame, ViewSame, CountedStep
<1>4. /\ LoadedAt(safe, blocks, lastIndexed)
      /\ last \in safe + 1..safe + MaxReorgDepth /\ last <= top /\ n < last - safe
      /\ pending = last + 1 /\ queue = Catchup(safe) /\ step = Idle
      /\ latest # NoBlock =>
           /\ Past(latest) /\ latest.number = last
           /\ last = safe + 1 /\ safe >= 1 => latest.parent = chain[safe].fork
  BY <1>1 DEF Fetching
<1>5. /\ safe \in Nat /\ PieceNow(blocks) /\ blocks \in Seq(Header) /\ n \in Nat
      /\ n <= MaxReorgDepth /\ safe <= Final
      /\ \A i \in 1..n : Past(blocks[i]) /\ blocks[i].number = safe + i
  BY <1>1, <1>4, LoadedFacts
<1>6. MaxReorgDepth \in Nat \ {0} /\ Final \in Nat /\ Height \in Nat /\ Height <= top /\ top \in Nat
      /\ Final < Height
  BY <1>1, Heights
<1>7. last \in Nat /\ Cursor = safe + n + 1 /\ Cursor \in Nat /\ Cursor >= 1 /\ Cursor <= last
      /\ n + 1 <= MaxReorgDepth
  BY <1>4, <1>5, <1>6 DEF Cursor
<1>8. latest.number = Cursor \/ Cursor <= Height
  BY DEF Fetch
<1>9. latest.number = Cursor => latest # NoBlock
  BY <1>7 DEF NoBlock
<1>10. Past(b) /\ b.number = Cursor
  <2>1. CASE latest.number = Cursor
    BY <1>4, <1>9, <2>1
  <2>2. CASE latest.number # Cursor
    <3>1. Cursor \in 1..Height
      BY <1>6, <1>7, <1>8, <2>2
    <3> QED
      BY <1>1, <2>2, <3>1, ChainFacts DEF Past
  <2> QED
    BY <2>1, <2>2
<1>11. blocks = <<>> /\ safe >= 1 => b.parent = chain[safe].fork
  <2> SUFFICES ASSUME blocks = <<>>, safe >= 1 PROVE b.parent = chain[safe].fork
    OBVIOUS
  <2>1. Cursor = safe + 1
    BY <1>5, <1>7
  <2>2. CASE latest.number = Cursor
    BY <1>4, <1>9, <2>1, <2>2
  <2>3. CASE latest.number # Cursor
    <3>1. Cursor \in 2..Height /\ Cursor - 1 = safe
      BY <1>5, <1>6, <1>7, <1>8, <2>1, <2>3
    <3> QED
      BY <1>1, <2>3, <3>1 DEF NodeOK
  <2> QED
    BY <2>2, <2>3
<1> HIDE DEF b
<1>12. chain' = chain /\ top' = top /\ reorgs' = reorgs /\ Final' = Final
  BY <1>2, NodeSame
<1>13. lastIndexed' = lastIndexed /\ view' = view /\ got' = got
  BY <1>2 DEF consumer
<1>14. LoadedAt(safe, blocks', lastIndexed) /\ (fits => Len(blocks') = n + 1)
       /\ (~fits => blocks' = <<>>)
  <2>1. CASE fits
    <3> DEFINE bs == Append(blocks, b)
    <3>1. blocks' = bs
      BY <1>2, <2>1
    <3>2. b \in Header
      BY <1>10 DEF Past, Seen
    <3>3. bs \in Seq(Header) /\ Len(bs) = n + 1 /\ bs[n + 1] = b /\ \A i \in 1..n : bs[i] = blocks[i]
      BY <1>5, <3>2
    <3>4. blocks # <<>> => b.number = blocks[n].number + 1 /\ b.parent = blocks[n].fork
      <4> SUFFICES ASSUME blocks # <<>>
                   PROVE  b.number = blocks[n].number + 1 /\ b.parent = blocks[n].fork
        OBVIOUS
      <4>1. n \in 1..n
        BY <1>5
      <4>2. b.parent = blocks[n].fork
        BY <2>1 DEF Last
      <4> QED
        BY <1>5, <1>7, <1>10, <4>1, <4>2
    <3>5. PieceNow(bs)
      BY <1>1, <1>5, <1>10, <3>4, PieceAppend
    <3>6. \A i \in 1..n + 1 : bs[i].number = safe + i
      <4> TAKE i \in 1..n + 1
      <4>1. CASE i \in 1..n
        BY <1>5, <3>3, <4>1
      <4>2. CASE i = n + 1
        BY <1>5, <1>7, <1>10, <3>3, <4>2
      <4> QED
        BY <1>5, <4>1, <4>2
    <3>7. safe >= 1 => bs[1].parent = chain[safe].fork
      <4>1. CASE blocks = <<>>
        BY <1>5, <1>11, <3>3, <4>1
      <4>2. CASE blocks # <<>>
        <5>1. 1 \in 1..n
          BY <1>5, <4>2
        <5> QED
          BY <1>4, <3>3, <4>2, <5>1 DEF LoadedAt
      <4> QED
        BY <4>1, <4>2
    <3> HIDE DEF bs
    <3>8. LoadedAt(safe, bs, lastIndexed)
      BY <1>4, <1>7, <3>3, <3>5, <3>6, <3>7 DEF LoadedAt
    <3> QED
      BY <2>1, <3>1, <3>3, <3>8
  <2>2. CASE ~fits
    <3>1. blocks' = <<>>
      BY <1>2, <2>2
    <3>2. PieceNow(<<>>)
      BY DEF PieceNow, Piece
    <3>3. LoadedAt(safe, <<>>, lastIndexed)
      BY <1>4, <1>6, <3>2 DEF LoadedAt
    <3> QED
      BY <2>2, <3>1, <3>3
  <2> QED
    BY <2>1, <2>2
<1>15. CASE fits /\ Cursor = last
  <2>1. pc' = "running" /\ queue' = queue \o [i \in 1..Len(blocks') |-> NewBlock(blocks'[i])]
    BY <1>2, <1>15
  <2>2. Len(blocks') = n + 1 /\ pending' - 1 = last /\ Floor' = safe
    <3>1. Len(blocks') = n + 1 /\ pending' = last + 1
      BY <1>2, <1>4, <1>14, <1>15
    <3>2. Floor' = pending' - 1 - Len(blocks')
      BY DEF Floor
    <3> QED
      BY <1>5, <1>7, <1>15, <3>1, <3>2
  <2>3. LoadedAt(Floor, blocks, lastIndexed)'
    BY <1>12, <1>13, <1>14, <2>2 DEF LoadedAt, PieceNow
  <2>4. (pending \in Nat \ {0} /\ pending - 1 <= top)'
    <3>1. pending = last + 1 /\ pending' = pending /\ last <= top /\ last \in Nat
      BY <1>2, <1>4, <1>7
    <3>2. top' = top /\ pending \in Nat \ {0} /\ pending - 1 = last
      BY <1>12, <3>1
    <3> QED
      BY <3>1, <3>2
  <2>5. News(blocks', 0) = [i \in 1..Len(blocks') |-> NewBlock(blocks'[i])]
    <3>1. Len(blocks') - 0 = Len(blocks') /\ \A i \in 1..Len(blocks') : 0 + i = i
      BY <1>5, <2>2
    <3> QED
      BY <3>1 DEF News
  <2>6. queue' = Catchup(safe) \o News(blocks', 0)
    BY <1>4, <2>1, <2>5
  <2>7. Restarting' \/ Following'
    <3>1. CASE lastIndexed # 0
      <4>1. (queue = Catchup(Floor) \o News(blocks, 0))'
        BY <1>13, <2>2, <2>6 DEF Catchup, News
      <4> QED
        BY <1>2, <1>4, <1>13, <3>1, <4>1 DEF Restarting, Idle
    <3>2. CASE lastIndexed = 0
      <4>1. view = <<>> /\ got \in Seq(Seq(Log)) /\ Len(got) <= Len(view)
        BY <1>1, <3>2 DEF ViewAt
      <4>2. got = <<>> /\ Len(view) = 0 /\ Len(got) = 0
        BY <4>1
      <4>3. queue' = News(blocks', 0)
        <5>1. News(blocks', 0) \in Seq({NewBlock(blocks'[i]) : i \in 1..Len(blocks')})
          BY <1>5, <2>2, <2>5
        <5>2. queue' = <<>> \o News(blocks', 0)
          BY <2>6, <3>2 DEF Catchup
        <5> QED
          BY <5>1, <5>2, ConcatEmptySeq
      <4>4. FollowsAt(0, Floor, blocks, queue, view, got, step)'
        BY <1>2, <1>4, <1>13, <4>1, <4>2, <4>3 DEF FollowsAt, StepAt, News, Idle
      <4>5. 0 \in 0..Len(blocks')
        BY <1>5, <2>2
      <4> QED
        BY <4>4, <4>5 DEF Following
    <3> QED
      BY <3>1, <3>2
  <2>8. WatcherInv'
    BY <1>3, <2>1, <2>3, <2>4, <2>7 DEF WatcherInv, Running
  <2>9. blocks' \in Seq(Header)
    BY <1>14 DEF LoadedAt, PieceNow, Piece
  <2> QED
    BY <2>2, <2>6, <2>8, <2>9
<1>16. CASE ~(fits /\ Cursor = last)
  <2>1. /\ latest' = IF fits THEN latest ELSE NoBlock
        /\ pc' = pc /\ queue' = queue /\ safe' = safe /\ last' = last
    BY <1>2, <1>16
  <2>2. LoadedAt(safe, blocks, lastIndexed)'
    BY <1>12, <1>13, <1>14, <2>1 DEF LoadedAt, PieceNow
  <2>3. Len(blocks') < last - safe
    <3>1. CASE fits
      BY <1>5, <1>7, <1>14, <1>16, <3>1
    <3>2. CASE ~fits
      <4>1. Len(blocks') = 0
        BY <1>14, <3>2
      <4> QED
        BY <1>4, <1>5, <1>7, <4>1
    <3> QED
      BY <3>1, <3>2
  <2>4. (queue = Catchup(safe))'
    BY <1>4, <1>13, <2>1 DEF Catchup
  <2>5. Past(latest)' \/ latest' = NoBlock
    BY <1>4, <1>12, <2>1 DEF Past
  <2>6. latest' # NoBlock =>
           /\ latest'.number = last
           /\ last = safe + 1 /\ safe >= 1 => latest'.parent = chain[safe].fork
    BY <1>4, <2>1
  <2>7. Fetching'
    BY <1>2, <1>4, <1>12, <2>1, <2>2, <2>3, <2>4, <2>5, <2>6 DEF Fetching, Idle
  <2> QED
    BY <1>1, <1>3, <2>1, <2>7 DEF WatcherInv
<1> QED
  BY <1>15, <1>16

(***************************************************************************)
(* What is queued for the event watcher.                                   *)
(***************************************************************************)
LEMMA ConsFacts ==
  ASSUME NEW S, NEW x \in S, NEW s \in Seq(S)
  PROVE  Head(<<x>> \o s) = x /\ Tail(<<x>> \o s) = s /\ <<x>> \o s # <<>>
<1> DEFINE t == <<x>> \o s
<1>1. <<x>> \in Seq(S) /\ Len(<<x>>) = 1 /\ <<x>>[1] = x /\ Len(s) \in Nat
  OBVIOUS
<1>2. /\ t \in Seq(S) /\ Len(t) = 1 + Len(s)
      /\ \A i \in 1..1 + Len(s) : t[i] = IF i <= 1 THEN <<x>>[i] ELSE s[i - 1]
  BY <1>1, ConcatProperties
<1> HIDE DEF t
<1>3. t # <<>>
  BY <1>1, <1>2
<1>4. Head(t) = x
  <2>1. Head(t) = t[1] /\ 1 \in 1..1 + Len(s)
    BY <1>1, <1>2
  <2> QED
    BY <1>1, <1>2, <2>1
<1>5. Tail(t) \in Seq(S) /\ Len(Tail(t)) = Len(s) /\ \A i \in 1..Len(s) : Tail(t)[i] = t[i + 1]
  <2>1. /\ Tail(t) \in Seq(S) /\ Len(Tail(t)) = Len(t) - 1
        /\ \A i \in 1..Len(Tail(t)) : Tail(t)[i] = t[i + 1]
    BY <1>2, <1>3, HeadTailProperties
  <2>2. Len(Tail(t)) = Len(s)
    BY <1>1, <1>2, <2>1
  <2> QED
    BY <2>1, <2>2
<1>6. \A i \in 1..Len(s) : Tail(t)[i] = s[i]
  <2> TAKE i \in 1..Len(s)
  <2>1. i + 1 \in 1..1 + Len(s) /\ ~(i + 1 <= 1) /\ (i + 1) - 1 = i
    BY <1>1
  <2> QED
    BY <1>2, <1>5, <2>1
<1>7. Tail(t) = s
  BY <1>5, <1>6, SeqEqual
<1> QED
  BY <1>3, <1>4, <1>7 DEF t

LEMMA NewsFacts ==
  ASSUME NEW bs \in Seq(Header), NEW m \in 0..Len(bs)
  PROVE  /\ m < Len(bs) => /\ News(bs, m) # <<>>
                           /\ Head(News(bs, m)) = NewBlock(bs[m + 1])
                           /\ Tail(News(bs, m)) = News(bs, m + 1)
         /\ m = Len(bs) => News(bs, m) = <<>>
<1> DEFINE n == Len(bs)
           S == {NewBlock(bs[i]) : i \in 1..n}
           s == News(bs, m)
           t == News(bs, m + 1)
<1>1. n \in Nat /\ m \in Nat /\ m <= n
  OBVIOUS
<1>2. \A i \in 1..n - m : NewBlock(bs[m + i]) \in S
  <2> TAKE i \in 1..n - m
  <2>1. m + i \in 1..n
    BY <1>1
  <2> QED
    BY <2>1
<1> HIDE DEF S
<1>3. /\ s \in Seq(S) /\ Len(s) = n - m
      /\ \A i \in 1..n - m : s[i] = NewBlock(bs[m + i])
  BY <1>1, <1>2 DEF News
<1>4. m = n => s = <<>>
  BY <1>1, <1>3
<1>5. ASSUME m < n
      PROVE  s # <<>> /\ Head(s) = NewBlock(bs[m + 1]) /\ Tail(s) = t
  <2>1. n - m >= 1 /\ 1 \in 1..n - m
    BY <1>1, <1>5
  <2>2. \A i \in 1..n - (m + 1) : NewBlock(bs[(m + 1) + i]) \in S
    <3> TAKE i \in 1..n - (m + 1)
    <3>1. (m + 1) + i \in 1..n
      BY <1>1, <1>5
    <3> QED
      BY <3>1 DEF S
  <2>3. /\ t \in Seq(S) /\ Len(t) = n - (m + 1)
        /\ \A i \in 1..n - (m + 1) : t[i] = NewBlock(bs[(m + 1) + i])
    BY <1>1, <1>5, <2>2 DEF News
  <2> HIDE DEF s, t
  <2>4. s # <<>> /\ Head(s) = s[1]
    BY <1>3, <2>1
  <2>5. /\ Tail(s) \in Seq(S) /\ Len(Tail(s)) = Len(s) - 1
        /\ \A i \in 1..Len(Tail(s)) : Tail(s)[i] = s[i + 1]
    BY <1>3, <2>4, HeadTailProperties
  <2>6. Len(Tail(s)) = Len(t)
    BY <1>1, <1>3, <2>3, <2>5
  <2>7. \A i \in 1..Len(t) : Tail(s)[i] = t[i]
    <3> TAKE i \in 1..Len(t)
    <3>1. i + 1 \in 1..n - m /\ i \in 1..n - (m + 1) /\ m + (i + 1) = (m + 1) + i
      BY <1>1, <2>3
    <3>2. Tail(s)[i] = s[i + 1]
      BY <2>5, <2>6
    <3> QED
      BY <1>3, <2>3, <3>1, <3>2
  <2>8. Tail(s) = t
    BY <2>3, <2>5, <2>6, <2>7, SeqEqual
  <2> QED
    BY <1>3, <2>1, <2>4, <2>8
<1> QED
  BY <1>4, <1>5

LEMMA BeforeIs ==
  ASSUME NodeOK, PieceNow(view), NEW n \in Int
  PROVE  \E k \in 0..Len(view) :
           /\ Before(n) = SubSeq(view, 1, k)
           /\ \A i \in 1..k : view[i].number < n
           /\ k < Len(view) => view[k + 1].number >= n
<1> DEFINE Fits(k) == /\ \A i \in 1..k : view[i].number < n
                      /\ k < Len(view) => view[k + 1].number >= n
           c == CHOOSE k \in 0..Len(view) : Fits(k)
           len == Len(view)
<1>1. top \in Nat /\ Piece(chain, top, reorgs, view)
  BY Heights DEF PieceNow
<1>2. /\ len \in Nat
      /\ \A i \in 1..len : view[i].number \in Nat /\ view[i].number = view[1].number + (i - 1)
  <2>1. view \in Seq(Header)
    BY <1>1, PieceFacts
  <2>2. \A i \in 1..Len(view) :
          view[i].number \in Nat /\ view[i].number = view[1].number + (i - 1)
    <3> TAKE i \in 1..Len(view)
    <3>1. view[i].number \in Nat
      BY <1>1, PieceFacts
    <3>2. view[i].number = view[1].number + (i - 1)
      <4>1. \A k, j \in 1..Len(view) : view[j].number = view[k].number + (j - k)
        BY <1>1 DEF Piece
      <4>2. 1 \in 1..Len(view)
        BY <2>1
      <4> QED
        BY <4>1, <4>2
    <3> QED
      BY <3>1, <3>2
  <2> QED
    BY <2>1, <2>2
<1>3. \E k \in 0..len : Fits(k)
  <2>1. CASE len = 0
    <3>1. Fits(0) /\ 0 \in 0..len
      BY <2>1
    <3> QED
      BY <3>1
  <2>2. CASE len # 0
    <3> DEFINE x == view[1].number
               k == IF n <= x THEN 0 ELSE IF n - x <= len THEN n - x ELSE len
    <3>1. x \in Nat /\ \A i \in 1..len : view[i].number = x + (i - 1)
      BY <1>2, <2>2
    <3> HIDE DEF x
    <3>2. k \in 0..len
      BY <1>2, <3>1
    <3>3. \A i \in 1..k : i \in 1..len /\ x + (i - 1) < n
      BY <1>2, <3>1
    <3>4. k < len => k + 1 \in 1..len /\ x + ((k + 1) - 1) >= n
      BY <1>2, <3>1
    <3> HIDE DEF k
    <3>5. Fits(k)
      BY <3>1, <3>3, <3>4
    <3> QED
      BY <3>2, <3>5
  <2> QED
    BY <2>1, <2>2
<1>4. c \in 0..len /\ Fits(c)
  BY <1>3
<1>5. Before(n) = SubSeq(view, 1, c)
  BY DEF Before
<1> HIDE DEF c
<1> QED
  BY <1>4, <1>5

LEMMA CatchupIs ==
  ASSUME NodeOK, ViewAt(view, got, lastIndexed), lastIndexed # 0,
         NEW f \in Nat, f >= lastIndexed - MaxReorgDepth, NEW bs \in Seq(Header)
  PROVE  /\ FirstUncled \in Nat /\ FirstUncled >= 1
         /\ FirstUncled = lastIndexed - MaxReorgDepth + 1
         /\ Catchup(f) \o News(bs, 0) # <<>>
         /\ Head(Catchup(f) \o News(bs, 0)) = Uncle(FirstUncled)
         /\ FirstUncled <= f => Tail(Catchup(f) \o News(bs, 0)) =
                                  <<Warp(FirstUncled, f)>> \o News(bs, 0)
         /\ FirstUncled > f => Tail(Catchup(f) \o News(bs, 0)) = News(bs, 0)
<1>1. /\ MaxReorgDepth \in Nat \ {0} /\ lastIndexed \in Nat
      /\ lastIndexed >= MaxReorgDepth
  BY Heights, ViewFacts
<1>2. /\ FirstUncled \in Nat /\ FirstUncled >= 1 /\ FirstUncled <= lastIndexed
      /\ FirstUncled = lastIndexed - MaxReorgDepth + 1
      /\ FirstUncled = Most(lastIndexed - (MaxReorgDepth - 1), 0)
  BY <1>1 DEF FirstUncled, Most
<1> DEFINE U == <<Uncle(FirstUncled)>>
           W == IF FirstUncled <= f THEN <<Warp(FirstUncled, f)>> ELSE <<>>
           N == News(bs, 0)
           S == {Uncle(FirstUncled), Warp(FirstUncled, f)} \cup {NewBlock(bs[i]) : i \in 1..Len(bs)}
<1>3. Catchup(f) = U \o W
  BY <1>2 DEF Catchup
<1>4. N \in Seq(S)
  BY DEF News
<1>5. U \in Seq(S) /\ W \in Seq(S)
  <2>1. U \in Seq(S) /\ <<Warp(FirstUncled, f)>> \in Seq(S) /\ <<>> \in Seq(S)
    OBVIOUS
  <2>2. W = <<Warp(FirstUncled, f)>> \/ W = <<>>
    BY Zenon
  <2> QED
    BY <2>1, <2>2, Zenon
<1>6. (U \o W) \o N = U \o (W \o N)
  BY <1>4, <1>5, ConcatAssociative
<1>7. W \o N \in Seq(S) /\ Uncle(FirstUncled) \in S
  BY <1>4, <1>5, ConcatProperties
<1>8. /\ Head(Catchup(f) \o N) = Uncle(FirstUncled) /\ Tail(Catchup(f) \o N) = W \o N
      /\ Catchup(f) \o N # <<>>
  BY <1>3, <1>6, <1>7, ConsFacts
<1>9. FirstUncled > f => W \o N = N
  BY <1>2, <1>4, ConcatEmptySeq
<1> QED
  BY <1>2, <1>8, <1>9, SMTT(30)

(***************************************************************************)
(* The steps of ChainFeed.                                                 *)
(***************************************************************************)
LEMMA HandleNone ==
  ASSUME HandleTransitions(<<>>)
  PROVE  lastIndexed' = lastIndexed
BY DEF HandleTransitions

LEMMA UpdateIs ==
  /\ \A n : OnUpdate(Uncle(n)) =>
       /\ step' = Idle /\ view' = Before(n)
       /\ got' = SubSeq(got, 1, Least(Len(got), Len(view'))) /\ lastIndexed' = lastIndexed
  /\ \A a, b : OnUpdate(Warp(a, b)) =>
       /\ step' = Warping(a, b, BlockPageSize) /\ view' = view \o SubSeq(chain, a, b)
       /\ got' = got /\ lastIndexed' = lastIndexed
  /\ \A b : OnUpdate(NewBlock(b)) =>
       /\ step' = Logs(b, 0) /\ view' = Append(view, b) /\ got' = got
       /\ lastIndexed' = Most(lastIndexed, b.number)
<1>1. ASSUME NEW n, OnUpdate(Uncle(n))
      PROVE  /\ step' = Idle /\ view' = Before(n)
             /\ got' = SubSeq(got, 1, Least(Len(got), Len(view'))) /\ lastIndexed' = lastIndexed
  <2>1. Uncle(n).type = "uncle" /\ Uncle(n).number = n
    BY DEF Uncle
  <2> DEFINE u == Uncle(n)
  <2>2. /\ step' = Idle /\ view' = Before(n) /\ HandleTransitions(<<>>)
        /\ got' = SubSeq(got, 1, Least(Len(got), Len(view')))
    <3> HIDE DEF u
    <3>1. OnUpdate(u) /\ u.type = "uncle" /\ u.number = n
      BY <1>1, <2>1 DEF u
    <3> QED
      BY <3>1 DEF OnUpdate, StepFor
  <2> QED
    BY <2>2, HandleNone
<1>2. ASSUME NEW a, NEW b, OnUpdate(Warp(a, b))
      PROVE  /\ step' = Warping(a, b, BlockPageSize) /\ view' = view \o SubSeq(chain, a, b)
             /\ got' = got /\ lastIndexed' = lastIndexed
  <2> DEFINE u == Warp(a, b)
  <2>1. u.type = "warp" /\ u.from = a /\ u.to = b
    BY DEF Warp
  <2>2. /\ step' = Warping(a, b, BlockPageSize) /\ view' = view \o SubSeq(chain, a, b)
        /\ got' = got /\ HandleTransitions(<<>>)
    <3> HIDE DEF u
    <3>1. OnUpdate(u)
      BY <1>2 DEF u
    <3> QED
      BY <2>1, <3>1 DEF OnUpdate, StepFor
  <2> QED
    BY <2>2, HandleNone
<1>3. ASSUME NEW b, OnUpdate(NewBlock(b))
      PROVE  /\ step' = Logs(b, 0) /\ view' = Append(view, b) /\ got' = got
             /\ lastIndexed' = Most(lastIndexed, b.number)
  <2> DEFINE u == NewBlock(b)
  <2>1. u.type = "new_block" /\ u.block = b
    BY DEF NewBlock
  <2>2. /\ step' = Logs(b, 0) /\ view' = Append(view, b) /\ got' = got
        /\ HandleTransitions(<<BlockNew(b.number)>>)
    <3> HIDE DEF u
    <3>1. OnUpdate(u)
      BY <1>3 DEF u
    <3> QED
      BY <2>1, <3>1 DEF OnUpdate, StepFor
  <2>3. Last(<<BlockNew(b.number)>>).block = b.number /\ <<BlockNew(b.number)>> # <<>>
    BY DEF Last, BlockNew
  <2> QED
    BY <2>2, <2>3 DEF HandleTransitions
<1> QED
  BY <1>1, <1>2, <1>3

\* What the watcher shows its users in a step.
FeedStep == Feed!Next \/ UNCHANGED <<view, got>>

LEMMA PieceLinked ==
  ASSUME NEW bs, PieceNow(bs)
  PROVE  Feed!Linked(bs)
<1>1. bs \in Seq(Header)
  BY DEF PieceNow, Piece
<1>2. \A i \in 1..Len(bs) - 1 : i \in 1..Len(bs) /\ i + 1 \in 2..Len(bs) /\ i + 1 \in 1..Len(bs)
                                /\ (i + 1) - 1 = i /\ (i + 1) - i = 1
  BY <1>1
<1>3. \A i, j \in 1..Len(bs) : bs[j].number = bs[i].number + (j - i)
  BY DEF PieceNow, Piece
<1>4. \A i \in 2..Len(bs) : bs[i].parent = bs[i - 1].fork
  BY DEF PieceNow, Piece
<1> QED
  BY <1>2, <1>3, <1>4 DEF Feed!Linked

LEMMA PrefixFacts ==
  ASSUME NEW S, NEW s \in Seq(S), NEW t \in Seq(S), Len(s) < Len(t),
         \A i \in 1..Len(s) : t[i] = s[i]
  PROVE  IsStrictPrefix(s, t)
<1>1. Len(s) \in Nat /\ Len(t) \in Nat /\ Len(s) <= Len(t) /\ s # t
  OBVIOUS
<1>2. SubSeq(s, 1, Len(s)) = SubSeq(t, 1, Len(s))
  <2> DEFINE a == SubSeq(s, 1, Len(s))
             b == SubSeq(t, 1, Len(s))
  <2>1. a \in Seq(S) /\ Len(a) = Len(s) /\ \A i \in 1..Len(s) : a[i] = s[i]
    BY <1>1
  <2>2. b \in Seq(S) /\ Len(b) = Len(s) /\ \A i \in 1..Len(s) : b[i] = t[i]
    BY <1>1
  <2> HIDE DEF a, b
  <2>3. a = b
    BY <2>1, <2>2, SeqEqual
  <2> QED
    BY <2>3 DEF a, b
<1> QED
  BY <1>1, <1>2 DEF IsStrictPrefix, IsPrefix

LEMMA ReportFeed ==
  ASSUME NEW w, view' = w, got' = got, Len(got) = Len(view), view \in Seq(Header),
         PieceNow(w), Len(view) < Len(w), \A i \in 1..Len(view) : w[i] = view[i]
  PROVE  FeedStep
<1>1. w \in Seq(Header)
  BY DEF PieceNow, Piece
<1>2. Feed!IsStrictPrefix(view, view')
  BY <1>1, PrefixFacts DEF IsStrictPrefix, IsPrefix, Feed!IsStrictPrefix, Feed!IsPrefix
<1>3. Feed!Linked(view')
  BY PieceLinked
<1>4. Feed!Report
  BY <1>2, <1>3 DEF Feed!Report
<1> QED
  BY <1>4 DEF FeedStep, Feed!Next

LEMMA CutFeed ==
  ASSUME NEW k \in 0..Len(view), view' = SubSeq(view, 1, k), got' = SubSeq(got, 1, k),
         k <= Len(got), Len(view) \in Nat, Len(got) \in Nat
  PROVE  FeedStep
<1>1. Feed!Take(view, k) = SubSeq(view, 1, k)
  <2>1. (IF k < Len(view) THEN k ELSE Len(view)) = k
    OBVIOUS
  <2> QED
    BY <2>1 DEF Feed!Take
<1>2. Feed!Take(got, k) = SubSeq(got, 1, k)
  <2>1. (IF k < Len(got) THEN k ELSE Len(got)) = k
    OBVIOUS
  <2> QED
    BY <2>1 DEF Feed!Take
<1>3. Feed!Retract
  BY <1>1, <1>2 DEF Feed!Retract
<1> QED
  BY <1>3 DEF FeedStep, Feed!Next

LEMMA ToRunning ==
  ASSUME WatcherInv, UNCHANGED node, Counted', pc' = "running",
         ViewAt(view', got', lastIndexed'),
         pending' \in Nat \ {0}, pending' - 1 <= top,
         LoadedAt(Floor', blocks', lastIndexed'),
         \/ Rewound'
         \/ \E m \in 0..Len(blocks') : FollowsAt(m, Floor', blocks', queue', view', got', step')
  PROVE  WatcherInv'
<1>1. chain' = chain /\ top' = top /\ reorgs' = reorgs /\ Final' = Final /\ NodeOK'
  BY NodeSame DEF WatcherInv
<1>2. ViewAt(view, got, lastIndexed)'
  BY <1>1 DEF ViewAt, PieceNow
<1>3. LoadedAt(Floor, blocks, lastIndexed)'
  BY <1>1 DEF LoadedAt, PieceNow
<1>4. ASSUME NEW m \in 0..Len(blocks'), FollowsAt(m, Floor', blocks', queue', view', got', step')
      PROVE  FollowsAt(m, Floor, blocks, queue, view, got, step)'
  BY <1>1, <1>4 DEF FollowsAt, StepAt, News
<1>5. Rewound' \/ Following'
  BY <1>4 DEF Following
<1>6. Running'
  BY <1>1, <1>3, <1>5 DEF Running
<1> QED
  BY <1>1, <1>2, <1>6 DEF WatcherInv

\* What a running watcher knows before a step.
LEMMA RunningFacts ==
  ASSUME WatcherInv, pc = "running"
  PROVE  /\ NodeOK /\ ViewAt(view, got, lastIndexed) /\ Counted
         /\ pending \in Nat \ {0} /\ pending - 1 <= top /\ pending = Floor + Len(blocks) + 1
         /\ LoadedAt(Floor, blocks, lastIndexed)
         /\ Restarting \/ Rewound \/ Following
<1>1. NodeOK /\ ViewAt(view, got, lastIndexed) /\ Counted /\ Running
  BY DEF WatcherInv
<1>2. Len(blocks) \in Nat
  BY <1>1, LoadedFacts DEF Running
<1>3. pending \in Nat \ {0}
  BY <1>1 DEF Running
<1>4. pending \in Int /\ pending = Floor + Len(blocks) + 1
  BY <1>2, <1>3 DEF Floor
<1> QED
  BY <1>1, <1>4 DEF Running

LEMMA RunsOn ==
  ASSUME WatcherInv, UNCHANGED node, Counted', pc = "running", pc' = pc,
         ViewAt(view', got', lastIndexed'), LoadedAt(Floor, blocks, lastIndexed'),
         blocks' = blocks, pending' = pending,
         \/ Rewound'
         \/ \E m \in 0..Len(blocks) : FollowsAt(m, Floor, blocks, queue', view', got', step')
  PROVE  WatcherInv'
<1>1. pending \in Nat \ {0} /\ pending - 1 <= top
  BY RunningFacts
<1>2. Floor' = Floor
  BY DEF Floor
<1> QED
  BY <1>1, <1>2, ToRunning

LEMMA CatchupStep ==
  ASSUME WatcherInv, pc = "running", Restarting, NextQueued
  PROVE  WatcherInv' /\ FeedStep
<1> DEFINE F == FirstUncled
           l == lastIndexed
           D == MaxReorgDepth
           N == News(blocks, 0)
<1>1. /\ NodeOK /\ ViewAt(view, got, l) /\ LoadedAt(Floor, blocks, l)
  BY RunningFacts
<1>2. /\ l # 0 /\ queue = Catchup(Floor) \o N
      /\ Counted' /\ UNCHANGED node /\ pc' = pc /\ blocks' = blocks /\ pending' = pending
      /\ queue' = Tail(queue) /\ OnUpdate(Head(queue))
  BY CountedStep DEF WatcherInv, NextQueued, Restarting
<1>3. /\ Floor \in Nat /\ Floor >= l - D /\ blocks \in Seq(Header) /\ Len(blocks) \in Nat
      /\ l \in Nat /\ D \in Nat \ {0} /\ PieceNow(view) /\ Len(view) \in Nat /\ Len(got) \in Nat
      /\ \A i \in 1..Len(view) : view[i].number \in Nat
  BY <1>1, LoadedFacts, ViewFacts, Heights
<1>4. /\ F \in Nat /\ F >= 1 /\ F = l - D + 1
      /\ Head(queue) = Uncle(F)
      /\ F <= Floor => Tail(queue) = <<Warp(F, Floor)>> \o N
      /\ F > Floor => Tail(queue) = N
  BY <1>1, <1>2, <1>3, CatchupIs
<1>5. PICK k \in 0..Len(view) :
           /\ Before(F) = SubSeq(view, 1, k)
           /\ \A i \in 1..k : view[i].number < F
           /\ k < Len(view) => view[k + 1].number >= F
  <2>1. F \in Int /\ PieceNow(view)
    BY <1>3, <1>4
  <2> HIDE DEF F
  <2> QED
    BY <1>1, <2>1, BeforeIs
<1>6. k \in Nat /\ k <= Len(view)
  BY <1>3
<1>7. k <= Len(got)
  <2> SUFFICES ASSUME k > Len(got) PROVE FALSE
    BY <1>3, <1>6
  <2> DEFINE x == view[Len(got) + 1].number
  <2>1. Len(got) < Len(view) /\ Len(got) + 1 \in 1..k /\ Len(got) + 1 \in 1..Len(view)
    BY <1>3, <1>6
  <2>2. x > l - D
    BY <1>1, <2>1 DEF ViewAt
  <2>3. x < F /\ x \in Nat
    BY <1>3, <1>5, <2>1
  <2> HIDE DEF x
  <2> QED
    BY <1>3, <1>4, <2>2, <2>3
<1>8. k > 0 => view[k].number = l - D
  <2> SUFFICES ASSUME k > 0 PROVE view[k].number = l - D
    OBVIOUS
  <2> DEFINE x == view[k].number
  <2>1. k \in 1..k /\ k \in 1..Len(view)
    BY <1>6
  <2>2. x \in Nat /\ x < F
    BY <1>3, <1>5, <2>1
  <2>3. CASE k = Len(view)
    <3>1. view # <<>>
      BY <2>1, <2>3
    <3>2. x >= l - D
      BY <1>1, <2>3, <3>1 DEF ViewAt
    <3> HIDE DEF x
    <3>3. x = l - D
      BY <1>3, <1>4, <2>2, <3>2
    <3> QED
      BY <3>3 DEF x
  <2>4. CASE k < Len(view)
    <3> DEFINE y == view[k + 1].number
    <3>1. k + 1 \in 1..Len(view) /\ (k + 1) - k = 1
      BY <1>3, <1>6, <2>4
    <3>2. y \in Nat /\ y >= F
      BY <1>3, <1>5, <2>4, <3>1
    <3>3. y = x + ((k + 1) - k)
      BY <1>3, <2>1, <3>1 DEF PieceNow, Piece
    <3> HIDE DEF x, y
    <3>4. x = l - D
      BY <1>3, <1>4, <2>2, <3>1, <3>2, <3>3
    <3> QED
      BY <3>4 DEF x
  <2> QED
    BY <1>3, <1>6, <2>3, <2>4
<1>9. k > 0 => InChain(chain, view[k])
  <2>1. k > 0 => k \in 1..Len(view) /\ l - D <= l - D
    BY <1>3, <1>6
  <2>2. \A i \in 1..Len(view) : view[i].number <= l - D => InChain(chain, view[i])
    BY <1>1 DEF ViewAt
  <2> QED
    BY <1>8, <2>1, <2>2
<1> DEFINE w == SubSeq(view, 1, k)
           h == SubSeq(got, 1, k)
<1>10. /\ ViewAt(w, h, l) /\ Len(w) = k /\ Len(h) = k
       /\ k > 0 => w[k] = view[k]
  <2>1. k > 0 => view[k].number >= l - D
    BY <1>3, <1>8
  <2>2. /\ ViewAt(w, h, l) /\ Len(w) = k /\ Len(h) = k
        /\ \A i \in 1..k : w[i] = view[i]
    BY <1>1, <1>7, <2>1, CutView
  <2>3. k > 0 => k \in 1..k
    BY <1>6
  <2> QED
    BY <2>2, <2>3
<1>11. /\ step' = Idle /\ view' = w /\ lastIndexed' = l
       /\ got' = SubSeq(got, 1, Least(Len(got), Len(view')))
  BY <1>2, <1>4, <1>5, UpdateIs
<1>12. got' = h
  <2>1. Least(Len(got), k) = k
    BY <1>3, <1>6, <1>7 DEF Least
  <2> QED
    BY <1>10, <1>11, <2>1
<1>13. FeedStep
  BY <1>3, <1>7, <1>11, <1>12, CutFeed
<1>14. w # <<>> => k > 0
  <2>1. w \in Seq(Header)
    BY <1>1, <1>10, ViewFacts
  <2> QED
    BY <1>6, <1>10, <2>1
<1> HIDE DEF w, h
<1>15. CASE F <= Floor
  <2>1. queue' = <<Warp(F, Floor)>> \o N
    BY <1>2, <1>4, <1>15
  <2>2. F' = F /\ Floor' = Floor /\ News(blocks, 0)' = N /\ chain' = chain
    BY <1>2, <1>11, NodeSame DEF FirstUncled, Floor, News
  <2>3. F - 1 = l - D
    BY <1>3, <1>4
  <2>4. Rewound'
    BY <1>2, <1>8, <1>9, <1>10, <1>11, <1>12, <1>14, <1>15, <2>1, <2>2, <2>3 DEF Rewound, Idle
  <2> QED
    BY <1>1, <1>2, <1>10, <1>11, <1>12, <1>13, <2>4, RunsOn
<1>16. CASE F > Floor
  <2>1. queue' = N /\ Floor = l - D
    <3>1. queue' = N
      BY <1>2, <1>4, <1>16
    <3>2. Floor = l - D
      <4> HIDE DEF F, l, D
      <4> QED
        BY <1>3, <1>4, <1>16 
    <3> QED
      BY <3>1, <3>2
  <2>2. k > 0 => k - 0 = k
    BY <1>6
  <2>3. FollowsAt(0, Floor, blocks, N, w, h, Idle)
    BY <1>6, <1>8, <1>9, <1>10, <2>1, <2>2 DEF FollowsAt, StepAt
  <2>4. 0 \in 0..Len(blocks)
    BY <1>3
  <2> QED
    BY <1>1, <1>2, <1>10, <1>11, <1>12, <1>13, <2>1, <2>3, <2>4, RunsOn
<1> QED
  BY <1>3, <1>4, <1>15, <1>16

(***************************************************************************)
(* Steps of the block watcher.                                             *)
(***************************************************************************)
LEMMA WarpQueued ==
  ASSUME WatcherInv, pc = "running", Rewound, NextQueued
  PROVE  WatcherInv' /\ FeedStep
<1> DEFINE F == FirstUncled
           l == lastIndexed
           D == MaxReorgDepth
           N == News(blocks, 0)
           A == SubSeq(chain, F, Floor)
           w == view \o A
           n == Len(view)
<1>1. /\ NodeOK /\ ViewAt(view, got, l) /\ LoadedAt(Floor, blocks, l)
  BY RunningFacts
<1>2. /\ l # 0 /\ F <= Floor /\ queue = <<Warp(F, Floor)>> \o N
      /\ view # <<>> => InChain(chain, view[n]) /\ view[n].number = F - 1
      /\ Len(got) = n
      /\ Counted' /\ UNCHANGED node /\ pc' = pc /\ blocks' = blocks /\ pending' = pending
      /\ queue' = Tail(queue) /\ OnUpdate(Head(queue))
  BY CountedStep DEF WatcherInv, NextQueued, Rewound
<1>3. /\ Floor \in Nat /\ Floor >= l - D /\ blocks \in Seq(Header) /\ Len(blocks) \in Nat
      /\ l \in Nat /\ l >= D /\ l <= top /\ D \in Nat \ {0} /\ PieceNow(view) /\ n \in Nat
      /\ view \in Seq(Header) /\ got \in Seq(Seq(Log))
      /\ Floor <= Final /\ Final < Height /\ Final \in Nat /\ Height \in Nat /\ top \in Nat
      /\ chain \in Seq(Header)
  BY <1>1, <1>2, LoadedFacts, ViewFacts, Heights DEF NodeOK
<1>4. F \in Nat /\ F >= 1 /\ F = l - D + 1 /\ Floor <= Height
  BY <1>3 DEF FirstUncled
<1>5. Head(queue) = Warp(F, Floor) /\ Tail(queue) = N
  <2> DEFINE S == {Warp(F, Floor)} \cup {NewBlock(blocks[i]) : i \in 1..Len(blocks)}
  <2>1. N \in Seq(S)
    <3>1. \A i \in 1..Len(blocks) - 0 : NewBlock(blocks[0 + i]) \in S
      <4> TAKE i \in 1..Len(blocks) - 0
      <4>1. 0 + i = i /\ i \in 1..Len(blocks)
        BY <1>3
      <4> QED
        BY <4>1
    <3>2. Len(blocks) - 0 \in Nat
      BY <1>3
    <3> HIDE DEF S
    <3> QED
      BY <3>1, <3>2 DEF News
  <2>2. Warp(F, Floor) \in S
    OBVIOUS
  <2> HIDE DEF S, N
  <2> QED
    BY <1>2, <2>1, <2>2, ConsFacts
<1>6. /\ step' = Warping(F, Floor, BlockPageSize) /\ view' = w /\ got' = got /\ lastIndexed' = l
      /\ queue' = N
  <2>1. OnUpdate(Warp(F, Floor)) /\ queue' = N
    BY <1>2, <1>5
  <2> HIDE DEF F, N
  <2>2. /\ step' = Warping(F, Floor, BlockPageSize) /\ view' = view \o SubSeq(chain, F, Floor)
        /\ got' = got /\ lastIndexed' = lastIndexed
    BY <2>1, UpdateIs
  <2> QED
    BY <2>1, <2>2
<1> DEFINE s == Floor - F + 1
<1>7. s \in Nat \ {0}
  <2> HIDE DEF F
  <2> QED
    BY <1>2, <1>3, <1>4
<1>8. A \in Seq(Header) /\ Len(A) = s /\ \A i \in 1..s : A[i] = chain[F + i - 1]
  <2> HIDE DEF F
  <2>1. F \in 1..Len(chain) + 1 /\ Floor \in F - 1..Len(chain)
    BY <1>2, <1>3, <1>4 DEF Height
  <2> QED
    BY <1>3, <2>1, SubSeqProperties
<1> HIDE DEF A
<1>9. /\ w \in Seq(Header) /\ Len(w) = n + s
      /\ \A i \in 1..n : w[i] = view[i]
      /\ \A i \in 1..s : w[n + i] = A[i]
      /\ \A i \in 1..n + s : i \in 1..n \/ \E j \in 1..s : i = n + j
  <2>1. s \in Nat
    BY <1>7
  <2> HIDE DEF s
  <2>2. /\ w \in Seq(Header) /\ Len(w) = n + s
        /\ \A i \in 1..n : w[i] = view[i]
        /\ \A i \in 1..s : w[n + i] = A[i]
    <3>1. view \in Seq(Header) /\ A \in Seq(Header)
      BY <1>3, <1>8
    <3>2. /\ view \o A \in Seq(Header) /\ Len(view \o A) = Len(view) + Len(A)
          /\ \A i \in 1..Len(view) : (view \o A)[i] = view[i]
          /\ \A i \in 1..Len(A) : (view \o A)[Len(view) + i] = A[i]
      BY <3>1, ConcatPlaces
    <3> QED
      BY <1>8, <3>2
  <2>3. ASSUME NEW i \in 1..n + s, i \notin 1..n PROVE \E j \in 1..s : i = n + j
    <3>1. i - n \in 1..s /\ i = n + (i - n)
      BY <1>3, <2>1, <2>3
    <3> QED
      BY <3>1
  <2> QED
    BY <2>2, <2>3
<1> HIDE DEF w
<1> DEFINE a == F - 1 - n
<1>10. \A i \in 1..n + s : a + i \in 1..Height /\ w[i] = chain[a + i]
  <2> TAKE i \in 1..n + s
  <2>1. CASE i \in 1..n
    <3>1. view # <<>> /\ n \in 1..n /\ i <= n
      BY <1>3, <2>1
    <3>2. InChain(chain, view[i])
      BY <1>2, <1>3, <2>1, <3>1 DEF PieceNow, Piece
    <3>3. view[i].number = (F - 1) + (i - n)
      BY <1>2, <1>3, <2>1, <3>1 DEF PieceNow, Piece
    <3> DEFINE x == view[i].number
    <3>4. x \in Nat /\ x >= 1
      BY <1>1, <2>1, ViewFacts
    <3>5. x <= Height /\ chain[x] = view[i]
      BY <3>2 DEF InChain, Height
    <3>6. x = a + i
      BY <1>3, <1>4, <3>3
    <3> HIDE DEF x, a
    <3> QED
      BY <1>3, <1>9, <2>1, <3>4, <3>5, <3>6
  <2>2. ASSUME NEW j \in 1..s, i = n + j
        PROVE  a + i \in 1..Height /\ w[i] = chain[a + i]
    <3>1. a + i = F + j - 1 /\ F + j - 1 \in 1..Height
      <4> HIDE DEF F
      <4> QED
        BY <1>2, <1>3, <1>4, <1>7, <2>2
    <3> QED
      BY <1>8, <1>9, <2>2, <3>1
  <2> QED
    BY <1>9, <2>1, <2>2
<1>11. a \in Int
  BY <1>3, <1>4
<1> HIDE DEF a
<1>12. PieceNow(w)
  BY <1>1, <1>9, <1>10, <1>11, ChainPiece
<1>13. \A i \in 1..n + s : InChain(chain, w[i]) /\ w[i].number = a + i
  BY <1>1, <1>10, ChainFacts
<1>14. a + n = F - 1 /\ a + n + 1 = F /\ a + (n + s) = Floor /\ n + 1 \in 1..n + s /\ n + s \in 1..n + s
  BY <1>3, <1>4, <1>7 DEF a
<1> HIDE DEF F, s
<1>15. /\ InChain(chain, w[Len(w)]) /\ w[Len(w)].number = Floor
       /\ w[n + 1].number = F /\ w # <<>> /\ n < Len(w)
  <2>1. a + (n + 1) = F
    BY <1>3, <1>11, <1>14
  <2>2. w # <<>> /\ n < Len(w)
    BY <1>3, <1>7, <1>9
  <2> QED
    BY <1>9, <1>13, <1>14, <2>1, <2>2
<1>16. ViewAt(w, got, l)
  <2>1. F > l - D
    BY <1>3, <1>4
  <2>2. Len(w) \in Nat /\ Len(got) <= Len(w)
    BY <1>2, <1>3, <1>7, <1>9
  <2>3. \A i \in 1..Len(w) : InChain(chain, w[i])
    BY <1>9, <1>13
  <2>4. w[Len(w)].number >= l - D
    BY <1>3, <1>15
  <2>5. w[Len(got) + 1].number > l - D
    BY <1>2, <1>15, <2>1
  <2>6. l \in 0..top
    BY <1>3
  <2> QED
    BY <1>2, <1>3, <1>12, <2>2, <2>3, <2>4, <2>5, <2>6 DEF ViewAt
<1>17. FeedStep
  BY <1>2, <1>3, <1>6, <1>9, <1>12, <1>15, ReportFeed
<1>18. FollowsAt(0, Floor, blocks, N, w, got, Warping(F, Floor, BlockPageSize))
  <2>1. BlockPageSize \in 1..BlockPageSize
    BY WatcherAssumption
  <2>2. StepAt(0, Floor, w, got, Warping(F, Floor, BlockPageSize))
    BY <1>2, <1>15, <2>1 DEF StepAt
  <2>3. Len(w) >= 0 /\ Len(w) - 0 = Len(w)
    BY <1>3, <1>7, <1>9
  <2> QED
    BY <1>15, <2>2, <2>3 DEF FollowsAt
<1>19. 0 \in 0..Len(blocks)
  BY <1>3
<1> QED
  BY <1>1, <1>2, <1>6, <1>16, <1>17, <1>18, <1>19, RunsOn

LEMMA IdleStep ==
  ASSUME NEW m, NEW f, NEW v, NEW g, StepAt(m, f, v, g, Idle)
  PROVE  Len(g) = Len(v)
<1>1. \A b, r : Logs(b, r) # Idle
  <2> TAKE b, r
  <2>1. Logs(b, r).type = "block" /\ Idle.type = "idle"
    BY DEF Logs, Idle
  <2> QED
    BY <2>1
<1>2. \A a, b, r : Warping(a, b, r) # Idle
  <2> TAKE a, b, r
  <2>1. Warping(a, b, r).type = "warping" /\ Idle.type = "idle"
    BY DEF Warping, Idle
  <2> QED
    BY <2>1
<1> QED
  BY <1>1, <1>2 DEF StepAt

\* Block b is reported on top of the view.
LEMMA ReportStep ==
  ASSUME NodeOK, NEW m \in Nat, LoadedAt(Floor, blocks, lastIndexed),
         ViewAt(view, got, lastIndexed), m <= Len(blocks),
         FollowsAt(m, Floor, blocks, queue, view, got, step), step = Idle,
         NEW b, Past(b), b.number = Floor + m + 1,
         m > 0 => b.parent = blocks[m].fork,
         m = 0 /\ Floor >= 1 => b.parent = chain[Floor].fork,
         NEW f2 \in Nat, f2 >= Floor, f2 >= b.number - MaxReorgDepth, b.number > f2,
         \A i \in 1..Len(view) : view[i].number <= f2 => InChain(chain, view[i]),
         OnUpdate(NewBlock(b))
  PROVE  /\ FeedStep /\ ViewAt(view', got', lastIndexed') /\ f2 >= lastIndexed' - MaxReorgDepth
         /\ view' = Append(view, b) /\ Len(view') = Len(view) + 1 /\ view'[Len(view) + 1] = b
         /\ \A i \in 1..Len(view) : view'[i] = view[i]
         /\ \A j, f : StepAt(j, f, view', got', step')
<1>1. Len(got) = Len(view)
  <2>1. StepAt(m, Floor, view, got, Idle)
    BY DEF FollowsAt
  <2> QED
    BY <2>1, IdleStep
<1>2. /\ step' = Logs(b, 0) /\ view' = Append(view, b) /\ got' = got
      /\ lastIndexed' = Most(lastIndexed, b.number)
  BY UpdateIs
<1>3. PieceNow(Append(view, b))
  BY FollowsLink
<1>4. /\ Floor \in Nat /\ Floor >= MaxReorgDepth - 1 /\ Floor >= lastIndexed - MaxReorgDepth
      /\ lastIndexed \in Nat /\ MaxReorgDepth \in Nat /\ view \in Seq(Header)
      /\ Len(view) \in Nat
  BY LoadedFacts, ViewFacts, Heights
<1>5. f2 >= MaxReorgDepth - 1 /\ f2 >= lastIndexed - MaxReorgDepth
  BY <1>4
<1>6. ViewAt(Append(view, b), got, Most(lastIndexed, b.number))
  BY <1>1, <1>3, <1>5, ReportView
<1>7. b \in Header /\ b.number \in Nat
  BY HeaderFacts DEF Past, Seen
<1>8. f2 >= Most(lastIndexed, b.number) - MaxReorgDepth
  BY <1>4, <1>5, <1>7 DEF Most
<1> DEFINE w == Append(view, b)
<1>9. /\ w \in Seq(Header) /\ Len(w) = Len(view) + 1 /\ w[Len(view) + 1] = b
      /\ \A i \in 1..Len(view) : w[i] = view[i]
  BY <1>4, <1>7
<1> HIDE DEF w
<1>10. Len(view) < Len(w) /\ w # <<>> /\ Len(w) - 1 = Len(view)
  BY <1>4, <1>9
<1>11. FeedStep
  <2>1. view' = w /\ PieceNow(w)
    BY <1>2, <1>3 DEF w
  <2> QED
    BY <1>1, <1>2, <1>4, <1>9, <1>10, <2>1, ReportFeed
<1>12. ASSUME NEW j, NEW f PROVE StepAt(j, f, w, got, Logs(b, 0))
  <2>1. 0 \in 0..BlockSingleQueryRetryCount
    BY WatcherAssumption
  <2> QED
    BY <1>1, <1>9, <1>10, <2>1 DEF StepAt
<1> QED
  BY <1>2, <1>6, <1>8, <1>9, <1>11, <1>12 DEF w

\* A queued block is reported.
LEMMA BlockQueued ==
  ASSUME WatcherInv, pc = "running", Following, NextQueued
  PROVE  WatcherInv' /\ FeedStep
<1> DEFINE l == lastIndexed
           D == MaxReorgDepth
           n == Len(view)
           c == Len(blocks)
<1>1. /\ NodeOK /\ ViewAt(view, got, l) /\ LoadedAt(Floor, blocks, l)
  BY RunningFacts
<1>2. PICK m \in 0..c : FollowsAt(m, Floor, blocks, queue, view, got, step)
  BY DEF Following
<1>3. /\ step = Idle /\ queue # <<>> /\ queue = News(blocks, m)
      /\ n >= m
      /\ \A i \in 1..m : view[n - m + i] = blocks[i]
      /\ n > m => InChain(chain, view[n - m]) /\ view[n - m].number = Floor
      /\ Counted' /\ UNCHANGED node /\ pc' = pc /\ blocks' = blocks /\ pending' = pending
      /\ queue' = Tail(queue) /\ OnUpdate(Head(queue))
  BY <1>2, CountedStep DEF WatcherInv, NextQueued, FollowsAt
<1>4. /\ Floor \in Nat /\ blocks \in Seq(Header) /\ c \in Nat /\ c <= D /\ D \in Nat \ {0}
      /\ n \in Nat /\ m \in Nat /\ m <= c /\ view \in Seq(Header)
      /\ \A i \in 1..c : Past(blocks[i]) /\ blocks[i].number = Floor + i
  BY <1>1, LoadedFacts, ViewFacts, Heights
<1>5. m < c
  <2>1. m = c => queue = <<>>
    BY <1>3, <1>4, NewsFacts
  <2> QED
    BY <1>3, <1>4, <2>1
<1> DEFINE b == blocks[m + 1]
<1>6. Head(queue) = NewBlock(b) /\ queue' = News(blocks, m + 1)
  BY <1>3, <1>4, <1>5, NewsFacts
<1>7. m + 1 \in 1..c
  BY <1>4, <1>5
<1>8. Past(b) /\ b.number = Floor + m + 1 /\ b.number <= Floor + D /\ b.number > Floor
  <2>1. Past(b) /\ b.number = Floor + (m + 1)
    BY <1>4, <1>7
  <2>2. Floor + (m + 1) = Floor + m + 1 /\ Floor + (m + 1) <= Floor + D /\ Floor + (m + 1) > Floor
    BY <1>4, <1>5
  <2> QED
    BY <2>1, <2>2
<1>9. m > 0 => b.parent = blocks[m].fork
  <2>1. m > 0 => m + 1 \in 2..c /\ (m + 1) - 1 = m
    BY <1>4, <1>5
  <2>2. \A i \in 2..c : blocks[i].parent = blocks[i - 1].fork
    BY <1>1 DEF LoadedAt, PieceNow, Piece
  <2> QED
    BY <2>1, <2>2
<1>10. m = 0 /\ Floor >= 1 => b.parent = chain[Floor].fork
  <2>1. blocks # <<>>
    BY <1>4, <1>7
  <2> QED
    BY <1>1, <2>1 DEF LoadedAt
<1>11. Floor >= Floor /\ Floor >= b.number - D
  BY <1>4, <1>8
<1>12. \A i \in 1..n : view[i].number <= Floor => InChain(chain, view[i])
  BY <1>1, <1>2, <1>4, FollowsNumbers
<1>13. OnUpdate(NewBlock(b))
  BY <1>3, <1>6
<1> HIDE DEF b
<1>14. /\ FeedStep /\ ViewAt(view', got', lastIndexed') /\ Floor >= lastIndexed' - D
       /\ Len(view') = n + 1 /\ view'[n + 1] = b
       /\ \A i \in 1..n : view'[i] = view[i]
       /\ StepAt(m + 1, Floor, view', got', step')
  BY <1>1, <1>2, <1>3, <1>4, <1>8, <1>9, <1>10, <1>11, <1>12, <1>13, ReportStep
<1>15. LoadedAt(Floor, blocks, lastIndexed')
  BY <1>1, <1>14 DEF LoadedAt
<1>16. FollowsAt(m + 1, Floor, blocks, queue', view', got', step')
  <2>1. n + 1 >= m + 1 /\ (n + 1) - (m + 1) = n - m
    BY <1>3, <1>4
  <2>2. ASSUME NEW i \in 1..m + 1 PROVE view'[(n - m) + i] = blocks[i]
    <3>1. CASE i \in 1..m
      <4>1. (n - m) + i \in 1..n
        BY <1>3, <1>4, <3>1
      <4> QED
        BY <1>3, <1>14, <3>1, <4>1
    <3>2. CASE i = m + 1
      <4>1. (n - m) + i = n + 1
        BY <1>4, <3>2
      <4> QED
        BY <1>14, <3>2, <4>1 DEF b
    <3> QED
      BY <1>4, <3>1, <3>2
  <2>3. n + 1 > m + 1 => n > m /\ n - m \in 1..n
    BY <1>4
  <2> QED
    BY <1>3, <1>6, <1>14, <2>1, <2>2, <2>3 DEF FollowsAt
<1>17. m + 1 \in 0..c
  BY <1>4, <1>5
<1> QED
  BY <1>3, <1>14, <1>15, <1>16, <1>17, RunsOn

\* When nothing is queued, the view ends with all the blocks that are kept.
LEMMA PendingFacts ==
  ASSUME WatcherInv, pc = "running", queue = <<>>
  PROVE  FollowsAt(Len(blocks), Floor, blocks, queue, view, got, step)
<1>1. /\ NodeOK /\ ViewAt(view, got, lastIndexed) /\ LoadedAt(Floor, blocks, lastIndexed)
      /\ Restarting \/ Rewound \/ Following
  BY RunningFacts
<1>2. /\ Floor \in Nat /\ Floor >= lastIndexed - MaxReorgDepth /\ blocks \in Seq(Header)
      /\ Len(blocks) \in Nat
  BY <1>1, LoadedFacts
<1>3. ~Restarting
  <2> SUFFICES ASSUME Restarting PROVE FALSE
    OBVIOUS
  <2>1. lastIndexed # 0 /\ Catchup(Floor) \o News(blocks, 0) = <<>>
    BY DEF Restarting
  <2> QED
    BY <1>1, <1>2, <2>1, CatchupIs
<1>4. ~Rewound
  <2> SUFFICES ASSUME Rewound PROVE FALSE
    OBVIOUS
  <2> DEFINE u == Warp(FirstUncled, Floor)
             N == News(blocks, 0)
             S == {u} \cup {NewBlock(blocks[i]) : i \in 1..Len(blocks)}
  <2>1. <<u>> \o N = <<>>
    BY DEF Rewound
  <2>2. N \in Seq(S)
    <3>1. \A i \in 1..Len(blocks) - 0 : NewBlock(blocks[0 + i]) \in S
      <4> TAKE i \in 1..Len(blocks) - 0
      <4>1. 0 + i = i /\ i \in 1..Len(blocks)
        BY <1>2
      <4> QED
        BY <4>1
    <3>2. Len(blocks) - 0 \in Nat
      BY <1>2
    <3> HIDE DEF S
    <3> QED
      BY <3>1, <3>2 DEF News
  <2>3. u \in S
    OBVIOUS
  <2> HIDE DEF S, N, u
  <2> QED
    BY <2>1, <2>2, <2>3, ConsFacts
<1>5. PICK m \in 0..Len(blocks) : FollowsAt(m, Floor, blocks, queue, view, got, step)
  BY <1>1, <1>3, <1>4 DEF Following
<1>6. m < Len(blocks) => News(blocks, m) # <<>>
  BY <1>2, NewsFacts
<1>7. News(blocks, m) = <<>>
  BY <1>5 DEF FollowsAt
<1>8. m = Len(blocks)
  BY <1>2, <1>6, <1>7
<1> QED
  BY <1>5, <1>8

\* The last block is taken back.
LEMMA UncleStep ==
  ASSUME WatcherInv, pc = "running", queue = <<>>, queue' = queue, step = Idle,
         UNCHANGED node, Counted', pc' = pc,
         blocks # <<>>, blocks' = Front(blocks), pending' = Last(blocks).number,
         OnUpdate(Uncle(Last(blocks).number))
  PROVE  WatcherInv' /\ FeedStep
<1> DEFINE l == lastIndexed
           D == MaxReorgDepth
           n == Len(view)
           c == Len(blocks)
           x == Last(blocks).number
<1>1. /\ NodeOK /\ ViewAt(view, got, l) /\ LoadedAt(Floor, blocks, l)
      /\ pending \in Nat \ {0} /\ pending - 1 <= top /\ pending = Floor + c + 1
  BY RunningFacts
<1>2. FollowsAt(c, Floor, blocks, queue, view, got, step)
  BY PendingFacts
<1>3. Len(got) = n
  <2>1. StepAt(c, Floor, view, got, Idle)
    BY <1>2 DEF FollowsAt
  <2> QED
    BY <2>1, IdleStep
<1>4. /\ Floor \in Nat /\ Floor >= l - D /\ l \in Nat /\ top \in Nat
      /\ blocks \in Seq(Header) /\ c \in Nat /\ c <= D /\ D \in Nat \ {0}
      /\ n \in Nat /\ view \in Seq(Header) /\ PieceNow(view) /\ PieceNow(blocks)
      /\ \A i \in 1..c : Past(blocks[i]) /\ blocks[i].number = Floor + i
  BY <1>1, LoadedFacts, ViewFacts, Heights
<1>5. c >= 1 /\ c \in 1..c /\ c - 1 \in Nat
  BY <1>4
<1>6. x = Floor + c
  BY <1>4, <1>5 DEF Last
<1>7. n >= c /\ n \in 1..n
  BY <1>2, <1>4, <1>5 DEF FollowsAt
<1>8. \A i \in 1..n : view[i].number = Floor + c - n + i
  BY <1>1, <1>2, <1>4, FollowsNumbers
<1>9. PICK k \in 0..n :
           /\ Before(x) = SubSeq(view, 1, k)
           /\ \A i \in 1..k : view[i].number < x
           /\ k < n => view[k + 1].number >= x
  <2>1. x \in Int
    BY <1>4, <1>6
  <2> HIDE DEF x
  <2> QED
    BY <1>1, <1>4, <2>1, BeforeIs
<1> HIDE DEF x
<1>10. k = n - 1
  <2>1. k \in Nat /\ k <= n
    BY <1>4
  <2>2. k < n
    <3> SUFFICES ASSUME k = n PROVE FALSE
      BY <1>4, <2>1
    <3>1. view[n].number < x
      BY <1>7, <1>9
    <3>2. view[n].number = Floor + c - n + n
      BY <1>7, <1>8
    <3> QED
      BY <1>4, <1>6, <3>1, <3>2
  <2>3. Floor + c - n + (k + 1) >= x
    <3>1. k + 1 \in 1..n
      BY <1>4, <2>1, <2>2
    <3> QED
      BY <1>8, <1>9, <2>2, <3>1
  <2> QED
    BY <1>4, <1>6, <2>1, <2>2, <2>3
<1>11. k > 0 => view[k].number = x - 1 /\ x - 1 >= l - D
  <2>1. k > 0 => k \in 1..n /\ Floor + c - n + k = x - 1 /\ x - 1 >= l - D
    BY <1>4, <1>5, <1>6, <1>10
  <2> QED
    BY <1>8, <2>1
<1> DEFINE w == SubSeq(view, 1, k)
           h == SubSeq(got, 1, k)
<1>12. k <= n /\ k \in Nat
  BY <1>4
<1>13. /\ ViewAt(w, h, l) /\ Len(w) = k /\ Len(h) = k
       /\ \A i \in 1..k : w[i] = view[i]
  BY <1>1, <1>3, <1>11, <1>12, CutView
<1>14. /\ step' = Idle /\ view' = w /\ lastIndexed' = l
       /\ got' = SubSeq(got, 1, Least(Len(got), Len(view')))
  BY <1>9, UpdateIs DEF x
<1>15. got' = h
  <2>1. Least(Len(got), k) = k
    BY <1>3, <1>4, <1>12 DEF Least
  <2> QED
    BY <1>13, <1>14, <2>1
<1>16. FeedStep
  BY <1>3, <1>4, <1>12, <1>14, <1>15, CutFeed
<1> HIDE DEF w, h
<1> DEFINE bs == SubSeq(blocks, 1, c - 1)
<1>17. blocks' = bs
  BY DEF Front
<1>18. bs \in Seq(Header) /\ Len(bs) = c - 1 /\ \A i \in 1..c - 1 : bs[i] = blocks[i]
  <2> DEFINE d == c - 1
  <2>1. d \in Nat /\ d <= Len(blocks)
    BY <1>5
  <2> HIDE DEF d
  <2>2. SubSeq(blocks, 1, d) \in Seq(Header) /\ Len(SubSeq(blocks, 1, d)) = d
        /\ \A i \in 1..d : SubSeq(blocks, 1, d)[i] = blocks[i]
    BY <1>4, <2>1
  <2> QED
    BY <2>2 DEF d
<1>19. PieceNow(bs)
  BY <1>4, <1>5, PiecePart DEF PieceNow
<1> HIDE DEF bs
<1>20. Floor' = Floor
  BY <1>4, <1>6, <1>17, <1>18 DEF Floor, x
<1>21. LoadedAt(Floor, bs, l)
  <2>1. \A i \in 1..c - 1 : i \in 1..c
    BY <1>4
  <2>2. bs # <<>> /\ Floor >= 1 => bs[1].parent = chain[Floor].fork
    <3>1. bs # <<>> => 1 \in 1..c - 1
      BY <1>5, <1>18
    <3> QED
      BY <1>1, <1>18, <3>1, <2>1 DEF LoadedAt
  <2>3. Len(bs) <= D
    BY <1>4, <1>18
  <2>4. \A i \in 1..Len(bs) : bs[i].number = Floor + i
    BY <1>4, <1>18, <2>1
  <2> QED
    BY <1>1, <1>19, <2>2, <2>3, <2>4 DEF LoadedAt
<1>22. FollowsAt(c - 1, Floor, bs, <<>>, w, h, Idle)
  <2>1. News(bs, c - 1) = <<>>
    BY <1>5, <1>18, NewsFacts
  <2>2. k >= c - 1 /\ k - (c - 1) = n - c
    BY <1>4, <1>5, <1>7, <1>10
  <2>3. ASSUME NEW i \in 1..c - 1 PROVE w[(n - c) + i] = bs[i]
    <3>1. i \in 1..c /\ (n - c) + i \in 1..k
      BY <1>4, <1>5, <1>7, <1>10
    <3>2. view[(n - c) + i] = blocks[i]
      BY <1>2, <3>1 DEF FollowsAt
    <3> QED
      BY <1>13, <1>18, <3>1, <3>2
  <2>4. k > c - 1 => n > c /\ n - c \in 1..k
    BY <1>4, <1>5, <1>10
  <2>5. n > c => InChain(chain, view[n - c]) /\ view[n - c].number = Floor
    BY <1>2 DEF FollowsAt
  <2>6. StepAt(c - 1, Floor, w, h, Idle)
    BY <1>13 DEF StepAt
  <2> QED
    BY <1>13, <2>1, <2>2, <2>3, <2>4, <2>5, <2>6 DEF FollowsAt
<1>23. pending' \in Nat \ {0} /\ pending' - 1 <= top
  <2>1. pending' = Floor + c
    BY <1>6 DEF x
  <2> QED
    BY <1>1, <1>4, <1>5, <2>1
<1>24. c - 1 \in 0..Len(bs)
  BY <1>5, <1>18
<1>25. ViewAt(view', got', lastIndexed') /\ LoadedAt(Floor', blocks', lastIndexed')
  BY <1>13, <1>14, <1>15, <1>17, <1>20, <1>21
<1>26. FollowsAt(c - 1, Floor', blocks', queue', view', got', step')
  BY <1>14, <1>15, <1>17, <1>20, <1>22
<1>27. \E m \in 0..Len(blocks') : FollowsAt(m, Floor', blocks', queue', view', got', step')
  BY <1>17, <1>24, <1>26
<1> HIDE DEF l, c, n
<1>28. WatcherInv'
  BY <1>23, <1>25, <1>27, ToRunning
<1> QED
  BY <1>16, <1>28

\* Block b joins the kept blocks bs; Gone(bs) of them go.
Gone(bs) == IF Len(bs) < MaxReorgDepth THEN 0 ELSE 1
Extended(bs, b) == Append(bs, b)
Joined(bs, b) == SubSeq(Extended(bs, b), Gone(bs) + 1, Len(bs) + 1)

LEMMA JoinBlocks ==
  ASSUME NodeOK, NEW f, NEW bs, NEW l, LoadedAt(f, bs, l),
         NEW b, Past(b), InChain(chain, b), b.number = f + Len(bs) + 1,
         bs # <<>> => b.parent = bs[Len(bs)].fork,
         bs = <<>> /\ f >= 1 => b.parent = chain[f].fork
  PROVE  /\ Joined(bs, b) \in Seq(Header) /\ Len(Joined(bs, b)) = Len(bs) + 1 - Gone(bs)
         /\ \A i \in 1..Len(Joined(bs, b)) :
              Joined(bs, b)[i] = Extended(bs, b)[i + Gone(bs)]
         /\ \A i \in 1..Len(bs) + 1 :
              InChain(chain, Extended(bs, b)[i]) /\ Extended(bs, b)[i].number = f + i
         /\ \A i \in 1..Len(bs) : Extended(bs, b)[i] = bs[i]
         /\ Extended(bs, b)[Len(bs) + 1] = b
         /\ \A k \in Nat : f + Gone(bs) >= k - MaxReorgDepth =>
                              LoadedAt(f + Gone(bs), Joined(bs, b), k)
<1> DEFINE D == MaxReorgDepth
           c == Len(bs)
           g == Extended(bs, b)
           d == Gone(bs)
           new == Joined(bs, b)
<1>1. /\ f \in Nat /\ f >= D - 1 /\ f <= Final /\ PieceNow(bs) /\ bs \in Seq(Header)
      /\ c \in Nat /\ c <= D /\ D \in Nat \ {0}
      /\ Final \in Nat /\ Final = top - D /\ Height \in Nat /\ Height <= top /\ top \in Nat
      /\ \A i \in 1..c : Past(bs[i]) /\ bs[i].number = f + i
  BY LoadedFacts, Heights
<1>2. b \in Header
  BY DEF Past, Seen
<1>3. g \in Seq(Header) /\ Len(g) = c + 1 /\ g[c + 1] = b /\ \A i \in 1..c : g[i] = bs[i]
  BY <1>1, <1>2 DEF Extended
<1> HIDE DEF g
<1>0. d \in {0, 1} /\ (c < D => d = 0) /\ (c = D => d = 1)
  BY <1>1 DEF Gone
<1>14. new = SubSeq(g, d + 1, c + 1)
  BY DEF g, Joined
<1> HIDE DEF d, new
<1>4. PieceNow(g)
  <2>1. bs # <<>> => b.number = bs[c].number + 1
    <3>1. bs # <<>> => c \in 1..c
      BY <1>1
    <3> QED
      BY <1>1, <3>1
  <2> QED
    BY <1>1, <2>1, PieceAppend DEF g, Extended
<1>5. \A i \in 1..c + 1 : g[i].number = f + i
  <2> TAKE i \in 1..c + 1
  <2>1. CASE i \in 1..c
    BY <1>1, <1>3, <2>1
  <2>2. CASE i = c + 1
    <3>1. f + c + 1 = f + (c + 1)
      BY <1>1
    <3> QED
      BY <1>3, <2>2, <3>1
  <2> QED
    BY <1>1, <2>1, <2>2
<1>6. \A i \in 1..c + 1 : InChain(chain, g[i])
  <2>1. \A i, j \in 1..Len(g) : i <= j /\ InChain(chain, g[j]) => InChain(chain, g[i])
    BY <1>4 DEF PieceNow, Piece
  <2>2. c + 1 \in 1..c + 1 /\ \A i \in 1..c + 1 : i <= c + 1
    BY <1>1
  <2> QED
    BY <1>3, <2>1, <2>2
<1>7. d \in Nat /\ d + 1 \in Nat \ {0} /\ c + 1 \in Nat /\ c + 1 - d \in Nat
      /\ c + 1 - d <= D /\ d <= c
  BY <1>0, <1>1
<1>8. new \in Seq(Header) /\ Len(new) = c + 1 - d /\ \A i \in 1..c + 1 - d : new[i] = g[i + d]
  <2>1. new = SubSeq(g, d + 1, c + 1)
    BY <1>14
  <2>2. \A i \in d + 1..c + 1 : g[i] \in Header
    BY <1>3, <1>7
  <2>3. /\ SubSeq(g, d + 1, c + 1) \in Seq(Header)
        /\ Len(SubSeq(g, d + 1, c + 1)) = IF d + 1 <= c + 1 THEN (c + 1) - (d + 1) + 1 ELSE 0
        /\ \A i \in 1..(c + 1) - (d + 1) + 1 : SubSeq(g, d + 1, c + 1)[i] = g[(d + 1) + i - 1]
    BY <1>7, <2>2, SubSeqProperties
  <2>4. (c + 1) - (d + 1) + 1 = c + 1 - d /\ d + 1 <= c + 1
        /\ \A i \in 1..c + 1 - d : (d + 1) + i - 1 = i + d
    BY <1>7
  <2> QED
    BY <2>1, <2>3, <2>4
<1>9. PieceNow(new)
  <2>1. d + 1 \in Nat \ {0} /\ c + 1 \in Nat /\ c + 1 <= Len(g)
    BY <1>3, <1>7
  <2>2. new = SubSeq(g, d + 1, c + 1)
    BY <1>14
  <2>3. top \in Nat
    BY <1>1
  <2> QED
    BY <1>4, <2>1, <2>2, <2>3, PiecePart DEF PieceNow
<1>10. f + d \in Nat /\ f + d >= D - 1 /\ f + d <= Final
  <2>1. CASE d = 0
    BY <1>1, <2>1
  <2>2. CASE d = 1
    <3>1. c = D
      BY <1>0, <1>1, <2>2
    <3>2. b.number <= Height
      BY DEF InChain, Height
    <3> QED
      BY <1>1, <2>2, <3>1, <3>2
  <2> QED
    BY <1>0, <2>1, <2>2
<1>11. \A i \in 1..Len(new) : new[i].number = (f + d) + i
  <2> TAKE i \in 1..Len(new)
  <2>1. i + d \in 1..c + 1 /\ f + (i + d) = (f + d) + i /\ i \in 1..c + 1 - d
    BY <1>1, <1>7, <1>8
  <2> QED
    BY <1>5, <1>8, <2>1
<1>12. new # <<>> /\ f + d >= 1 => new[1].parent = chain[f + d].fork
  <2> SUFFICES ASSUME new # <<>>, f + d >= 1 PROVE new[1].parent = chain[f + d].fork
    OBVIOUS
  <2>1. c + 1 - d >= 1 /\ 1 \in 1..c + 1 - d
    BY <1>7
  <2>2. new[1] = g[1 + d]
    BY <1>8, <2>1
  <2>3. CASE d = 0
    <3>1. f >= 1 /\ f + d = f /\ new[1] = g[1]
      BY <1>1, <2>2, <2>3
    <3>2. CASE bs = <<>>
      <4>1. c = 0 /\ g[1] = b
        BY <1>1, <1>3, <3>2
      <4> QED
        BY <3>1, <3>2, <4>1
    <3>3. CASE bs # <<>>
      <4>1. g[1] = bs[1]
        <5>1. 1 \in 1..c
          BY <1>1, <3>3
        <5> QED
          BY <1>3, <5>1
      <4>2. bs[1].parent = chain[f].fork
        BY <3>1, <3>3 DEF LoadedAt
      <4> QED
        BY <3>1, <4>1, <4>2
    <3> QED
      BY <3>2, <3>3
  <2>4. CASE d = 1
    <3>1. c = D /\ 2 \in 2..c + 1 /\ 2 - 1 = 1 /\ 1 \in 1..c + 1 /\ 1 + d = 2
      BY <1>0, <1>1, <2>4
    <3>2. \A i \in 2..Len(g) : g[i].parent = g[i - 1].fork
      BY <1>4 DEF PieceNow, Piece
    <3>3. g[2].parent = g[1].fork
      BY <1>3, <3>1, <3>2
    <3>4. InChain(chain, g[1]) /\ g[1].number = f + d
      BY <1>5, <1>6, <2>4, <3>1
    <3>5. chain[f + d] = g[1]
      BY <3>4 DEF InChain
    <3> QED
      BY <2>2, <3>1, <3>3, <3>5
  <2> QED
    BY <1>0, <2>3, <2>4
<1>13. ASSUME NEW k \in Nat, f + d >= k - D PROVE LoadedAt(f + d, new, k)
  <2>1. f + d \in D - 1..Final /\ Len(new) <= D
    BY <1>1, <1>7, <1>8, <1>10
  <2> QED
    BY <1>9, <1>11, <1>12, <1>13, <2>1 DEF LoadedAt
<1> QED
  BY <1>3, <1>5, <1>6, <1>8, <1>13 DEF g, d, new

\* The pending block is reported.
LEMMA JoinStep ==
  ASSUME WatcherInv, pc = "running", queue = <<>>, queue' = queue, step = Idle,
         UNCHANGED node, Counted', pc' = pc, pending <= Height,
         NEW b, b = chain[pending],
         blocks # <<>> => Last(blocks).fork = b.parent,
         blocks' = SubSeq(Append(blocks, b),
                          Most(Len(Append(blocks, b)) - MaxReorgDepth, 0) + 1,
                          Len(Append(blocks, b))),
         pending' = b.number + 1,
         OnUpdate(NewBlock(b))
  PROVE  WatcherInv' /\ FeedStep
<1> DEFINE l == lastIndexed
           D == MaxReorgDepth
           n == Len(view)
           c == Len(blocks)
           f == Floor
           g == Extended(blocks, b)
           d == Gone(blocks)
<1>1. /\ NodeOK /\ ViewAt(view, got, l) /\ LoadedAt(f, blocks, l)
      /\ pending \in Nat \ {0} /\ pending - 1 <= top /\ pending = f + c + 1
  BY RunningFacts
<1>2. FollowsAt(c, f, blocks, queue, view, got, step)
  BY PendingFacts
<1>3. /\ f \in Nat /\ f >= l - D /\ l \in Nat /\ top \in Nat
      /\ blocks \in Seq(Header) /\ c \in Nat /\ c <= D /\ D \in Nat \ {0}
      /\ n \in Nat /\ view \in Seq(Header) /\ Height \in Nat /\ Height <= top
      /\ \A i \in 1..c : Past(blocks[i]) /\ blocks[i].number = f + i
  BY <1>1, LoadedFacts, ViewFacts, Heights
<1>4. pending \in 1..Height
  BY <1>1, <1>3
<1>5. b \in Header /\ Past(b) /\ InChain(chain, b) /\ b.number = pending
  BY <1>1, <1>4, ChainFacts DEF Past
<1>6. b.number = f + c + 1
  BY <1>1, <1>5
<1>7. blocks # <<>> => b.parent = blocks[c].fork
  BY DEF Last
<1>8. blocks = <<>> /\ f >= 1 => b.parent = chain[f].fork
  <2> SUFFICES ASSUME blocks = <<>>, f >= 1 PROVE b.parent = chain[f].fork
    OBVIOUS
  <2>1. c = 0
    OBVIOUS
  <2>2. pending \in 2..Height /\ pending - 1 = f
    BY <1>1, <1>3, <1>4, <2>1
  <2> QED
    BY <1>1, <2>2 DEF NodeOK
<1>9. d \in {0, 1} /\ (c < D => d = 0) /\ (c = D => d = 1)
  BY <1>3 DEF Gone
<1>10. blocks' = Joined(blocks, b)
  <2>1. Len(g) = c + 1
    BY <1>3, <1>5 DEF Extended
  <2>2. Most((c + 1) - D, 0) = d
    BY <1>3 DEF Most, Gone
  <2> HIDE DEF g
  <2>3. blocks' = SubSeq(g, Most(Len(g) - D, 0) + 1, Len(g))
    BY DEF g, Extended
  <2> QED
    BY <2>1, <2>2, <2>3 DEF Joined, g
<1> HIDE DEF f
<1>11. /\ blocks' \in Seq(Header) /\ Len(blocks') = c + 1 - d
       /\ \A i \in 1..c + 1 - d : blocks'[i] = g[i + d]
       /\ \A i \in 1..c + 1 : InChain(chain, g[i]) /\ g[i].number = f + i
       /\ \A i \in 1..c : g[i] = blocks[i]
       /\ g[c + 1] = b
       /\ \A k \in Nat : f + d >= k - D => LoadedAt(f + d, blocks', k)
  <2>1. b.number = f + Len(blocks) + 1 /\ (blocks # <<>> => b.parent = blocks[Len(blocks)].fork)
    BY <1>6, <1>7
  <2>2. NodeOK /\ LoadedAt(f, blocks, lastIndexed) /\ Past(b) /\ InChain(chain, b)
    BY <1>1, <1>5
  <2>3. Joined(blocks, b) \in Seq(Header)
    BY <1>8, <2>1, <2>2, JoinBlocks
  <2>4. Len(Joined(blocks, b)) = Len(blocks) + 1 - Gone(blocks)
    BY <1>8, <2>1, <2>2, JoinBlocks
  <2>5. \A i \in 1..Len(Joined(blocks, b)) :
              Joined(blocks, b)[i] = Extended(blocks, b)[i + Gone(blocks)]
    BY <1>8, <2>1, <2>2, JoinBlocks
  <2>6. \A i \in 1..Len(blocks) + 1 :
              InChain(chain, Extended(blocks, b)[i]) /\ Extended(blocks, b)[i].number = f + i
    BY <1>8, <2>1, <2>2, JoinBlocks
  <2>7. \A i \in 1..Len(blocks) : Extended(blocks, b)[i] = blocks[i]
    BY <1>8, <2>1, <2>2, JoinBlocks
  <2>8. Extended(blocks, b)[Len(blocks) + 1] = b
    BY <1>8, <2>1, <2>2, JoinBlocks
  <2>9. \A k \in Nat : f + Gone(blocks) >= k - MaxReorgDepth =>
                              LoadedAt(f + Gone(blocks), Joined(blocks, b), k)
    BY <1>8, <2>1, <2>2, JoinBlocks
  <2> QED
    BY <1>10, <2>3, <2>4, <2>5, <2>6, <2>7, <2>8, <2>9
<1> HIDE DEF d
<1> HIDE DEF g
<1>12. c + 1 - d \in Nat /\ f + d \in Nat /\ d <= c /\ d \in Nat
  BY <1>3, <1>9
<1>13. Floor' = f + d
  <2>1. Floor' = (b.number + 1) - 1 - (c + 1 - d)
    BY <1>11 DEF Floor
  <2> QED
    BY <1>3, <1>6, <1>12, <2>1, SMTT(30)
<1>14. \A i \in 1..n : view[i].number <= f + d => InChain(chain, view[i])
  <2>1. \A i \in 1..n : /\ view[i].number = f + c - n + i
                        /\ view[i].number <= f => InChain(chain, view[i])
    <3>1. c <= Len(blocks)
      BY <1>3
    <3> QED
      BY <1>1, <1>2, <1>3, <3>1, FollowsNumbers
  <2> TAKE i \in 1..n
  <2> HAVE view[i].number <= f + d
  <2>2. CASE f + c - n + i <= f
    BY <2>1, <2>2
  <2>3. CASE ~(f + c - n + i <= f)
    <3>1. f + c - n + i <= f + d
      BY <2>1
    <3>2. d = 1 /\ i = (n - c) + 1 /\ 1 \in 1..c /\ 1 \in 1..c + 1
      <4> HIDE DEF n, c
      <4>1. c \in Nat /\ n \in Nat /\ f \in Nat
        BY <1>3
      <4> QED
        BY <1>9, <1>12, <2>3, <3>1, <4>1
    <3>3. \A j \in 1..c : view[(n - c) + j] = blocks[j]
      BY <1>2 DEF FollowsAt
    <3>4. view[i] = g[1]
      BY <1>11, <3>2, <3>3
    <3> QED
      BY <1>11, <3>2, <3>4
  <2> QED
    BY <2>2, <2>3
<1>15. f + d >= f /\ f + d >= b.number - D /\ b.number > f + d
  BY <1>3, <1>6, <1>9
<1>16. /\ FeedStep /\ ViewAt(view', got', lastIndexed') /\ f + d >= lastIndexed' - D
       /\ Len(view') = n + 1 /\ view'[n + 1] = b
       /\ \A i \in 1..n : view'[i] = view[i]
       /\ \A j, k : StepAt(j, k, view', got', step')
  <2>1. c > 0 => b.parent = blocks[c].fork
    BY <1>3, <1>7
  <2>2. c = 0 /\ f >= 1 => b.parent = chain[f].fork
    BY <1>3, <1>8
  <2> HIDE DEF l, n
  <2>3. c <= c
    BY <1>3
  <2> HIDE DEF c
  <2>4. /\ c \in Nat /\ f + d \in Nat
    BY <1>3, <1>12
  <2> USE DEF c, l, n, f
  <2> QED
    BY <1>1, <1>2, <1>5, <1>6, <1>14, <1>15, <2>1, <2>2, <2>3, <2>4, ReportStep
<1>17. lastIndexed' \in Nat
  BY <1>1, <1>16, ViewFacts
<1>18. LoadedAt(f + d, blocks', lastIndexed')
  BY <1>11, <1>16, <1>17
<1>19. FollowsAt(c + 1 - d, f + d, blocks', queue', view', got', step')
  <2>1. n >= c
    BY <1>2 DEF FollowsAt
  <2>2. n + 1 >= c + 1 - d /\ (n + 1) - (c + 1 - d) = (n - c) + d
    <3>1. c \in Nat /\ n \in Nat /\ d \in Nat /\ d <= c
      BY <1>3, <1>12
    <3> HIDE DEF n, c
    <3> QED
      BY <2>1, <3>1
  <2>3. queue' = News(blocks', c + 1 - d)
    <3>1. News(blocks', c + 1 - d) = <<>>
      <4>1. c + 1 - d \in 0..Len(blocks')
        BY <1>11, <1>12
      <4> QED
        BY <1>11, <4>1, NewsFacts
    <3> QED
      BY <3>1
  <2>4. \A j \in 1..c : view[(n - c) + j] = blocks[j]
    BY <1>2 DEF FollowsAt
  <2>5. \A j \in 1..c + 1 : view'[(n - c) + j] = g[j]
    <3> TAKE j \in 1..c + 1
    <3>1. CASE j \in 1..c
      <4>1. (n - c) + j \in 1..n
        BY <1>3, <2>1, <3>1
      <4> QED
        BY <1>11, <1>16, <2>4, <3>1, <4>1
    <3>2. CASE j = c + 1
      <4>1. (n - c) + j = n + 1
        BY <1>3, <3>2
      <4> QED
        BY <1>11, <1>16, <3>2, <4>1
    <3> QED
      BY <1>3, <3>1, <3>2
  <2>6. ASSUME NEW i \in 1..c + 1 - d PROVE view'[((n - c) + d) + i] = blocks'[i]
    <3>1. i + d \in 1..c + 1 /\ ((n - c) + d) + i = (n - c) + (i + d)
      <4> HIDE DEF n, c
      <4>1. c \in Nat /\ n \in Nat
        BY <1>3
      <4> QED
        BY <1>9, <1>12, <4>1
    <3> QED
      BY <1>11, <2>5, <3>1
  <2>7. n + 1 > c + 1 - d => /\ InChain(chain, view'[(n - c) + d])
                             /\ view'[(n - c) + d].number = f + d
    <3>1. CASE d = 0
      <4>1. n + 1 > c + 1 - d => n > c /\ (n - c) + d = n - c /\ n - c \in 1..n /\ f + d = f
        BY <1>3, <3>1
      <4>2. n > c => InChain(chain, view[n - c]) /\ view[n - c].number = f
        BY <1>2 DEF FollowsAt
      <4> QED
        BY <1>16, <4>1, <4>2
    <3>2. CASE d = 1
      <4>1. 1 \in 1..c + 1
        BY <1>3
      <4> QED
        BY <1>11, <2>5, <3>2, <4>1
    <3> QED
      BY <1>9, <3>1, <3>2
  <2> QED
    BY <1>16, <2>2, <2>3, <2>6, <2>7 DEF FollowsAt
<1>20. pending' \in Nat \ {0} /\ pending' - 1 <= top
  <2>1. pending' = pending + 1
    BY <1>5
  <2> QED
    BY <1>1, <1>3, <1>4, <2>1
<1>21. c + 1 - d \in 0..Len(blocks')
  BY <1>11, <1>12
<1>22. \E m \in 0..Len(blocks') : FollowsAt(m, Floor', blocks', queue', view', got', step')
  BY <1>13, <1>19, <1>21
<1>23. LoadedAt(Floor', blocks', lastIndexed')
  BY <1>13, <1>18
<1>24. WatcherInv'
  BY <1>16, <1>20, <1>22, <1>23, ToRunning
<1> QED
  BY <1>16, <1>24

LEMMA PendingStep ==
  ASSUME WatcherInv, NextPending
  PROVE  WatcherInv' /\ FeedStep
<1> DEFINE b == chain[pending]
           grown == Append(blocks, b)
<1>1. /\ pc = "running" /\ step = Idle /\ queue = <<>> /\ queue' = queue /\ pending <= Height
      /\ UNCHANGED node /\ pc' = pc /\ UNCHANGED failures /\ UNCHANGED stops
      /\ IF blocks # <<>> /\ Last(blocks).fork # b.parent
         THEN /\ blocks' = Front(blocks)
              /\ pending' = Last(blocks).number
              /\ OnUpdate(Uncle(Last(blocks).number))
         ELSE /\ blocks' = SubSeq(grown, Most(Len(grown) - MaxReorgDepth, 0) + 1, Len(grown))
              /\ pending' = b.number + 1
              /\ OnUpdate(NewBlock(b))
  BY DEF NextPending
<1>2. Counted'
  BY <1>1, CountedStep DEF WatcherInv
<1> HIDE DEF b
<1>3. CASE blocks # <<>> /\ Last(blocks).fork # b.parent
  BY <1>1, <1>2, <1>3, UncleStep
<1>4. CASE ~(blocks # <<>> /\ Last(blocks).fork # b.parent)
  BY <1>1, <1>2, <1>4, JoinStep DEF b
<1> QED
  BY <1>3, <1>4

(***************************************************************************)
(* What is handed over.                                                    *)
(***************************************************************************)
EventTransition == [id : Event, block : Nat, index : Nat]
EventsIn(bs, answer) == [i \in 1..Len(bs) |-> EventsOf(bs[i], answer[i])]

LEMMA EventsOfFacts ==
  ASSUME NEW b \in Header, NEW logs \in Seq(Log)
  PROVE  /\ EventsOf(b, logs) \in Seq(EventTransition)
         /\ Len(EventsOf(b, logs)) = Len(logs)
         /\ \A i \in 1..Len(logs) :
              /\ EventsOf(b, logs)[i].id = logs[i].event
              /\ EventsOf(b, logs)[i].block = b.number
              /\ EventsOf(b, logs)[i].index = logs[i].index
         /\ \A x \in ToSet(EventsOf(b, logs)) : x.block = b.number
<1> DEFINE e == EventsOf(b, logs)
<1>1. Len(logs) \in Nat /\ b.number \in Nat
  BY HeaderFacts
<1>2. \A i \in 1..Len(logs) : logs[i].event \in Event /\ logs[i].index \in Nat
  <2> TAKE i \in 1..Len(logs)
  <2>1. logs[i] \in Log
    BY <1>1
  <2> QED
    BY <2>1 DEF Log
<1>3. \A i \in 1..Len(logs) :
        [id |-> logs[i].event, block |-> b.number, index |-> logs[i].index] \in EventTransition
  BY <1>1, <1>2 DEF EventTransition
<1>4. /\ e \in Seq(EventTransition) /\ Len(e) = Len(logs)
      /\ \A i \in 1..Len(logs) :
           e[i] = [id |-> logs[i].event, block |-> b.number, index |-> logs[i].index]
  BY <1>1, <1>3 DEF EventsOf
<1> HIDE DEF e
<1>5. \A i \in 1..Len(logs) :
        e[i].id = logs[i].event /\ e[i].block = b.number /\ e[i].index = logs[i].index
  <2> TAKE i \in 1..Len(logs)
  <2> DEFINE x == logs[i].event
             y == b.number
             z == logs[i].index
  <2>1. e[i] = [id |-> x, block |-> y, index |-> z]
    BY <1>4
  <2> HIDE DEF x, y, z
  <2>2. e[i].id = x /\ e[i].block = y /\ e[i].index = z
    BY <2>1
  <2> QED
    BY <2>2 DEF x, y, z
<1>6. ASSUME NEW x \in ToSet(e) PROVE x.block = b.number
  <2>1. DOMAIN e = 1..Len(logs)
    BY <1>4
  <2>2. PICK i \in 1..Len(logs) : x = e[i]
    BY <2>1 DEF ToSet
  <2> QED
    BY <1>5, <2>2
<1> QED
  BY <1>4, <1>5, <1>6 DEF e

LEMMA EventsInFacts ==
  ASSUME NEW bs \in Seq(Header), NEW answer \in Seq(Seq(Log)), Len(answer) = Len(bs)
  PROVE  /\ EventsIn(bs, answer) \in Seq(Seq(EventTransition))
         /\ Len(EventsIn(bs, answer)) = Len(bs)
         /\ \A i \in 1..Len(bs) : /\ EventsIn(bs, answer)[i] = EventsOf(bs[i], answer[i])
                                  /\ bs[i] \in Header /\ answer[i] \in Seq(Log)
<1>1. Len(bs) \in Nat
  OBVIOUS
<1>2. \A i \in 1..Len(bs) : bs[i] \in Header /\ answer[i] \in Seq(Log)
  BY <1>1
<1>3. \A i \in 1..Len(bs) : EventsOf(bs[i], answer[i]) \in Seq(EventTransition)
  BY <1>2, EventsOfFacts
<1> QED
  BY <1>1, <1>2, <1>3 DEF EventsIn

\* The transitions before the first one that cannot be parsed.
LEMMA ParsedFacts ==
  ASSUME NEW S, NEW ts \in Seq(S)
  PROVE  \E n \in 0..Len(ts) :
           /\ Parsed(ts) \in Seq(S) /\ Len(Parsed(ts)) = n
           /\ \A i \in 1..n : i \in 1..Len(ts) /\ Parsed(ts)[i] = ts[i]
           /\ n < Len(ts) => ts[n + 1].id \in Malformed
<1> DEFINE Clean(n) == \A i \in 1..n : ts[i].id \notin Malformed
           Fits(n) == Clean(n) /\ (n < Len(ts) => ts[n + 1].id \in Malformed)
           c == CHOOSE n \in 0..Len(ts) : Fits(n)
<1>1. Len(ts) \in Nat
  OBVIOUS
<1>2. \E n \in 0..Len(ts) : Fits(n)
  <2> SUFFICES ASSUME \A n \in 0..Len(ts) : ~Fits(n) PROVE FALSE
    OBVIOUS
  <2> DEFINE Good == {n \in Nat : n <= Len(ts) => Clean(n)}
  <2>1. 0 \in Good
    OBVIOUS
  <2>2. ASSUME NEW n \in Nat, n \in Good PROVE n + 1 \in Good
    <3> SUFFICES ASSUME n + 1 <= Len(ts) PROVE Clean(n + 1)
      OBVIOUS
    <3>1. n \in 0..Len(ts) /\ n < Len(ts) /\ Clean(n)
      BY <1>1, <2>2
    <3>2. ts[n + 1].id \notin Malformed
      BY <3>1
    <3>3. \A i \in 1..n + 1 : i \in 1..n \/ i = n + 1
      OBVIOUS
    <3> QED
      BY <3>1, <3>2, <3>3
  <2> HIDE DEF Good
  <2>3. Nat \subseteq Good
    BY <2>1, <2>2, NatSetInduction
  <2>4. Len(ts) \in Good
    BY <1>1, <2>3
  <2>5. Clean(Len(ts))
    BY <1>1, <2>4 DEF Good
  <2>6. Fits(Len(ts)) /\ Len(ts) \in 0..Len(ts)
    BY <1>1, <2>5
  <2> QED
    BY <2>6
<1>3. c \in 0..Len(ts) /\ Fits(c)
  BY <1>2
<1>4. Parsed(ts) = SubSeq(ts, 1, c)
  BY DEF Parsed
<1> HIDE DEF c
<1>5. /\ SubSeq(ts, 1, c) \in Seq(S) /\ Len(SubSeq(ts, 1, c)) = c
      /\ \A i \in 1..c : i \in 1..Len(ts) /\ SubSeq(ts, 1, c)[i] = ts[i]
  BY <1>1, <1>3, SubSeqProperties
<1> QED
  BY <1>3, <1>4, <1>5

LEMMA HandOverFacts ==
  ASSUME NEW bs \in Seq(Header), NEW answer \in Seq(Seq(Log)), Len(answer) = Len(bs),
         HandOver(bs, answer)
  PROVE  /\ got' = got \o answer /\ view' = view
         /\ \/ lastIndexed' = lastIndexed
            \/ \E i \in 1..Len(bs) : lastIndexed' = Most(lastIndexed, bs[i].number)
<1> DEFINE ss == EventsIn(bs, answer)
           all == FlattenSeq(ss)
           t == Parsed(all)
<1>1. got' = got \o answer /\ view' = view /\ HandleTransitions(t)
  BY DEF HandOver, EventsIn
<1>2. ss \in Seq(Seq(EventTransition)) /\ Len(ss) = Len(bs)
      /\ \A i \in 1..Len(bs) : ss[i] = EventsOf(bs[i], answer[i])
                               /\ bs[i] \in Header /\ answer[i] \in Seq(Log)
  BY EventsInFacts
<1> HIDE DEF ss
<1>3. all \in Seq(EventTransition)
      /\ \A x : x \in ToSet(all) <=> \E i \in 1..Len(ss) : x \in ToSet(ss[i])
  BY <1>2, FlatMembers
<1> HIDE DEF all
<1>6. PICK n \in 0..Len(all) :
        /\ t \in Seq(EventTransition) /\ Len(t) = n
        /\ \A i \in 1..n : i \in 1..Len(all) /\ t[i] = all[i]
  BY <1>3, ParsedFacts
<1> HIDE DEF t
<1>4. CASE t = <<>>
  BY <1>1, <1>4 DEF HandleTransitions
<1>5. CASE t # <<>>
  <2>1. Last(t) \in ToSet(all)
    <3>1. n \in 1..n /\ Last(t) = t[n]
      BY <1>5, <1>6 DEF Last
    <3>2. n \in 1..Len(all) /\ Last(t) = all[n]
      BY <1>6, <3>1
    <3> QED
      BY <1>3, <3>2 DEF ToSet
  <2>2. PICK i \in 1..Len(bs) : Last(t) \in ToSet(ss[i])
    BY <1>2, <1>3, <2>1
  <2>3. ss[i] = EventsOf(bs[i], answer[i]) /\ bs[i] \in Header /\ answer[i] \in Seq(Log)
    BY <1>2
  <2>4. \A x \in ToSet(ss[i]) : x.block = bs[i].number
    <3>1. \A x \in ToSet(EventsOf(bs[i], answer[i])) : x.block = bs[i].number
      BY <2>3, EventsOfFacts
    <3> QED
      BY <2>3, <3>1
  <2>5. Last(t).block = bs[i].number
    BY <2>2, <2>4
  <2> QED
    BY <1>1, <1>5, <2>5 DEF HandleTransitions
<1> QED
  BY <1>4, <1>5

\* What the answer x holds of the logs of a block.
Fair(logs, x) ==
  /\ x \in Seq(Log) /\ ToSet(x) \subseteq ToSet(logs)
  /\ \A l \in ToSet(logs) : l.event \notin FallibleEvents => l \in ToSet(x)
  /\ \A j, k \in 1..Len(x) : j < k => x[j].index < x[k].index

LEMMA AllIsFair ==
  ASSUME NEW logs \in LogList
  PROVE  Fair(logs, logs)
<1>1. logs \in Seq(Log) /\ \A i \in 1..Len(logs) : logs[i].index = i
  BY LogListFacts
<1>2. \A j, k \in 1..Len(logs) : j < k => logs[j].index < logs[k].index
  BY <1>1
<1> QED
  BY <1>1, <1>2 DEF Fair

LEMMA OnlyFew ==
  ASSUME NEW logs \in Seq(Log), NEW l \in ToSet(logs), ~TooMany(Only(l.event, logs))
  PROVE  Cardinality({m \in Only(l.event, logs) : m.index <= l.index}) <= MaxLogsPerQuery
<1> DEFINE O == Only(l.event, logs)
           P == {m \in O : m.index <= l.index}
<1>1. IsFiniteSet(ToSet(logs))
  <2> DEFINE f == [i \in 1..Len(logs) |-> logs[i]]
  <2>1. Len(logs) \in Nat /\ DOMAIN logs = 1..Len(logs)
    OBVIOUS
  <2>2. IsFiniteSet(1..Len(logs))
    BY <2>1, FS_Interval
  <2>3. f \in Surjection(1..Len(logs), ToSet(logs))
    BY <2>1 DEF Surjection, ToSet
  <2> QED
    BY <2>2, <2>3, FS_Surjection
<1>2. O \in SUBSET ToSet(logs)
  BY DEF Only
<1>3. IsFiniteSet(O)
  BY <1>1, <1>2, FS_Subset
<1> HIDE DEF O
<1>4. P \in SUBSET O
  OBVIOUS
<1> HIDE DEF P
<1>5. IsFiniteSet(P) /\ Cardinality(P) <= Cardinality(O) /\ Cardinality(O) \in Nat /\ Cardinality(P) \in Nat
  BY <1>3, <1>4, FS_Subset, FS_CardinalityType
<1>6. Cardinality(O) < MaxLogsPerQuery /\ MaxLogsPerQuery \in Nat
  <2>1. ~(Cardinality(O) >= MaxLogsPerQuery)
    BY DEF TooMany, O
  <2> QED
    BY <1>5, <2>1, WatcherAssumption
<1>7. Cardinality(P) <= MaxLogsPerQuery
  BY <1>5, <1>6
<1> QED
  BY <1>7 DEF P, O

LEMMA AnsweredIsFair ==
  ASSUME NEW b \in Header, NEW missed \in SUBSET FallibleEvents,
         \A e \in Events(b.logs) \ FallibleEvents : ~TooMany(Only(e, b.logs))
  PROVE  Fair(b.logs, Answered(b, missed))
<1> DEFINE logs == b.logs
           T == {l \in ToSet(logs) :
                   /\ l.event \notin missed
                   /\ Cardinality({m \in Only(l.event, logs) : m.index <= l.index})
                        <= MaxLogsPerQuery}
           x == Kept(logs, T)
<1>1. logs \in LogList
  BY HeaderFacts
<1>2. logs \in Seq(Log) /\ \A i \in 1..Len(logs) : logs[i].index = i
  BY <1>1, LogListFacts
<1>3. Answered(b, missed) = x
  BY DEF Answered
<1>4. ASSUME NEW l \in ToSet(logs), l.event \notin FallibleEvents
      PROVE  l \in T
  <2>1. l.event \in Events(logs)
    BY <1>2 DEF ToSet, Events
  <2>2. ~TooMany(Only(l.event, logs))
    BY <1>4, <2>1
  <2>3. Cardinality({m \in Only(l.event, logs) : m.index <= l.index}) <= MaxLogsPerQuery
    BY <1>2, <2>2, OnlyFew
  <2> QED
    BY <1>4, <2>3
<1> HIDE DEF logs, T
<1>5. /\ x \in Seq(Log) /\ ToSet(x) = ToSet(logs) \cap T
      /\ \A p, q \in 1..Len(x) : p < q =>
           \E i, j \in 1..Len(logs) : i < j /\ x[p] = logs[i] /\ x[q] = logs[j]
  BY <1>2, KeptFacts
<1> HIDE DEF x
<1>6. ASSUME NEW p \in 1..Len(x), NEW q \in 1..Len(x), p < q
      PROVE  x[p].index < x[q].index
  <2>1. PICK i \in 1..Len(logs), j \in 1..Len(logs) : i < j /\ x[p] = logs[i] /\ x[q] = logs[j]
    BY <1>5, <1>6
  <2> QED
    BY <1>2, <2>1
<1>7. Fair(logs, x)
  BY <1>4, <1>5, <1>6 DEF Fair
<1> QED
  BY <1>3, <1>7 DEF logs

LEMMA QueryFacts ==
  ASSUME NEW bs \in Seq(Header), Len(bs) >= 1, NEW answer,
         \/ OneQueryAllEvents(bs, answer)
         \/ Len(bs) = 1 /\ OneQueryPerEvent(bs[1], answer)
  PROVE  /\ answer \in Seq(Seq(Log)) /\ Len(answer) = Len(bs)
         /\ \A i \in 1..Len(bs) : Fair(bs[i].logs, answer[i])
         /\ UNCHANGED failures \/ Failing
<1>1. Len(bs) \in Nat /\ \A i \in 1..Len(bs) : bs[i] \in Header /\ bs[i].logs \in LogList
  <2>1. Len(bs) \in Nat /\ \A i \in 1..Len(bs) : bs[i] \in Header
    OBVIOUS
  <2> QED
    BY <2>1, HeaderFacts
<1>2. \A i \in 1..Len(bs) : Fair(bs[i].logs, bs[i].logs)
  BY <1>1, AllIsFair
<1>3. CASE OneQueryAllEvents(bs, answer)
  <2>1. answer = [i \in 1..Len(bs) |-> bs[i].logs] /\ UNCHANGED failures
    BY <1>3 DEF OneQueryAllEvents
  <2>2. \A i \in 1..Len(bs) : bs[i].logs \in Seq(Log)
    BY <1>2 DEF Fair
  <2>3. answer \in Seq(Seq(Log)) /\ Len(answer) = Len(bs)
    BY <1>1, <2>1, <2>2
  <2> QED
    BY <1>2, <2>1, <2>3
<1>4. CASE Len(bs) = 1 /\ OneQueryPerEvent(bs[1], answer)
  <2>1. /\ \A e \in Events(bs[1].logs) \ FallibleEvents : ~TooMany(Only(e, bs[1].logs))
        /\ \E missed \in SUBSET (Events(bs[1].logs) \cap FallibleEvents) :
             /\ answer = <<Answered(bs[1], missed)>>
             /\ UNCHANGED failures \/ Failing
    BY <1>4 DEF OneQueryPerEvent
  <2>2. PICK missed \in SUBSET (Events(bs[1].logs) \cap FallibleEvents) :
             /\ answer = <<Answered(bs[1], missed)>>
             /\ UNCHANGED failures \/ Failing
    BY <2>1
  <2>3. missed \in SUBSET FallibleEvents /\ bs[1] \in Header
    BY <1>1, <1>4
  <2> DEFINE x == Answered(bs[1], missed)
  <2>4. Fair(bs[1].logs, x)
    BY <2>1, <2>3, AnsweredIsFair
  <2> HIDE DEF x
  <2>5. answer = <<x>> /\ x \in Seq(Log)
    BY <2>2, <2>4 DEF Fair, x
  <2>6. answer \in Seq(Seq(Log)) /\ Len(answer) = 1 /\ answer[1] = x
    BY <2>5
  <2>7. \A i \in 1..Len(bs) : i = 1
    BY <1>4
  <2> QED
    BY <1>4, <2>2, <2>4, <2>6, <2>7
<1> QED
  BY <1>3, <1>4

\* Logs are handed over for the next blocks bs of the view.
LEMMA HandOverStep ==
  ASSUME NodeOK, ViewAt(view, got, lastIndexed),
         NEW bs \in Seq(Header), Len(bs) >= 1, Len(got) + Len(bs) <= Len(view),
         \A i \in 1..Len(bs) : bs[i] = view[Len(got) + i],
         NEW answer \in Seq(Seq(Log)), Len(answer) = Len(bs),
         \A i \in 1..Len(bs) : Fair(bs[i].logs, answer[i]),
         HandOver(bs, answer)
  PROVE  /\ FeedStep /\ view' = view
         /\ got' \in Seq(Seq(Log)) /\ Len(got') = Len(got) + Len(bs)
<1>1. view' = view /\ got' = got \o answer
  BY HandOverFacts
<1>2. /\ got \in Seq(Seq(Log)) /\ Len(got) \in Nat /\ Len(view) \in Nat
      /\ Len(bs) \in Nat
  BY ViewFacts
<1> DEFINE g == got \o answer
           k == Len(got)
<1>3. /\ g \in Seq(Seq(Log)) /\ Len(g) = k + Len(bs)
      /\ \A p \in 1..k : g[p] = got[p]
      /\ \A j \in 1..Len(bs) : g[k + j] = answer[j]
  <2>1. /\ got \o answer \in Seq(Seq(Log)) /\ Len(got \o answer) = Len(got) + Len(answer)
        /\ \A p \in 1..Len(got) : (got \o answer)[p] = got[p]
        /\ \A j \in 1..Len(answer) : (got \o answer)[Len(got) + j] = answer[j]
    <3>1. got \in Seq(Seq(Log)) /\ answer \in Seq(Seq(Log))
      BY <1>2
    <3> DEFINE S == Seq(Log)
    <3>2. got \in Seq(S) /\ answer \in Seq(S)
      BY <3>1
    <3> HIDE DEF S
    <3>3. /\ got \o answer \in Seq(S) /\ Len(got \o answer) = Len(got) + Len(answer)
          /\ \A p \in 1..Len(got) : (got \o answer)[p] = got[p]
          /\ \A j \in 1..Len(answer) : (got \o answer)[Len(got) + j] = answer[j]
      <4> DEFINE u == got
                 v == answer
      <4>1. u \in Seq(S) /\ v \in Seq(S)
        BY <3>2
      <4> HIDE DEF u, v
      <4>2. u \o v \in Seq(S) /\ Len(u \o v) = Len(u) + Len(v)
        BY <4>1, ConcatPlaces
      <4>3. \A p \in 1..Len(u) : (u \o v)[p] = u[p]
        BY <4>1, ConcatPlaces
      <4>4. \A j \in 1..Len(v) : (u \o v)[Len(u) + j] = v[j]
        BY <4>1, ConcatPlaces
      <4> QED
        BY <4>2, <4>3, <4>4 DEF u, v
    <3> QED
      BY <3>3 DEF S
  <2> QED
    BY <2>1
<1> HIDE DEF g
<1>4. k < Len(g) /\ Len(g) <= Len(view)
  BY <1>2, <1>3
<1>5. Feed!IsStrictPrefix(got, got')
  <2>1. got' = g
    BY <1>1 DEF g
  <2> QED
    BY <1>2, <1>3, <1>4, <2>1, PrefixFacts
      DEF IsStrictPrefix, IsPrefix, Feed!IsStrictPrefix, Feed!IsPrefix
<1>6. ASSUME NEW i \in k + 1..Len(g)
      PROVE  /\ ToSet(g[i]) \subseteq ToSet(view[i].logs)
             /\ \A l \in ToSet(view[i].logs) : l.event \notin FallibleEvents => l \in ToSet(g[i])
             /\ \A p, q \in DOMAIN g[i] : p < q => g[i][p].index < g[i][q].index
  <2> DEFINE j == i - k
  <2>1. j \in 1..Len(bs) /\ k + j = i
    BY <1>2, <1>3, <1>6
  <2> HIDE DEF j
  <2>2. g[i] = answer[j] /\ view[i] = bs[j] /\ Fair(bs[j].logs, answer[j])
    <3>1. g[k + j] = answer[j] /\ bs[j] = view[Len(got) + j] /\ Fair(bs[j].logs, answer[j])
      BY <1>3, <2>1
    <3> QED
      BY <2>1, <3>1
  <2>3. Fair(view[i].logs, g[i])
    BY <2>2
  <2>4. DOMAIN g[i] = 1..Len(g[i])
    BY <2>3 DEF Fair
  <2> QED
    BY <2>3, <2>4 DEF Fair
<1>7. Feed!HandOver
  <2>1. got' = g
    BY <1>1 DEF g
  <2>2. \A i \in Len(got) + 1..Len(got') :
           /\ Feed!ToSet(got'[i]) \subseteq Feed!ToSet(view[i].logs)
           /\ Feed!Critical(view[i].logs) \subseteq Feed!ToSet(got'[i])
           /\ \A p, q \in DOMAIN got'[i] : p < q => got'[i][p].index < got'[i][q].index
    <3> TAKE i \in Len(got) + 1..Len(got')
    <3>1. i \in k + 1..Len(g)
      BY <2>1
    <3> DEFINE x == g[i]
               y == view[i].logs
    <3>2. /\ ToSet(x) \subseteq ToSet(y)
          /\ \A l \in ToSet(y) : l.event \notin FallibleEvents => l \in ToSet(x)
          /\ \A p, q \in DOMAIN x : p < q => x[p].index < x[q].index
      BY <1>6, <3>1
    <3> HIDE DEF x, y
    <3>3. Feed!ToSet(x) = ToSet(x) /\ Feed!ToSet(y) = ToSet(y)
      BY DEF Feed!ToSet, ToSet
    <3>4. Feed!Critical(y) \subseteq ToSet(x)
      BY <3>2, <3>3 DEF Feed!Critical
    <3> QED
      BY <2>1, <3>2, <3>3, <3>4 DEF x, y
  <2>3. Len(got') <= Len(view)
    BY <1>4, <2>1
  <2> QED
    BY <1>1, <1>5, <2>2, <2>3 DEF Feed!HandOver
<1> QED
  BY <1>1, <1>3, <1>7 DEF FeedStep, Feed!Next, g

(***************************************************************************)
(* Steps of the event watcher.                                             *)
(***************************************************************************)
\* Logs were handed over: g2 of them, and l2 is the last indexed block.
LEMMA IndexView ==
  ASSUME NodeOK, NEW v, NEW g, NEW l, ViewAt(v, g, l), v # <<>>,
         NEW g2 \in Seq(Seq(Log)), Len(g2) <= Len(v),
         NEW l2 \in Nat, l2 >= l, l2 <= top,
         NEW f \in Nat, f >= l2 - MaxReorgDepth,
         \A i \in 1..Len(v) : v[i].number <= f => InChain(chain, v[i]),
         v[Len(v)].number >= l2 - MaxReorgDepth,
         Len(g2) < Len(v) => v[Len(g2) + 1].number > l2 - MaxReorgDepth
  PROVE  ViewAt(v, g2, l2)
<1>1. /\ v \in Seq(Header) /\ Len(v) \in Nat /\ l \in Nat /\ l # 0 /\ l >= MaxReorgDepth
      /\ MaxReorgDepth \in Nat \ {0} /\ PieceNow(v) /\ top \in Nat
  <2>1. l # 0
    BY DEF ViewAt
  <2> QED
    BY <2>1, ViewFacts, Heights
<1>2. l2 # 0 /\ l2 >= MaxReorgDepth /\ l2 \in 0..top
  BY <1>1
<1>3. ASSUME NEW i \in 1..Len(v), v[i].number <= l2 - MaxReorgDepth
      PROVE  InChain(chain, v[i])
  <2> DEFINE x == v[i].number
  <2>1. x \in Nat
    BY ViewFacts
  <2>2. x <= l2 - MaxReorgDepth
    BY <1>3
  <2> HIDE DEF x
  <2>3. x <= f
    BY <1>1, <2>1, <2>2
  <2> QED
    BY <2>3 DEF x
<1> QED
  BY <1>1, <1>2, <1>3 DEF ViewAt

LEMMA BusyFacts ==
  ASSUME WatcherInv, pc = "running", step # Idle
  PROVE  \E m \in 0..Len(blocks) : FollowsAt(m, Floor, blocks, queue, view, got, step)
BY RunningFacts DEF Restarting, Rewound, Following

\* A warp is under way to the final block Floor, and all of the view is final.
LEMMA WarpingFacts ==
  ASSUME WatcherInv, pc = "running", step.type = "warping"
  PROVE  /\ FollowsAt(0, Floor, blocks, queue, view, got, step)
         /\ Len(got) < Len(view)
         /\ \E size \in 1..BlockPageSize :
              step = Warping(view[Len(got) + 1].number, Floor, size)
         /\ \A i \in 1..Len(view) : /\ view[i].number = Floor - Len(view) + i
                                    /\ InChain(chain, view[i])
<1>1. NodeOK /\ ViewAt(view, got, lastIndexed) /\ LoadedAt(Floor, blocks, lastIndexed)
  BY RunningFacts
<1>2. step # Idle
  <2>1. Idle.type = "idle"
    BY DEF Idle
  <2> QED
    BY <2>1
<1>3. PICK m \in 0..Len(blocks) : FollowsAt(m, Floor, blocks, queue, view, got, step)
  BY <1>2, BusyFacts
<1>4. StepAt(m, Floor, view, got, step)
  BY <1>3 DEF FollowsAt
<1>5. \A b, r : Logs(b, r) # step
  <2> TAKE b, r
  <2>1. Logs(b, r).type = "block"
    BY DEF Logs
  <2> QED
    BY <2>1
<1>6. /\ m = 0 /\ Len(got) < Len(view)
      /\ \E size \in 1..BlockPageSize :
              step = Warping(view[Len(got) + 1].number, Floor, size)
  BY <1>2, <1>4, <1>5 DEF StepAt
<1>7. FollowsAt(0, Floor, blocks, queue, view, got, step)
  BY <1>3, <1>6
<1>8. Floor \in Nat /\ Len(view) \in Nat /\ Len(blocks) \in Nat
  BY <1>1, LoadedFacts, ViewFacts
<1>9. \A i \in 1..Len(view) : /\ view[i].number = Floor + 0 - Len(view) + i
                              /\ view[i].number <= Floor => InChain(chain, view[i])
  <2>1. 0 \in Nat /\ 0 <= Len(blocks)
    BY <1>8
  <2> QED
    BY <1>1, <1>7, <2>1, FollowsNumbers
<1>10. \A i \in 1..Len(view) : /\ Floor + 0 - Len(view) + i = Floor - Len(view) + i
                               /\ Floor + 0 - Len(view) + i <= Floor
  BY <1>8
<1> QED
  BY <1>6, <1>7, <1>9, <1>10

LEMMA PageFacts ==
  ASSUME WatcherInv, pc = "running", step.type = "warping"
  PROVE  LET k == Len(got)
         IN  /\ step.from \in Nat \ {0} /\ step.from = Floor - Len(view) + k + 1
             /\ step.to = Floor /\ step.pageSize \in 1..BlockPageSize
             /\ step = Warping(step.from, Floor, step.pageSize)
             /\ PageEnd \in step.from..Floor
             /\ step.pageSize = 1 => PageEnd = step.from
             /\ Page \in Seq(Header) /\ Len(Page) = PageEnd - step.from + 1
             /\ Len(Page) >= 1 /\ k + Len(Page) <= Len(view)
             /\ Len(Page) <= BlockPageSize
             /\ k + Len(Page) = Len(view) <=> PageEnd = Floor
             /\ \A i \in 1..Len(Page) : /\ Page[i] = view[k + i]
                                        /\ Page[i].number <= PageEnd
<1> DEFINE k == Len(got)
           n == Len(view)
<1>1. NodeOK /\ ViewAt(view, got, lastIndexed) /\ LoadedAt(Floor, blocks, lastIndexed)
  BY RunningFacts
<1>2. /\ k < n
      /\ \A i \in 1..n : /\ view[i].number = Floor - n + i
                         /\ InChain(chain, view[i])
  BY WarpingFacts
<1>3. PICK size \in 1..BlockPageSize : step = Warping(view[k + 1].number, Floor, size)
  BY WarpingFacts
<1>4. /\ Floor \in Nat /\ n \in Nat /\ k \in Nat /\ BlockPageSize \in Nat
      /\ Floor <= Final /\ Final < Height /\ Height \in Nat /\ Final \in Nat
      /\ chain \in Seq(Header)
      /\ \A i \in 1..n : view[i].number >= 1 /\ view[i].number \in Nat
  BY <1>1, LoadedFacts, ViewFacts, Heights, WatcherAssumption DEF NodeOK
<1> DEFINE from == view[k + 1].number
<1>5. step.from = from /\ step.to = Floor /\ step.pageSize = size
  BY <1>3 DEF Warping
<1>6. k + 1 \in 1..n
  BY <1>2, <1>4
<1>7. from \in Nat /\ from >= 1 /\ from = Floor - n + k + 1 /\ from <= Floor
  <2>1. from = Floor - n + (k + 1) /\ from \in Nat /\ from >= 1
    BY <1>2, <1>4, <1>6
  <2> HIDE DEF from
  <2>2. Floor - n + (k + 1) = Floor - n + k + 1 /\ Floor - n + (k + 1) <= Floor
    BY <1>2, <1>4
  <2> QED
    BY <2>1, <2>2
<1> HIDE DEF from
<1>8. PageEnd = Least(Floor, from + size - 1)
  BY <1>5 DEF PageEnd
<1> DEFINE e == PageEnd
<1>9. size \in Nat /\ size >= 1
  BY <1>4
<1>10. e \in Nat /\ e >= from /\ e <= Floor /\ (size = 1 => e = from) /\ e - from + 1 <= size
  BY <1>4, <1>7, <1>8, <1>9 DEF Least
<1>11. Page = SubSeq(chain, from, e)
  BY <1>5 DEF Page
<1> HIDE DEF e
<1>12. /\ Page \in Seq(Header) /\ Len(Page) = e - from + 1
       /\ \A i \in 1..e - from + 1 : Page[i] = chain[from + i - 1]
  <2>1. \A i \in from..e : chain[i] \in Header
    <3>1. \A i \in from..e : i \in 1..Len(chain)
      BY <1>4, <1>7, <1>10 DEF Height
    <3> QED
      BY <1>4, <3>1
  <2>2. /\ SubSeq(chain, from, e) \in Seq(Header)
        /\ Len(SubSeq(chain, from, e)) = IF from <= e THEN e - from + 1 ELSE 0
        /\ \A i \in 1..e - from + 1 : SubSeq(chain, from, e)[i] = chain[from + i - 1]
    BY <1>7, <1>10, <2>1, SubSeqProperties
  <2> QED
    BY <1>7, <1>10, <1>11, <2>2
<1>13. /\ e - from + 1 >= 1 /\ e - from + 1 \in Nat /\ k + (e - from + 1) <= n
       /\ k + (e - from + 1) = n <=> e = Floor
  <2>1. e \in Nat /\ e >= from /\ e <= Floor
    BY <1>10
  <2> QED
    BY <1>4, <1>7, <2>1
<1>14. ASSUME NEW i \in 1..e - from + 1
       PROVE  Page[i] = view[k + i] /\ Page[i].number <= e
  <2>1. k + i \in 1..n /\ Floor - n + (k + i) = from + i - 1 /\ from + i - 1 <= e
    BY <1>4, <1>7, <1>10, <1>13
  <2>2. view[k + i].number = from + i - 1 /\ InChain(chain, view[k + i])
    BY <1>2, <2>1
  <2>3. chain[from + i - 1] = view[k + i]
    BY <2>2 DEF InChain
  <2> QED
    BY <1>12, <2>1, <2>2, <2>3
<1>15. /\ step.from \in Nat \ {0} /\ step.from = Floor - n + k + 1 /\ step.to = Floor
       /\ step.pageSize \in 1..BlockPageSize /\ step = Warping(step.from, Floor, step.pageSize)
  BY <1>3, <1>5, <1>7 DEF from
<1>16. e \in step.from..Floor /\ (step.pageSize = 1 => e = step.from)
  BY <1>4, <1>5, <1>7, <1>10
<1>17. Len(Page) = e - step.from + 1
  BY <1>5, <1>12
<1>18. e - from + 1 <= BlockPageSize
  BY <1>4, <1>7, <1>9, <1>10
<1> QED
  BY <1>12, <1>13, <1>14, <1>15, <1>16, <1>17, <1>18 DEF e

LEMMA MostFacts ==
  ASSUME NEW l \in Nat, NEW x \in Nat
  PROVE  Most(l, x) \in Nat /\ Most(l, x) >= l /\ Most(l, x) >= x
         /\ (Most(l, x) = l \/ Most(l, x) = x)
BY DEF Most

\* What is handed over indexes nothing beyond block top2.
LEMMA IndexedTo ==
  ASSUME NEW l \in Nat, NEW bs \in Seq(Header), NEW l2, NEW top2 \in Nat,
         \A i \in 1..Len(bs) : bs[i].number <= top2,
         l2 = l \/ \E i \in 1..Len(bs) : l2 = Most(l, bs[i].number)
  PROVE  l2 \in Nat /\ l2 >= l /\ (l2 = l \/ l2 <= top2)
<1>1. CASE l2 = l
  BY <1>1
<1>2. ASSUME NEW i \in 1..Len(bs), l2 = Most(l, bs[i].number)
      PROVE  l2 \in Nat /\ l2 >= l /\ (l2 = l \/ l2 <= top2)
  <2> DEFINE x == bs[i].number
  <2>1. x \in Nat /\ x <= top2
    <3>1. bs[i] \in Header
      BY <1>2
    <3> QED
      BY <3>1, HeaderFacts
  <2> HIDE DEF x
  <2>2. l2 = Most(l, x)
    BY <1>2 DEF x
  <2> QED
    BY <2>1, <2>2, MostFacts
<1> QED
  BY <1>1, <1>2

LEMMA WarpPageStep ==
  ASSUME WatcherInv, WarpPage
  PROVE  WatcherInv' /\ FeedStep
<1> DEFINE k == Len(got)
           n == Len(view)
           l == lastIndexed
           D == MaxReorgDepth
           e == PageEnd
<1>1. /\ pc = "running" /\ step.type = "warping" /\ step' = AfterPage
      /\ UNCHANGED node /\ pc' = pc /\ blocks' = blocks /\ pending' = pending /\ queue' = queue
      /\ UNCHANGED stops
  BY DEF WarpPage, blockWatcher
<1>2. PICK answer \in Answers(Page) :
        /\ IF step.pageSize > 1 THEN OneQueryAllEvents(Page, answer)
                                ELSE OneQueryPerEvent(Page[1], answer)
        /\ HandOver(Page, answer)
  BY DEF WarpPage
<1>3. NodeOK /\ ViewAt(view, got, l) /\ LoadedAt(Floor, blocks, l) /\ Counted
  BY <1>1, RunningFacts
<1>4. /\ FollowsAt(0, Floor, blocks, queue, view, got, step) /\ k < n
      /\ \A i \in 1..n : /\ view[i].number = Floor - n + i
                         /\ InChain(chain, view[i])
  BY <1>1, WarpingFacts
<1>5. /\ step.from \in Nat \ {0} /\ step.from = Floor - n + k + 1
      /\ step.to = Floor /\ step.pageSize \in 1..BlockPageSize
      /\ e \in step.from..Floor
      /\ step.pageSize = 1 => e = step.from
      /\ Page \in Seq(Header) /\ Len(Page) = e - step.from + 1
      /\ Len(Page) >= 1 /\ k + Len(Page) <= n
      /\ k + Len(Page) = n <=> e = Floor
      /\ \A i \in 1..Len(Page) : /\ Page[i] = view[k + i]
                                 /\ Page[i].number <= e
  BY <1>1, PageFacts
<1>6. /\ Floor \in Nat /\ n \in Nat /\ k \in Nat /\ BlockPageSize \in Nat \ {0}
      /\ Floor <= Final /\ Final \in Nat /\ Final <= top /\ top \in Nat
      /\ D \in Nat \ {0} /\ l \in Nat /\ l <= top /\ Floor >= l - D
  BY <1>3, LoadedFacts, ViewFacts, Heights, WatcherAssumption
<1> HIDE DEF e
<1>7. e \in Nat /\ e <= Floor /\ e <= top
  BY <1>5, <1>6
<1>8. OneQueryAllEvents(Page, answer) \/ (Len(Page) = 1 /\ OneQueryPerEvent(Page[1], answer))
  <2>1. CASE step.pageSize > 1
    BY <1>2, <2>1
  <2>2. CASE ~(step.pageSize > 1)
    <3>1. step.pageSize = 1
      BY <1>5, <1>6, <2>2
    <3>2. Len(Page) = 1
      BY <1>5, <3>1
    <3> QED
      BY <1>2, <2>2, <3>2
  <2> QED
    BY <2>1, <2>2
<1>9. /\ answer \in Seq(Seq(Log)) /\ Len(answer) = Len(Page)
      /\ \A i \in 1..Len(Page) : Fair(Page[i].logs, answer[i])
      /\ UNCHANGED failures \/ Failing
  BY <1>5, <1>8, QueryFacts
<1>10. Counted'
  BY <1>1, <1>3, <1>9, CountedStep
<1>11. /\ FeedStep /\ view' = view
       /\ got' \in Seq(Seq(Log)) /\ Len(got') = k + Len(Page)
  BY <1>2, <1>3, <1>5, <1>9, HandOverStep
<1> DEFINE l2 == lastIndexed'
<1>12. l2 \in Nat /\ l2 >= l /\ (l2 = l \/ l2 <= e)
  <2>1. \/ lastIndexed' = l
        \/ \E i \in 1..Len(Page) : lastIndexed' = Most(l, Page[i].number)
    BY <1>2, <1>5, <1>9, HandOverFacts
  <2> QED
    BY <1>5, <1>6, <1>7, <2>1, IndexedTo
<1> HIDE DEF l2
<1>13. l2 <= top /\ Floor >= l2 - D
  BY <1>6, <1>7, <1>12
<1>14. n \in 1..n /\ view # <<>>
  BY <1>4, <1>6
<1>15. view[n].number >= l2 - D
  <2>1. view[n].number = Floor - n + n
    BY <1>4, <1>14
  <2> QED
    BY <1>6, <1>13, <2>1
<1>16. \A i \in 1..n : i > k + Len(Page) => view[i].number > e /\ view[i].number > l - D
  <2> TAKE i \in 1..n
  <2> HAVE i > k + Len(Page)
  <2>1. i > k + (e - step.from + 1)
    BY <1>5
  <2>2. Floor - n + i > e /\ i > k + 1
    BY <1>5, <1>6, <1>7, <2>1
  <2>3. view[k + 1].number > l - D
    BY <1>3, <1>4 DEF ViewAt
  <2>4. k + 1 \in 1..n /\ view[k + 1].number = Floor - n + (k + 1)
    BY <1>4, <1>6
  <2>5. Floor - n + i > l - D
    BY <1>6, <2>2, <2>3, <2>4
  <2>6. view[i].number = Floor - n + i
    BY <1>4
  <2> QED
    BY <2>2, <2>5, <2>6
<1> DEFINE k2 == Len(got')
<1>17. k2 \in Nat /\ k2 <= n /\ k2 = k + Len(Page)
  BY <1>5, <1>6, <1>11
<1>18. k2 < n => view[k2 + 1].number > l2 - D
  <2> SUFFICES ASSUME k2 < n PROVE view[k2 + 1].number > l2 - D
    OBVIOUS
  <2> DEFINE x == view[k2 + 1].number
  <2>1. k2 + 1 \in 1..n /\ k2 + 1 > k + Len(Page)
    BY <1>6, <1>17
  <2>2. x > e /\ x > l - D /\ x \in Nat
    BY <1>3, <1>16, <2>1, ViewFacts
  <2> HIDE DEF x, k2
  <2>3. x > l2 - D
    BY <1>6, <1>7, <1>12, <2>2
  <2> QED
    BY <2>3 DEF x
<1>19. \A i \in 1..n : view[i].number <= Floor => InChain(chain, view[i])
  BY <1>4
<1>20. ViewAt(view, got', lastIndexed')
  BY <1>3, <1>6, <1>11, <1>12, <1>13, <1>14, <1>15, <1>17, <1>18, <1>19, IndexView DEF l2
<1>21. LoadedAt(Floor, blocks, lastIndexed')
  BY <1>3, <1>13 DEF LoadedAt, l2
<1>22. StepAt(0, Floor, view, got', step')
  <2>1. CASE e = step.to
    <3>1. step' = Idle /\ Len(got') = n
      BY <1>1, <1>5, <1>17, <2>1 DEF AfterPage, e
    <3> QED
      BY <3>1 DEF StepAt
  <2>2. CASE e # step.to
    <3>1. step' = Warping(e + 1, Floor, BlockPageSize)
      BY <1>1, <1>5, <2>2 DEF AfterPage, e
    <3>2. k2 < n
      BY <1>5, <1>6, <1>17, <2>2
    <3>3. view[k2 + 1].number = e + 1
      <4>1. k2 + 1 \in 1..n /\ k2 = k + (e - step.from + 1)
        <5> HIDE DEF k2, n, k
        <5>1. n \in Nat /\ k \in Nat /\ k2 \in Nat /\ k2 = k + Len(Page) /\ k2 < n
          BY <1>6, <1>17, <3>2
        <5>2. Len(Page) = e - step.from + 1
          BY <1>5
        <5> QED
          BY <5>1, <5>2
      <4>2. view[k2 + 1].number = Floor - n + (k2 + 1)
        BY <1>4, <4>1
      <4>3. Floor - n + (k2 + 1) = e + 1
        BY <1>5, <1>6, <1>7, <4>1
      <4> QED
        BY <4>2, <4>3
    <3>4. BlockPageSize \in 1..BlockPageSize
      BY <1>6
    <3> QED
      BY <3>1, <3>2, <3>3, <3>4 DEF StepAt
  <2> QED
    BY <2>1, <2>2
<1>23. FollowsAt(0, Floor, blocks, queue', view', got', step')
  BY <1>1, <1>4, <1>11, <1>22 DEF FollowsAt
<1>24. 0 \in 0..Len(blocks)
  BY <1>3, LoadedFacts
<1>25. ViewAt(view', got', lastIndexed')
  BY <1>11, <1>20
<1> QED
  BY <1>1, <1>10, <1>11, <1>21, <1>23, <1>24, <1>25, RunsOn

LEMMA WarpFailsStep ==
  ASSUME WatcherInv, WarpFails
  PROVE  WatcherInv' /\ FeedStep
<1>1. /\ pc = "running" /\ step.type = "warping"
      /\ step' = [step EXCEPT !.pageSize = (@ + 1) \div 2]
      /\ UNCHANGED node /\ pc' = pc /\ blocks' = blocks /\ pending' = pending /\ queue' = queue
      /\ view' = view /\ got' = got /\ lastIndexed' = lastIndexed
      /\ UNCHANGED failures \/ Failing
      /\ UNCHANGED stops
  BY DEF WarpFails, blockWatcher, consumer
<1>2. Counted' /\ NodeOK /\ ViewAt(view, got, lastIndexed) /\ LoadedAt(Floor, blocks, lastIndexed)
  BY <1>1, RunningFacts, CountedStep
<1>3. FollowsAt(0, Floor, blocks, queue, view, got, step) /\ Len(got) < Len(view)
  BY <1>1, WarpingFacts
<1>4. PICK size \in 1..BlockPageSize :
        step = Warping(view[Len(got) + 1].number, Floor, size)
  BY <1>1, WarpingFacts
<1>5. (size + 1) \div 2 \in 1..BlockPageSize
  <2>1. BlockPageSize \in Nat
    BY WatcherAssumption
  <2> QED
    BY <2>1
<1>6. step' = Warping(view[Len(got) + 1].number, Floor, (size + 1) \div 2)
  BY <1>1, <1>4 DEF Warping
<1>7. StepAt(0, Floor, view, got, step')
  BY <1>3, <1>5, <1>6 DEF StepAt
<1>8. FollowsAt(0, Floor, blocks, queue', view', got', step')
  BY <1>1, <1>3, <1>7 DEF FollowsAt
<1>9. ViewAt(view', got', lastIndexed') /\ LoadedAt(Floor, blocks, lastIndexed')
  BY <1>1, <1>2
<1>10. 0 \in 0..Len(blocks)
  BY <1>2, LoadedFacts
<1>11. FeedStep
  BY <1>1 DEF FeedStep
<1> QED
  BY <1>1, <1>2, <1>8, <1>9, <1>10, <1>11, RunsOn

\* The logs of one block, the last one of the view, are being asked for.
LEMMA AskingFacts ==
  ASSUME WatcherInv, pc = "running", step.type = "block"
  PROVE  \E m \in 0..Len(blocks), retries \in 0..BlockSingleQueryRetryCount :
           /\ FollowsAt(m, Floor, blocks, queue, view, got, step)
           /\ view # <<>> /\ Len(got) = Len(view) - 1
           /\ step = Logs(view[Len(view)], retries)
           /\ step.block = view[Len(view)] /\ step.retries = retries
<1>1. step # Idle
  <2>1. Idle.type = "idle"
    BY DEF Idle
  <2> QED
    BY <2>1
<1>2. PICK m \in 0..Len(blocks) : FollowsAt(m, Floor, blocks, queue, view, got, step)
  BY <1>1, BusyFacts
<1>3. StepAt(m, Floor, view, got, step)
  BY <1>2 DEF FollowsAt
<1>4. \A a, b, r : Warping(a, b, r) # step
  <2> TAKE a, b, r
  <2>1. Warping(a, b, r).type = "warping"
    BY DEF Warping
  <2> QED
    BY <2>1
<1>5. /\ view # <<>> /\ Len(got) = Len(view) - 1
      /\ \E retries \in 0..BlockSingleQueryRetryCount : step = Logs(view[Len(view)], retries)
  BY <1>1, <1>3, <1>4 DEF StepAt
<1>6. PICK retries \in 0..BlockSingleQueryRetryCount : step = Logs(view[Len(view)], retries)
  BY <1>5
<1>7. step.block = view[Len(view)] /\ step.retries = retries
  BY <1>6 DEF Logs
<1> QED
  BY <1>2, <1>5, <1>6, <1>7

LEMMA BlockLogsStep ==
  ASSUME WatcherInv, BlockLogs
  PROVE  WatcherInv' /\ FeedStep
<1> DEFINE k == Len(got)
           n == Len(view)
           l == lastIndexed
           D == MaxReorgDepth
           b == step.block
           bs == <<b>>
           l2 == lastIndexed'
<1>1. /\ pc = "running" /\ step.type = "block" /\ step' = Idle
      /\ UNCHANGED node /\ pc' = pc /\ blocks' = blocks /\ pending' = pending /\ queue' = queue
      /\ UNCHANGED stops
  BY DEF BlockLogs, blockWatcher
<1>2. PICK answer \in Answers(bs) :
        /\ OneQueryAllEvents(bs, answer) \/ OneQueryPerEvent(b, answer)
        /\ HandOver(bs, answer)
  BY DEF BlockLogs
<1>3. NodeOK /\ ViewAt(view, got, l) /\ LoadedAt(Floor, blocks, l) /\ Counted
  BY <1>1, RunningFacts
<1>4. PICK m \in 0..Len(blocks), retries \in 0..BlockSingleQueryRetryCount :
        /\ FollowsAt(m, Floor, blocks, queue, view, got, step)
        /\ view # <<>> /\ k = n - 1 /\ b = view[n]
  BY <1>1, AskingFacts
<1>5. /\ Floor \in Nat /\ n \in Nat /\ k \in Nat /\ Len(blocks) \in Nat /\ Len(blocks) <= D
      /\ top \in Nat /\ D \in Nat \ {0} /\ l \in Nat /\ l <= top /\ Floor >= l - D
      /\ view \in Seq(Header) /\ m \in Nat /\ m <= Len(blocks)
  BY <1>3, LoadedFacts, ViewFacts, Heights
<1>6. n \in 1..n /\ b \in Header /\ b.number \in Nat /\ b.number <= top
  <2>1. n \in 1..n
    BY <1>4, <1>5
  <2> QED
    BY <1>3, <1>4, <2>1, ViewFacts
<1>7. /\ b.number <= Floor + D
      /\ \A i \in 1..n : view[i].number <= Floor => InChain(chain, view[i])
  <2>1. \A i \in 1..n : /\ view[i].number = Floor + m - n + i
                        /\ view[i].number <= Floor => InChain(chain, view[i])
    BY <1>3, <1>4, <1>5, FollowsNumbers
  <2>2. b.number = Floor + m - n + n
    BY <1>4, <1>6, <2>1
  <2> QED
    BY <1>5, <2>1, <2>2
<1> HIDE DEF b
<1>8. bs \in Seq(Header) /\ Len(bs) = 1 /\ bs[1] = b
  BY <1>6
<1> HIDE DEF bs
<1>9. /\ answer \in Seq(Seq(Log)) /\ Len(answer) = Len(bs)
      /\ \A i \in 1..Len(bs) : Fair(bs[i].logs, answer[i])
      /\ UNCHANGED failures \/ Failing
  <2>1. OneQueryAllEvents(bs, answer) \/ (Len(bs) = 1 /\ OneQueryPerEvent(bs[1], answer))
    BY <1>2, <1>8
  <2>2. bs \in Seq(Header) /\ Len(bs) >= 1
    BY <1>8
  <2> QED
    BY <2>1, <2>2, QueryFacts
<1>10. Counted'
  BY <1>1, <1>3, <1>9, CountedStep
<1>11. \A i \in 1..Len(bs) : bs[i] = view[k + i]
  <2>1. \A i \in 1..Len(bs) : i = 1 /\ k + i = n
    BY <1>4, <1>5, <1>8
  <2> QED
    BY <1>4, <1>8, <2>1 DEF b
<1>12. /\ FeedStep /\ view' = view
       /\ got' \in Seq(Seq(Log)) /\ Len(got') = k + Len(bs)
  <2>1. Len(bs) >= 1 /\ k + Len(bs) <= n
    BY <1>4, <1>5, <1>8
  <2> QED
    BY <1>2, <1>3, <1>8, <1>9, <1>11, <2>1, HandOverStep
<1>13. Len(got') = n
  BY <1>4, <1>5, <1>8, <1>12
<1>14. l2 \in Nat /\ l2 >= l /\ (l2 = l \/ l2 <= b.number)
  <2>1. \/ l2 = l
        \/ \E i \in 1..Len(bs) : l2 = Most(l, bs[i].number)
    BY <1>2, <1>8, <1>9, HandOverFacts
  <2>2. \A i \in 1..Len(bs) : bs[i].number <= b.number
    BY <1>6, <1>8
  <2> QED
    BY <1>5, <1>6, <1>8, <2>1, <2>2, IndexedTo
<1> HIDE DEF l2
<1>15. l2 <= top /\ Floor >= l2 - D
  BY <1>5, <1>6, <1>7, <1>14
<1>16. view[n].number >= l2 - D
  <2>1. b.number >= l - D
    BY <1>3, <1>4 DEF ViewAt
  <2>2. b.number >= l2 - D
    BY <1>5, <1>6, <1>14, <2>1
  <2> QED
    BY <1>4, <2>2
<1>17. ViewAt(view, got', l2)
  <2>1. Len(got') <= n /\ ~(Len(got') < n)
    BY <1>5, <1>13
  <2> QED
    BY <1>3, <1>4, <1>5, <1>7, <1>12, <1>14, <1>15, <1>16, <2>1, IndexView
<1>18. LoadedAt(Floor, blocks, l2)
  BY <1>3, <1>15 DEF LoadedAt
<1>19. FollowsAt(m, Floor, blocks, queue', view', got', step')
  BY <1>1, <1>4, <1>12, <1>13 DEF FollowsAt, StepAt
<1>20. ViewAt(view', got', lastIndexed') /\ LoadedAt(Floor, blocks, lastIndexed')
  BY <1>12, <1>17, <1>18 DEF l2
<1> QED
  BY <1>1, <1>10, <1>12, <1>19, <1>20, RunsOn

LEMMA BlockLogsFailStep ==
  ASSUME WatcherInv, BlockLogsFail
  PROVE  WatcherInv' /\ FeedStep
<1>1. /\ pc = "running" /\ step.type = "block"
      /\ step' = [step EXCEPT !.retries = Least(@ + 1, BlockSingleQueryRetryCount)]
      /\ UNCHANGED node /\ pc' = pc /\ blocks' = blocks /\ pending' = pending /\ queue' = queue
      /\ view' = view /\ got' = got /\ lastIndexed' = lastIndexed
      /\ UNCHANGED failures \/ Failing
      /\ UNCHANGED stops
  BY DEF BlockLogsFail, blockWatcher, consumer
<1>2. Counted' /\ NodeOK /\ ViewAt(view, got, lastIndexed) /\ LoadedAt(Floor, blocks, lastIndexed)
  BY <1>1, RunningFacts, CountedStep
<1>3. PICK m \in 0..Len(blocks), retries \in 0..BlockSingleQueryRetryCount :
        /\ FollowsAt(m, Floor, blocks, queue, view, got, step)
        /\ view # <<>> /\ Len(got) = Len(view) - 1
        /\ step = Logs(view[Len(view)], retries)
  BY <1>1, AskingFacts
<1> DEFINE r == Least(retries + 1, BlockSingleQueryRetryCount)
<1>4. r \in 0..BlockSingleQueryRetryCount
  <2>1. BlockSingleQueryRetryCount \in Nat
    BY WatcherAssumption
  <2> QED
    BY <2>1 DEF Least
<1>5. step' = Logs(view[Len(view)], r)
  BY <1>1, <1>3 DEF Logs
<1> HIDE DEF r
<1>6. StepAt(m, Floor, view, got, step')
  BY <1>3, <1>4, <1>5 DEF StepAt
<1>7. FollowsAt(m, Floor, blocks, queue', view', got', step')
  BY <1>1, <1>3, <1>6 DEF FollowsAt
<1>8. ViewAt(view', got', lastIndexed') /\ LoadedAt(Floor, blocks, lastIndexed')
  BY <1>1, <1>2
<1>9. FeedStep
  BY <1>1 DEF FeedStep
<1> QED
  BY <1>1, <1>2, <1>7, <1>8, <1>9, RunsOn

(***************************************************************************)
(* The watcher.                                                            *)
(***************************************************************************)
LEMMA QueuedStep ==
  ASSUME WatcherInv, NextQueued
  PROVE  WatcherInv' /\ FeedStep
<1>1. pc = "running"
  BY DEF NextQueued
<1>2. Restarting \/ Rewound \/ Following
  BY <1>1, RunningFacts
<1> QED
  BY <1>1, <1>2, CatchupStep, WarpQueued, BlockQueued

LEMMA WatchingStep ==
  ASSUME WatcherInv, Watching
  PROVE  WatcherInv' /\ FeedStep
BY QueuedStep, PendingStep, WarpPageStep, WarpFailsStep, BlockLogsStep, BlockLogsFailStep
   DEF Watching

LEMMA LoadingStep ==
  ASSUME WatcherInv, Loading
  PROVE  WatcherInv' /\ FeedStep
<1>1. WatcherInv'
  BY StartStep, FetchStep, HaltStep DEF Loading
<1>2. view' = view /\ got' = got
  BY DEF Loading, Start, Fetch, FetchFails, Halt, consumer
<1> QED
  BY <1>1, <1>2 DEF FeedStep

LEMMA EnvironmentStep ==
  ASSUME WatcherInv, Environment
  PROVE  WatcherInv' /\ FeedStep
<1>1. WatcherInv'
  BY NodeStep, HaltStep DEF Environment
<1>2. view' = view /\ got' = got
  BY DEF Environment, Mine, Reorg, Stop, Halt, consumer
<1> QED
  BY <1>1, <1>2 DEF FeedStep

\* Only out differs.
LEMMA WatcherSame ==
  ASSUME WatcherInv,
         UNCHANGED <<node, pc, blockWatcher, step, consumer, failures, stops>>
  PROVE  WatcherInv' /\ FeedStep
<1>1. /\ chain' = chain /\ top' = top /\ reorgs' = reorgs /\ pc' = pc /\ latest' = latest
      /\ safe' = safe /\ last' = last /\ blocks' = blocks /\ pending' = pending
      /\ queue' = queue /\ step' = step /\ lastIndexed' = lastIndexed /\ view' = view
      /\ got' = got /\ failures' = failures /\ stops' = stops
  BY DEF node, blockWatcher, consumer
<1>2. NodeOK' /\ ViewAt(view, got, lastIndexed)' /\ Counted'
  BY <1>1, NodeSame, ViewSame, CountedStep DEF WatcherInv
<1>3. Final' = Final /\ Floor' = Floor /\ FirstUncled' = FirstUncled
  BY <1>1 DEF Final, Floor, FirstUncled
<1>7. FeedStep
  BY <1>1 DEF FeedStep
<1>4. CASE pc = "down"
  BY <1>1, <1>2, <1>4, <1>7 DEF WatcherInv, Idle
<1>5. CASE pc = "fetching"
  <2>1. Fetching
    BY <1>5 DEF WatcherInv
  <2>2. LoadedAt(safe, blocks, lastIndexed)'
    BY <1>1, <1>3, <2>1 DEF Fetching, LoadedAt, PieceNow
  <2>3. (queue = Catchup(safe))'
    BY <1>1, <2>1 DEF Fetching, Catchup
  <2>4. Fetching'
    BY <1>1, <2>1, <2>2, <2>3 DEF Fetching, Past
  <2> QED
    BY <1>1, <1>2, <1>5, <1>7, <2>4 DEF WatcherInv
<1>6. CASE pc = "running"
  <2>1. Running
    BY <1>6 DEF WatcherInv
  <2>2. LoadedAt(Floor, blocks, lastIndexed)'
    BY <1>1, <1>3, <2>1 DEF Running, LoadedAt, PieceNow
  <2>3. Restarting => Restarting'
    BY <1>1, <1>3 DEF Restarting, Catchup, News
  <2>4. Rewound => Rewound'
    BY <1>1, <1>3 DEF Rewound, News
  <2>5. Following => Following'
    <3> SUFFICES ASSUME NEW m \in 0..Len(blocks),
                        FollowsAt(m, Floor, blocks, queue, view, got, step)
                 PROVE  Following'
      BY DEF Following
    <3>1. FollowsAt(m, Floor, blocks, queue, view, got, step)'
      BY <1>1, <1>3 DEF FollowsAt, StepAt, News
    <3> QED
      BY <1>1, <3>1 DEF Following
  <2>6. Running'
    BY <1>1, <2>1, <2>2, <2>3, <2>4, <2>5 DEF Running
  <2> QED
    BY <1>1, <1>2, <1>6, <1>7, <2>6 DEF WatcherInv
<1> QED
  BY <1>4, <1>5, <1>6 DEF WatcherInv

LEMMA InitStep ==
  ASSUME Init
  PROVE  WatcherInv /\ Feed!Init
<1>1. PICK logs \in [1..StartHeight -> LogSets] :
        chain = [n \in 1..StartHeight |-> Block(n, 0, 0, logs[n])]
  BY DEF Init
<1>2. /\ top = StartHeight /\ reorgs = 0 /\ pc = "down" /\ blocks = <<>> /\ step = Idle
      /\ lastIndexed = 0 /\ view = <<>> /\ got = <<>> /\ failures = 0 /\ stops = 0
  BY DEF Init
<1>3. /\ StartHeight \in Nat \ {0} /\ MaxHeight \in Nat /\ StartHeight <= MaxHeight
      /\ MaxReorgDepth \in Nat \ {0}
  BY WatcherAssumption
<1>4. \A n \in 1..StartHeight :
        /\ Block(n, 0, 0, logs[n]) \in Header
        /\ Block(n, 0, 0, logs[n]).number = n
        /\ Block(n, 0, 0, logs[n]).fork = 0
        /\ Block(n, 0, 0, logs[n]).parent = 0
  <2> TAKE n \in 1..StartHeight
  <2>1. n \in Nat /\ 0 \in Nat /\ logs[n] \in LogSets
    BY <1>3
  <2> QED
    BY <2>1, BlockFacts
<1>5. /\ chain \in Seq(Header) /\ Len(chain) = StartHeight
      /\ \A n \in 1..StartHeight : chain[n].number = n /\ chain[n].fork = 0 /\ chain[n].parent = 0
  BY <1>1, <1>3, <1>4
<1>6. Height = StartHeight
  BY <1>5 DEF Height
<1>7. \A n \in 2..StartHeight : chain[n].parent = chain[n - 1].fork
  <2> TAKE n \in 2..StartHeight
  <2>1. n \in 1..StartHeight /\ n - 1 \in 1..StartHeight
    BY <1>3
  <2> QED
    BY <1>5, <2>1
<1>8. NodeOK
  BY <1>2, <1>3, <1>5, <1>6, <1>7 DEF NodeOK
<1>9. PieceNow(<<>>)
  BY DEF PieceNow, Piece
<1>10. ViewAt(view, got, lastIndexed)
  BY <1>2, <1>3, <1>9 DEF ViewAt
<1>11. Counted
  BY <1>2 DEF Counted
<1>12. WatcherInv
  BY <1>2, <1>8, <1>10, <1>11 DEF WatcherInv
<1> QED
  BY <1>2, <1>12 DEF Feed!Init

LEMMA WatcherStep ==
  ASSUME WatcherInv, [Next]_vars
  PROVE  WatcherInv' /\ FeedStep
<1>1. CASE Next
  BY <1>1, WatchingStep, LoadingStep, EnvironmentStep DEF Next
<1>2. CASE UNCHANGED vars
  BY <1>2, WatcherSame DEF vars
<1> QED
  BY <1>1, <1>2

LEMMA WatcherTypes ==
  ASSUME WatcherInv
  PROVE  TypeOK
<1>1. NodeOK /\ ViewAt(view, got, lastIndexed)
  BY DEF WatcherInv
<1>2. Height \in 1..MaxHeight /\ top \in Height..MaxHeight
  BY <1>1 DEF NodeOK
<1>3. \A n \in 1..Height : chain[n].number = n /\ chain[n].fork \in 0..reorgs
  <2> TAKE n \in 1..Height
  <2>1. chain[n].number = n /\ chain[n].fork <= reorgs /\ reorgs \in Nat
    BY <1>1 DEF NodeOK
  <2>2. chain[n].fork \in Nat
    BY <1>1, ChainFacts, HeaderFacts
  <2> QED
    BY <2>1, <2>2
<1>4. lastIndexed \in 0..top
  BY <1>1 DEF ViewAt
<1>5. Idle.type = "idle" /\ (\A b, r : Logs(b, r).type = "block")
      /\ (\A a, b, r : Warping(a, b, r).type = "warping")
  BY DEF Idle, Logs, Warping
<1>6. CASE pc = "down"
  <2>1. step = Idle /\ blocks = <<>>
    BY <1>6 DEF WatcherInv
  <2>2. Len(blocks) <= MaxReorgDepth
    BY <2>1, WatcherAssumption
  <2> QED
    BY <1>2, <1>3, <1>4, <1>5, <1>6, <2>1, <2>2 DEF TypeOK
<1>7. CASE pc = "fetching"
  <2>1. step = Idle /\ Len(blocks) <= MaxReorgDepth
    BY <1>7 DEF WatcherInv, Fetching, LoadedAt
  <2> QED
    BY <1>2, <1>3, <1>4, <1>5, <1>7, <2>1 DEF TypeOK
<1>8. CASE pc = "running"
  <2>1. LoadedAt(Floor, blocks, lastIndexed) /\ (Restarting \/ Rewound \/ Following)
    BY <1>8, RunningFacts
  <2>2. Len(blocks) <= MaxReorgDepth
    BY <2>1 DEF LoadedAt
  <2>3. step.type \in {"idle", "warping", "block"}
    <3>1. \/ step = Idle \/ \E b, r : step = Logs(b, r) \/ \E a, e, z : step = Warping(a, e, z)
      BY <2>1 DEF Restarting, Rewound, Following, FollowsAt, StepAt
    <3> QED
      BY <1>5, <3>1
  <2>4. step.type = "warping" => step.pageSize \in 1..BlockPageSize /\ step.from <= step.to
    <3> SUFFICES ASSUME step.type = "warping"
                 PROVE  step.pageSize \in 1..BlockPageSize /\ step.from <= step.to
      OBVIOUS
    <3>1. /\ step.pageSize \in 1..BlockPageSize /\ step.from \in Nat
          /\ PageEnd \in step.from..Floor /\ step.to = Floor
      BY <1>8, PageFacts
    <3>2. Floor \in Nat
      BY <1>1, <2>1, LoadedFacts
    <3>3. step.from <= Floor
      BY <3>1, <3>2
    <3> QED
      BY <3>1, <3>3
  <2> QED
    BY <1>2, <1>3, <1>4, <1>8, <2>2, <2>3, <2>4 DEF TypeOK
<1> QED
  BY <1>6, <1>7, <1>8 DEF WatcherInv

(* Whatever the node's chain does and whenever queries fail or the service *)
(* is stopped, what the block watcher has loaded, queued and reported are  *)
(* pieces of one chain that fit together, the logs not handed over yet are *)
(* those its step asks for, and no block that is final and before the last *)
(* indexed one is off the chain.                                           *)
THEOREM WatcherInvariance == Spec => []WatcherInv
<1>1. Init => WatcherInv
  BY InitStep
<1>2. WatcherInv /\ [Next]_vars => WatcherInv'
  BY WatcherStep
<1> QED
  BY <1>1, <1>2, PTL DEF Spec

(* The watcher keeps its types: it never holds more than MaxReorgDepth     *)
(* blocks, a page to ask for is never empty nor beyond its warp, and what  *)
(* was indexed is never above what the chain has reached.                  *)
THEOREM WatcherTypeCorrectness == Spec => []TypeOK
<1>1. WatcherInv => TypeOK
  BY WatcherTypes
<1> QED
  BY <1>1, WatcherInvariance, PTL

(* The watcher implements ChainFeed: what blocks.ts and events.ts report   *)
(* is a piece of one chain without a gap, and the logs of each reported    *)
(* block are handed over once, in order and before the next block, none    *)
(* missing but of the fallible events, through reorganisations, failed     *)
(* queries and restarts.                                                   *)
THEOREM WatcherImplementsFeed == Spec => FeedSpec
<1>1. Init => Feed!Init
  BY InitStep
<1>2. WatcherInv /\ [Next]_vars => [Feed!Next]_<<view, got>>
  BY WatcherStep DEF FeedStep
<1> QED
  BY <1>1, <1>2, WatcherInvariance, PTL DEF Spec, FeedSpec, Feed!Spec

(***************************************************************************)
(* From the feed to the state.                                             *)
(***************************************************************************)
Transition == EventTransition \cup [id : {"block_new"}, block : Nat]

\* The place of a transition in its block; t comes after what is of block b
\* and place i.
Rank(t) == IF IsEvent(t) THEN t.index ELSE 0
Later(t, b, i) == t.block > b \/ (t.block = b /\ Rank(t) > i)
Ordered(s) == \A i, j \in 1..Len(s) : i < j => Later(s[j], s[i].block, Rank(s[i]))
EventOf(b, l) == [id |-> l.event, block |-> b.number, index |-> l.index]

\* The catchup after a restart is over.
CaughtUp == queue = <<>> \/ Head(queue).type = "new_block"

Blank ==
  /\ transitions = <<>> /\ diffs = <<>> /\ ~performing
  /\ lastProcessedBlock = 0 /\ lastProcessedIndex = 0

\* What is of block b and place i comes before all that will be handed over for
\* view v, of which the logs g were.
Ahead(v, g, b, i) ==
  /\ v # <<>> /\ b <= v[Len(v)].number
  /\ Len(g) < Len(v) =>
       \/ b < v[Len(g) + 1].number
       \/ b = v[Len(g) + 1].number /\ i = 0

\* The queue is in the order of the chain, and beyond what was processed.
QueueInv ==
  /\ transitions \in Seq(Transition) /\ performing \in BOOLEAN
  /\ lastProcessedBlock \in Nat /\ lastProcessedIndex \in Nat
  /\ lastProcessedBlock = 0 => lastProcessedIndex = 0
  /\ resumedAt \in Nat /\ resumedAt <= lastIndexed
  /\ Ordered(transitions)
  /\ \A i \in 1..Len(transitions) :
       transitions[i].block \in resumedAt..lastIndexed /\ transitions[i].block # 0
  /\ \/ Blank
     \/ /\ pc = "running" /\ CaughtUp
        /\ \A i \in 1..Len(transitions) : Ahead(view, got, transitions[i].block, Rank(transitions[i]))
        /\ lastProcessedBlock # 0 => Ahead(view, got, lastProcessedBlock, lastProcessedIndex)

PerformInv ==
  IF performing
  THEN LET h == Head(transitions)
       IN  /\ transitions # <<>>
           /\ lastProcessedBlock = h.block /\ lastProcessedIndex = Rank(h)
           /\ diffs \in Seq({BlockNew(h.block), h})
           /\ IsEvent(h) => h \in ToSet(diffs) \cup failed
           /\ \A d \in ToSet(diffs) : d \in ToSet(applied) => d.block = resumedAt
  ELSE /\ diffs = <<>>
       /\ \A i \in 1..Len(transitions) :
            Later(transitions[i], lastProcessedBlock, lastProcessedIndex)

AppliedInv ==
  /\ applied \in Seq(Transition)
  /\ \A i \in 1..Len(applied) - 1 : applied[i].block <= applied[i + 1].block
  /\ \A i \in 1..Len(applied) : applied[i].block <= lastIndexed
  /\ \A i \in 1..Len(applied), j \in 1..Len(transitions) :
       applied[i].block <= transitions[j].block
  /\ pc # "down" => \A i \in 1..Len(applied) :
       applied[i].block > resumedAt => ~Later(applied[i], lastProcessedBlock, lastProcessedIndex)

\* The logs of block b that are in every answer, and will be in every later one,
\* after f failed queries; x holds them, and no other one but of fallible events.
Sure(b, f) == {l \in ToSet(Answered(b, {})) : l.event \notin FallibleEvents \/ f = 0}
Told(b, x, f) == Sure(b, f) = {l \in ToSet(x) : l.event \notin FallibleEvents \/ f = 0}

\* What is no longer waited for or never will be read, and what is handed over.
Done == (ToSet(applied) \cap ToSet(asked)) \cup failed \cup cut \cup Unread
Known == Done \cup ToSet(transitions)

FirstInv ==
  /\ firstBlock \in Nat
  /\ view # <<>> => view[1].number <= firstBlock
  /\ view = <<>> /\ lastIndexed # 0 => FirstUncled <= firstBlock
  /\ pc = "fetching" /\ lastIndexed = 0 => firstBlock = safe + 1
  /\ pc = "running" /\ CaughtUp /\ view = <<>> => Floor + 1 <= firstBlock

\* Of the blocks that were indexed and those handed over since the start nothing is
\* lost that could be read.
KnownInv ==
  /\ asked \in Seq(Transition)
  /\ \A i \in 1..Len(got) : Told(view[i], got[i], failures)
  /\ \A n \in 1..lastIndexed - 1 : n >= firstBlock =>
       \A l \in Sure(chain[n], failures) : EventOf(chain[n], l) \in Known
  /\ pc = "running" /\ CaughtUp => \A i \in 1..Len(got) : view[i].number >= firstBlock =>
       \A l \in Sure(view[i], failures) : EventOf(view[i], l) \in Known

Unforked == reorgs = 0 /\ top = Height

FeedInv ==
  WatcherInv /\ Unforked /\ QueueInv /\ PerformInv /\ AppliedInv /\ FirstInv /\ KnownInv

LEMMA TransitionFacts ==
  ASSUME NEW t \in Transition
  PROVE  /\ t.block \in Nat /\ Rank(t) \in Nat
         /\ IsEvent(t) => t \in EventTransition /\ Rank(t) = t.index
         /\ ~IsEvent(t) => t = BlockNew(t.block) /\ Rank(t) = 0
<1>1. CASE t \in EventTransition
  <2>1. t.id \in Event /\ t.block \in Nat /\ t.index \in Nat
    BY <1>1 DEF EventTransition
  <2>2. "block_new" \notin Event
    BY FeedAssumption DEF Event
  <2>3. IsEvent(t)
    BY <2>1, <2>2 DEF IsEvent
  <2> QED
    BY <1>1, <2>1, <2>3 DEF Rank
<1>2. CASE t \in [id : {"block_new"}, block : Nat]
  <2>1. t.id = "block_new" /\ t.block \in Nat /\ t = [id |-> t.id, block |-> t.block]
    BY <1>2
  <2>2. ~IsEvent(t) /\ Rank(t) = 0
    BY <2>1 DEF IsEvent, Rank
  <2>3. t = BlockNew(t.block)
    BY <2>1 DEF BlockNew
  <2> QED
    BY <2>1, <2>2, <2>3
<1> QED
  BY <1>1, <1>2 DEF Transition

LEMMA BlockNewFacts ==
  ASSUME NEW n \in Nat
  PROVE  /\ BlockNew(n) \in Transition /\ BlockNew(n).block = n
         /\ ~IsEvent(BlockNew(n)) /\ Rank(BlockNew(n)) = 0
BY DEF BlockNew, Transition, IsEvent, Rank

LEMMA EventOfFacts ==
  ASSUME NEW b \in Header, NEW l \in Log
  PROVE  /\ EventOf(b, l) \in EventTransition /\ EventOf(b, l) \in Transition
         /\ IsEvent(EventOf(b, l)) /\ EventOf(b, l).block = b.number
         /\ EventOf(b, l).id = l.event /\ EventOf(b, l).index = l.index
<1>1. b.number \in Nat /\ l.event \in Event /\ l.index \in Nat
  BY HeaderFacts DEF Log
<1>2. EventOf(b, l) \in EventTransition
  BY <1>1 DEF EventOf, EventTransition
<1>3. "block_new" \notin Event
  BY FeedAssumption DEF Event
<1> QED
  BY <1>1, <1>2, <1>3 DEF EventOf, Transition, IsEvent

LEMMA LaterFacts ==
  ASSUME NEW t \in Transition, NEW u \in Transition, NEW b \in Nat, NEW i \in Nat
  PROVE  /\ ~Later(t, t.block, Rank(t))
         /\ Later(t, u.block, Rank(u)) => t.block >= u.block
         /\ Later(t, u.block, Rank(u)) /\ Later(u, b, i) => Later(t, b, i)
         /\ Later(u, b, i) /\ ~Later(t, b, i) => ~Later(t, u.block, Rank(u))
<1>1. t.block \in Nat /\ Rank(t) \in Nat /\ u.block \in Nat /\ Rank(u) \in Nat
  BY TransitionFacts
<1> QED
  BY <1>1 DEF Later

LEMMA OrderedConcat ==
  ASSUME NEW s \in Seq(Transition), NEW t \in Seq(Transition), Ordered(s), Ordered(t),
         \A i \in 1..Len(s), j \in 1..Len(t) : Later(t[j], s[i].block, Rank(s[i]))
  PROVE  Ordered(s \o t)
<1> DEFINE u == s \o t
<1>1. /\ \A p \in 1..Len(s) : u[p] = s[p]
      /\ \A j \in 1..Len(t) : u[Len(s) + j] = t[j]
      /\ \A p \in 1..Len(u) : p \in 1..Len(s) \/ \E j \in 1..Len(t) : p = Len(s) + j
      /\ Len(s) \in Nat /\ Len(t) \in Nat /\ Len(u) = Len(s) + Len(t)
  BY ConcatPlaces
<1> HIDE DEF u
<1> SUFFICES ASSUME NEW p \in 1..Len(u), NEW q \in 1..Len(u), p < q
             PROVE  Later(u[q], u[p].block, Rank(u[p]))
  BY DEF Ordered, u
<1>2. CASE q \in 1..Len(s)
  <2>1. p \in 1..Len(s) /\ u[p] = s[p] /\ u[q] = s[q]
    BY <1>1, <1>2
  <2> QED
    BY <1>2, <2>1 DEF Ordered
<1>3. CASE q \notin 1..Len(s)
  <2>1. PICK j \in 1..Len(t) : q = Len(s) + j
    BY <1>1, <1>3
  <2>2. u[q] = t[j]
    BY <1>1, <2>1
  <2>3. CASE p \in 1..Len(s)
    BY <1>1, <2>2, <2>3
  <2>4. CASE p \notin 1..Len(s)
    <3>1. PICK i \in 1..Len(t) : p = Len(s) + i
      BY <1>1, <2>4
    <3>2. u[p] = t[i] /\ i < j
      BY <1>1, <2>1, <3>1
    <3> QED
      BY <2>2, <3>2 DEF Ordered
  <2> QED
    BY <2>3, <2>4
<1> QED
  BY <1>2, <1>3

LEMMA TailFacts ==
  ASSUME NEW S, NEW s \in Seq(S), s # <<>>
  PROVE  /\ Len(s) \in Nat \ {0} /\ 1 \in 1..Len(s) /\ Head(s) = s[1] /\ Head(s) \in S
         /\ Tail(s) \in Seq(S) /\ Len(Tail(s)) = Len(s) - 1
         /\ \A i \in 1..Len(Tail(s)) : i + 1 \in 1..Len(s) /\ Tail(s)[i] = s[i + 1]
         /\ \A i \in 1..Len(s) : i = 1 \/ (i - 1 \in 1..Len(Tail(s)) /\ s[i] = Tail(s)[i - 1])
<1>1. Len(s) \in Nat \ {0} /\ Head(s) = s[1]
  OBVIOUS
<1>2. /\ Tail(s) \in Seq(S) /\ Len(Tail(s)) = Len(s) - 1
      /\ \A i \in 1..Len(s) - 1 : Tail(s)[i] = s[i + 1]
  OBVIOUS
<1>3. 1 \in 1..Len(s) /\ s[1] \in S
  BY <1>1
<1> QED
  BY <1>1, <1>2, <1>3

LEMMA ToSetPlaces ==
  ASSUME NEW S, NEW s \in Seq(S)
  PROVE  /\ \A i \in 1..Len(s) : s[i] \in ToSet(s) /\ s[i] \in S
         /\ \A x \in ToSet(s) : x \in S /\ \E i \in 1..Len(s) : s[i] = x
BY DEF ToSet

LEMMA ToSetConcat ==
  ASSUME NEW S, NEW s \in Seq(S), NEW t \in Seq(S)
  PROVE  ToSet(s \o t) = ToSet(s) \cup ToSet(t)
<1> DEFINE u == s \o t
<1>1. u \in Seq(S) /\ Len(s) \in Nat /\ Len(t) \in Nat /\ Len(u) = Len(s) + Len(t)
  BY ConcatPlaces
<1>2. /\ \A p \in 1..Len(s) : u[p] = s[p]
      /\ \A j \in 1..Len(t) : u[Len(s) + j] = t[j]
      /\ \A p \in 1..Len(u) : p \in 1..Len(s) \/ \E j \in 1..Len(t) : p = Len(s) + j
  BY ConcatPlaces
<1> HIDE DEF u
<1>3. ASSUME NEW x \in ToSet(s) PROVE x \in ToSet(u)
  <2>1. PICK p \in 1..Len(s) : s[p] = x
    BY <1>3, ToSetPlaces
  <2>2. p \in 1..Len(u) /\ u[p] = x
    BY <1>1, <1>2, <2>1
  <2> QED
    BY <1>1, <2>2, ToSetPlaces
<1>4. ASSUME NEW x \in ToSet(t) PROVE x \in ToSet(u)
  <2>1. PICK p \in 1..Len(t) : t[p] = x
    BY <1>4, ToSetPlaces
  <2>2. Len(s) + p \in 1..Len(u) /\ u[Len(s) + p] = x
    BY <1>1, <1>2, <2>1
  <2> QED
    BY <1>1, <2>2, ToSetPlaces
<1>5. ASSUME NEW x \in ToSet(u) PROVE x \in ToSet(s) \cup ToSet(t)
  <2>1. PICK p \in 1..Len(u) : u[p] = x
    BY <1>1, <1>5, ToSetPlaces
  <2>2. CASE p \in 1..Len(s)
    BY <1>2, <2>1, <2>2, ToSetPlaces
  <2>3. CASE \E j \in 1..Len(t) : p = Len(s) + j
    <3>1. PICK j \in 1..Len(t) : p = Len(s) + j
      BY <2>3
    <3>2. t[j] = x
      BY <1>2, <2>1, <3>1
    <3> QED
      BY <3>2, ToSetPlaces
  <2> QED
    BY <1>2, <2>2, <2>3
<1> QED
  BY <1>3, <1>4, <1>5 DEF u

\* What the watcher hands over in a step: in the order of the chain, later than all
\* that is queued or processed, and before all that it will hand over.
HandsOver ==
  /\ out' \in Seq(Transition) /\ Ordered(out')
  /\ lastIndexed' \in Nat /\ lastIndexed' >= lastIndexed
  /\ \A t \in ToSet(out') :
       /\ t.block \in lastIndexed..lastIndexed' /\ t.block # 0
       /\ Ahead(view', got', t.block, Rank(t))
       /\ \A b, i \in Nat : Ahead(view, got, b, i) => Later(t, b, i)
  /\ \A b, i \in Nat : Ahead(view, got, b, i) => Ahead(view', got', b, i)

LEMMA ReceivedQueue ==
  ASSUME QueueInv, PerformInv, AppliedInv, Receive, HandsOver,
         pc' = "running", CaughtUp', lastIndexed \in Nat
  PROVE  QueueInv' /\ PerformInv' /\ AppliedInv'
<1> DEFINE tr == transitions
           new == out'
           tr2 == transitions'
<1>1. /\ tr2 = tr \o new
      /\ diffs' = diffs /\ performing' = performing
      /\ lastProcessedBlock' = lastProcessedBlock /\ lastProcessedIndex' = lastProcessedIndex
      /\ applied' = applied /\ failed' = failed /\ resumedAt' = resumedAt
  BY DEF Receive, stored, boots
<1>2. tr \in Seq(Transition) /\ new \in Seq(Transition) /\ Ordered(tr) /\ Ordered(new)
  BY DEF QueueInv, HandsOver
<1>3. /\ lastProcessedBlock \in Nat /\ lastProcessedIndex \in Nat /\ resumedAt \in Nat
      /\ resumedAt <= lastIndexed /\ performing \in BOOLEAN
      /\ lastProcessedBlock = 0 => lastProcessedIndex = 0
  BY DEF QueueInv
<1>4. lastIndexed' \in Nat /\ lastIndexed' >= lastIndexed
  BY DEF HandsOver
<1> HIDE DEF tr, new, tr2
<1>5. /\ \A p \in 1..Len(tr) : tr2[p] = tr[p]
      /\ \A j \in 1..Len(new) : tr2[Len(tr) + j] = new[j]
      /\ \A p \in 1..Len(tr2) : p \in 1..Len(tr) \/ \E j \in 1..Len(new) : p = Len(tr) + j
      /\ Len(tr) \in Nat /\ Len(new) \in Nat /\ Len(tr2) = Len(tr) + Len(new)
      /\ tr2 \in Seq(Transition)
  BY <1>1, <1>2, ConcatPlaces
<1>6. \A j \in 1..Len(new) :
        /\ new[j] \in Transition
        /\ new[j].block \in lastIndexed..lastIndexed' /\ new[j].block # 0
        /\ Ahead(view', got', new[j].block, Rank(new[j]))
        /\ \A b, i \in Nat : Ahead(view, got, b, i) => Later(new[j], b, i)
  BY <1>2, ToSetPlaces DEF HandsOver, new
<1>7. \A i \in 1..Len(tr) : /\ tr[i] \in Transition
                            /\ tr[i].block \in Nat /\ Rank(tr[i]) \in Nat
  BY <1>2, TransitionFacts
<1>8. \A i \in 1..Len(tr) : Ahead(view, got, tr[i].block, Rank(tr[i]))
  BY DEF QueueInv, Blank, tr
<1>9. lastProcessedBlock # 0 => Ahead(view, got, lastProcessedBlock, lastProcessedIndex)
  BY DEF QueueInv, Blank
<1>10. Ordered(tr2)
  <2>1. \A i \in 1..Len(tr), j \in 1..Len(new) : Later(new[j], tr[i].block, Rank(tr[i]))
    BY <1>6, <1>7, <1>8
  <2> QED
    BY <1>1, <1>2, <2>1, OrderedConcat
<1>11. \A i \in 1..Len(tr2) :
         tr2[i].block \in resumedAt..lastIndexed' /\ tr2[i].block # 0
  <2> TAKE p \in 1..Len(tr2)
  <2>1. CASE p \in 1..Len(tr)
    <3>1. tr[p].block \in resumedAt..lastIndexed /\ tr[p].block # 0
      BY <2>1 DEF QueueInv, tr
    <3>2. tr2[p] = tr[p] /\ tr[p].block \in Nat
      BY <1>5, <1>7, <2>1
    <3> QED
      BY <3>1, <3>2, <1>4, <1>3
  <2>2. CASE \E j \in 1..Len(new) : p = Len(tr) + j
    <3>1. PICK j \in 1..Len(new) : p = Len(tr) + j
      BY <2>2
    <3>2. tr2[p] = new[j] /\ new[j].block \in lastIndexed..lastIndexed' /\ new[j].block # 0
      BY <1>5, <1>6, <3>1
    <3> QED
      BY <3>2, <1>4, <1>3
  <2> QED
    BY <1>5, <2>1, <2>2
<1>12. \A b, i \in Nat : Ahead(view, got, b, i) => Ahead(view', got', b, i)
  BY DEF HandsOver
<1>13. \A i \in 1..Len(tr2) : Ahead(view', got', tr2[i].block, Rank(tr2[i]))
  <2> TAKE p \in 1..Len(tr2)
  <2>1. CASE p \in 1..Len(tr)
    <3>1. tr2[p] = tr[p] /\ tr[p].block \in Nat /\ Rank(tr[p]) \in Nat
      BY <1>5, <1>7, <2>1
    <3> QED
      BY <1>8, <1>12, <2>1, <3>1
  <2>2. CASE \E j \in 1..Len(new) : p = Len(tr) + j
    BY <1>5, <1>6, <2>2
  <2> QED
    BY <1>5, <2>1, <2>2
<1>14. lastProcessedBlock # 0 => Ahead(view', got', lastProcessedBlock, lastProcessedIndex)
  BY <1>3, <1>9, <1>12
<1>16. QueueInv'
  <2>1. \A i \in 1..Len(transitions') :
          transitions'[i].block \in resumedAt'..lastIndexed' /\ transitions'[i].block # 0
    BY <1>1, <1>11 DEF tr2
  <2>2. Ordered(transitions')
    BY <1>10 DEF tr2
  <2>3. \A i \in 1..Len(transitions') :
          Ahead(view', got', transitions'[i].block, Rank(transitions'[i]))
    BY <1>13 DEF tr2
  <2>4. lastProcessedBlock' # 0 => Ahead(view', got', lastProcessedBlock', lastProcessedIndex')
    BY <1>1, <1>14
  <2>5. resumedAt' <= lastIndexed'
    BY <1>1, <1>3, <1>4
  <2>6. transitions' \in Seq(Transition)
    BY <1>5 DEF tr2
  <2> QED
    BY <1>1, <1>3, <2>1, <2>2, <2>3, <2>4, <2>5, <2>6 DEF QueueInv
<1>17. PerformInv'
  <2>1. CASE performing
    <3>1. tr # <<>>
      BY <2>1 DEF PerformInv, tr
    <3>2. Head(tr2) = Head(tr) /\ tr2 # <<>>
      BY <1>1, <1>2, <3>1
    <3> QED
      BY <1>1, <2>1, <3>2 DEF PerformInv, tr, tr2
  <2>2. CASE ~performing
    <3>1. diffs = <<>> /\ \A i \in 1..Len(tr) :
            Later(tr[i], lastProcessedBlock, lastProcessedIndex)
      BY <2>2 DEF PerformInv, tr
    <3>2. \A j \in 1..Len(new) : Later(new[j], lastProcessedBlock, lastProcessedIndex)
      <4> TAKE j \in 1..Len(new)
      <4>1. CASE lastProcessedBlock # 0
        BY <1>3, <1>6, <1>9, <4>1
      <4>2. CASE lastProcessedBlock = 0
        <5>1. new[j].block \in Nat /\ new[j].block # 0
          BY <1>6, TransitionFacts
        <5> QED
          BY <4>2, <5>1 DEF Later
      <4> QED
        BY <4>1, <4>2
    <3>3. \A i \in 1..Len(tr2) : Later(tr2[i], lastProcessedBlock, lastProcessedIndex)
      BY <1>5, <3>1, <3>2
    <3> QED
      BY <1>1, <2>2, <3>1, <3>3 DEF PerformInv, tr2
  <2> QED
    BY <2>1, <2>2
<1>18. AppliedInv'
  <2>1. applied \in Seq(Transition) /\ \A i \in 1..Len(applied) : applied[i].block \in Nat
    BY TransitionFacts DEF AppliedInv
  <2>2. \A i \in 1..Len(applied) : applied[i].block <= lastIndexed
    BY DEF AppliedInv
  <2>3. \A i \in 1..Len(applied) : applied[i].block <= lastIndexed'
    BY <1>4, <2>1, <2>2
  <2>4. \A i \in 1..Len(applied), j \in 1..Len(tr2) : applied[i].block <= tr2[j].block
    <3> TAKE i \in 1..Len(applied), p \in 1..Len(tr2)
    <3>1. CASE p \in 1..Len(tr)
      BY <1>5, <3>1 DEF AppliedInv, tr
    <3>2. CASE \E j \in 1..Len(new) : p = Len(tr) + j
      <4>1. PICK j \in 1..Len(new) : p = Len(tr) + j
        BY <3>2
      <4>2. tr2[p] = new[j] /\ new[j].block \in lastIndexed..lastIndexed'
        BY <1>5, <1>6, <4>1
      <4> QED
        BY <2>1, <2>2, <4>2, <1>4
    <3> QED
      BY <1>5, <3>1, <3>2
  <2>5. pc # "down"
    BY DEF Receive, Watching, NextQueued, NextPending, WarpPage, WarpFails, BlockLogs, BlockLogsFail
  <2>6. \A i \in 1..Len(applied) : applied[i].block > resumedAt =>
          ~Later(applied[i], lastProcessedBlock, lastProcessedIndex)
    BY <2>5 DEF AppliedInv
  <2>7. \A i \in 1..Len(applied) - 1 : applied[i].block <= applied[i + 1].block
    BY DEF AppliedInv
  <2> QED
    BY <1>1, <2>1, <2>3, <2>4, <2>6, <2>7 DEF AppliedInv, tr2
<1> QED
  BY <1>16, <1>17, <1>18

(***************************************************************************)
(* The steps of the state machine.                                         *)
(***************************************************************************)
LEMMA DiffFacts ==
  ASSUME NEW h \in Transition, NEW ds \in Seq({BlockNew(h.block), h})
  PROVE  /\ ds \in Seq(Transition)
         /\ \A i \in 1..Len(ds) : ds[i].block = h.block /\ Rank(ds[i]) <= Rank(h)
         /\ \A d \in ToSet(ds) : d \in Transition /\ d.block = h.block /\ Rank(d) <= Rank(h)
<1>1. h.block \in Nat /\ Rank(h) \in Nat
  BY TransitionFacts
<1>2. BlockNew(h.block) \in Transition /\ BlockNew(h.block).block = h.block
      /\ Rank(BlockNew(h.block)) = 0
  BY <1>1, BlockNewFacts
<1>3. \A d \in {BlockNew(h.block), h} :
        d \in Transition /\ d.block = h.block /\ Rank(d) <= Rank(h)
  BY <1>1, <1>2
<1>4. \A i \in 1..Len(ds) : ds[i] \in {BlockNew(h.block), h}
  OBVIOUS
<1>5. \A d \in ToSet(ds) : d \in {BlockNew(h.block), h}
  BY ToSetPlaces
<1>6. ds \in Seq(Transition)
  BY <1>3, <1>4
<1> QED
  BY <1>3, <1>4, <1>5, <1>6

LEMMA PerformFacts ==
  ASSUME QueueInv, PerformInv, Perform
  PROVE  LET h == Head(transitions)
         IN  /\ ~performing /\ transitions # <<>> /\ h \in Transition
             /\ h.block \in Nat /\ h.block # 0
             /\ Later(h, lastProcessedBlock, lastProcessedIndex)
             /\ lastProcessedBlock' = h.block /\ lastProcessedIndex' = Rank(h)
             /\ diffs' \in Seq({BlockNew(h.block), h})
             /\ \A d \in ToSet(diffs') : Later(d, lastProcessedBlock, lastProcessedIndex)
             /\ IsEvent(h) => h \in ToSet(diffs') \cup failed'
             /\ failed \subseteq failed'
<1> DEFINE h == Head(transitions)
           D == {BlockNew(h.block), h}
<1>1. ~performing /\ transitions # <<>> /\ transitions \in Seq(Transition)
      /\ lastProcessedBlock \in Nat /\ lastProcessedIndex \in Nat
  BY DEF Perform, QueueInv
<1>2. h \in Transition /\ h = transitions[1] /\ 1 \in 1..Len(transitions)
  BY <1>1, TailFacts
<1>3. Later(h, lastProcessedBlock, lastProcessedIndex)
  BY <1>1, <1>2 DEF PerformInv
<1>4. h.block \in Nat /\ h.block # 0 /\ Rank(h) \in Nat
  BY <1>2, TransitionFacts DEF QueueInv
<1>5. PerformBlock(h) \/ PerformEvent(h) \/ PerformStale(h)
  BY DEF Perform
<1>6. BlockNew(h.block).block = h.block /\ Rank(BlockNew(h.block)) = 0
  BY <1>4, BlockNewFacts
<1>7. IsEvent(h) => Rank(h) = h.index
  BY <1>2, TransitionFacts
<1>8. ~IsEvent(h) => h = BlockNew(h.block) /\ Rank(h) = 0
  BY <1>2, TransitionFacts
<1>9. BlockNew(h.block) \in D /\ h \in D
  OBVIOUS
<1> HIDE DEF h, D
<1>10. h.block > lastProcessedBlock => Later(BlockNew(h.block), lastProcessedBlock, lastProcessedIndex)
  BY <1>6 DEF Later
<1>11. /\ <<>> \in Seq(D) /\ ToSet(<<>>) = {}
       /\ <<BlockNew(h.block)>> \in Seq(D) /\ ToSet(<<BlockNew(h.block)>>) = {BlockNew(h.block)}
       /\ Append(<<>>, h) \in Seq(D) /\ ToSet(Append(<<>>, h)) = {h}
       /\ Append(<<BlockNew(h.block)>>, h) \in Seq(D)
       /\ ToSet(Append(<<BlockNew(h.block)>>, h)) = {BlockNew(h.block), h}
  BY <1>9 DEF ToSet
<1>12. /\ lastProcessedBlock' = h.block /\ lastProcessedIndex' = Rank(h)
       /\ diffs' \in Seq(D)
       /\ \A d \in ToSet(diffs') : Later(d, lastProcessedBlock, lastProcessedIndex)
       /\ IsEvent(h) => h \in ToSet(diffs') \cup failed'
       /\ failed \subseteq failed'
  <2>1. CASE PerformBlock(h)
    <3>1. ~IsEvent(h) /\ Rank(h) = 0
      BY <1>8, <2>1 DEF PerformBlock
    <3>2. h.block > lastProcessedBlock
      BY <1>1, <1>3, <1>4, <3>1 DEF Later
    <3>3. lastProcessedBlock' = h.block /\ lastProcessedIndex' = 0
      BY <1>1, <1>4, <2>1, <3>2 DEF PerformBlock, Most
    <3>4. \/ diffs' = <<BlockNew(h.block)>> /\ failed' = failed
          \/ diffs' = <<>> /\ failed' = failed \cup {h}
      BY <1>1, <1>4, <2>1, <3>2 DEF PerformBlock, progressToBlock, Throws
    <3>5. diffs' \in Seq(D) /\ ToSet(diffs') \subseteq {BlockNew(h.block)}
      BY <1>11, <3>4
    <3> QED
      BY <1>10, <3>1, <3>2, <3>3, <3>4, <3>5
  <2>2. CASE PerformEvent(h)
    <3>1. lastProcessedBlock' = h.block /\ lastProcessedIndex' = Rank(h) /\ IsEvent(h)
      BY <1>7, <2>2 DEF PerformEvent
    <3>2. \/ diffs' = Append(progressToBlock(h.block), h) /\ failed' = failed
          \/ diffs' = <<>> /\ failed' = failed \cup {h}
      BY <2>2 DEF PerformEvent, Throws
    <3>3. CASE diffs' = <<>> /\ failed' = failed \cup {h}
      BY <1>11, <3>1, <3>3
    <3>4. CASE diffs' = Append(progressToBlock(h.block), h) /\ failed' = failed
      <4>1. CASE h.block <= lastProcessedBlock
        <5>1. diffs' = Append(<<>>, h)
          BY <3>4, <4>1 DEF progressToBlock
        <5> QED
          BY <1>3, <1>11, <3>1, <3>4, <5>1
      <4>2. CASE h.block > lastProcessedBlock
        <5>1. diffs' = Append(<<BlockNew(h.block)>>, h)
          BY <1>1, <1>4, <3>4, <4>2 DEF progressToBlock
        <5> QED
          BY <1>3, <1>10, <1>11, <3>1, <3>4, <4>2, <5>1
      <4> QED
        BY <1>1, <1>4, <4>1, <4>2
    <3> QED
      BY <3>2, <3>3, <3>4
  <2>3. CASE PerformStale(h)
    <3>1. IsEvent(h) /\ Processed(h) /\ Rank(h) = h.index
      BY <1>7, <2>3 DEF PerformStale
    <3> QED
      BY <1>1, <1>3, <1>4, <3>1 DEF Processed, Later
  <2> QED
    BY <1>5, <2>1, <2>2, <2>3
<1> QED
  BY <1>1, <1>2, <1>3, <1>4, <1>12 DEF h, D

LEMMA PerformStep ==
  ASSUME QueueInv, PerformInv, AppliedInv, Perform, lastIndexed \in Nat
  PROVE  /\ QueueInv' /\ PerformInv' /\ AppliedInv'
         /\ transitions' = transitions /\ applied' = applied /\ asked' = asked
         /\ cut' = cut /\ failed \subseteq failed'
<1> DEFINE h == Head(transitions)
<1>1. /\ ~performing /\ transitions # <<>> /\ h \in Transition
      /\ h.block \in Nat /\ h.block # 0
      /\ Later(h, lastProcessedBlock, lastProcessedIndex)
      /\ lastProcessedBlock' = h.block /\ lastProcessedIndex' = Rank(h)
      /\ diffs' \in Seq({BlockNew(h.block), h})
      /\ \A d \in ToSet(diffs') : Later(d, lastProcessedBlock, lastProcessedIndex)
      /\ IsEvent(h) => h \in ToSet(diffs') \cup failed'
      /\ failed \subseteq failed'
  BY PerformFacts
<1>2. /\ transitions' = transitions /\ performing' = TRUE /\ applied' = applied
      /\ asked' = asked /\ cut' = cut /\ resumedAt' = resumedAt
      /\ pc' = pc /\ queue' = queue /\ view' = view /\ got' = got
      /\ lastIndexed' = lastIndexed
  BY DEF Perform, blockWatcher, consumer, boots
<1>3. h = transitions[1] /\ 1 \in 1..Len(transitions) /\ transitions \in Seq(Transition)
  BY <1>1, TailFacts DEF QueueInv
<1>4. Rank(h) \in Nat /\ lastProcessedBlock \in Nat /\ lastProcessedIndex \in Nat
      /\ resumedAt \in Nat
  BY <1>1, TransitionFacts DEF QueueInv
<1>5. Ahead(view, got, h.block, Rank(h)) /\ pc = "running" /\ CaughtUp
  BY <1>1, <1>3 DEF QueueInv, Blank
<1>6. h.block >= resumedAt
  BY <1>1, <1>3 DEF QueueInv
<1> HIDE DEF h
<1>7. QueueInv'
  <2>1. CaughtUp'
    BY <1>2, <1>5 DEF CaughtUp
  <2>2. \A i \in 1..Len(transitions) :
          Ahead(view, got, transitions[i].block, Rank(transitions[i]))
    BY <1>1 DEF QueueInv, Blank
  <2>3. /\ Ordered(transitions) /\ resumedAt <= lastIndexed
        /\ \A i \in 1..Len(transitions) :
             transitions[i].block \in resumedAt..lastIndexed /\ transitions[i].block # 0
    BY DEF QueueInv
  <2>4. /\ lastProcessedBlock' \in Nat /\ lastProcessedIndex' \in Nat /\ lastProcessedBlock' # 0
        /\ Ahead(view', got', lastProcessedBlock', lastProcessedIndex')
    BY <1>1, <1>2, <1>4, <1>5
  <2> QED
    BY <1>2, <1>3, <1>4, <1>5, <2>1, <2>2, <2>3, <2>4 DEF QueueInv
<1>8. \A d \in ToSet(diffs') :
        d \in ToSet(applied) => d.block = resumedAt
  <2> SUFFICES ASSUME NEW d \in ToSet(diffs'), d \in ToSet(applied)
               PROVE  d.block = resumedAt
    OBVIOUS
  <2>1. d.block = h.block /\ Later(d, lastProcessedBlock, lastProcessedIndex)
    BY <1>1, DiffFacts
  <2>2. PICK i \in 1..Len(applied) : applied[i] = d
    BY ToSetPlaces DEF AppliedInv
  <2>3. ~(d.block > resumedAt)
    BY <1>5, <2>1, <2>2 DEF AppliedInv
  <2> QED
    BY <1>1, <1>4, <1>6, <2>1, <2>3
<1>9. PerformInv'
  <2>1. Head(transitions') = h /\ transitions' # <<>>
    BY <1>1, <1>2 DEF h
  <2>2. \A d \in ToSet(diffs') : d \in ToSet(applied') => d.block = resumedAt'
    BY <1>2, <1>8
  <2> QED
    BY <1>1, <1>2, <2>1, <2>2 DEF PerformInv
<1>10. AppliedInv'
  <2>1. \A i \in 1..Len(applied) :
          applied[i].block > resumedAt => ~Later(applied[i], lastProcessedBlock, lastProcessedIndex)
    BY <1>5 DEF AppliedInv
  <2>2. \A i \in 1..Len(applied) :
          applied[i].block > resumedAt => ~Later(applied[i], h.block, Rank(h))
    <3> SUFFICES ASSUME NEW i \in 1..Len(applied), applied[i].block > resumedAt
                 PROVE  ~Later(applied[i], h.block, Rank(h))
      OBVIOUS
    <3>1. applied[i] \in Transition
      BY DEF AppliedInv
    <3>2. ~Later(applied[i], lastProcessedBlock, lastProcessedIndex)
      BY <2>1
    <3> QED
      BY <1>1, <1>4, <3>1, <3>2, LaterFacts
  <2>3. \A i \in 1..Len(applied) : applied[i].block > resumedAt =>
          ~Later(applied[i], lastProcessedBlock', lastProcessedIndex')
    BY <1>1, <2>2
  <2> QED
    BY <1>2, <2>3 DEF AppliedInv
<1> QED
  BY <1>1, <1>2, <1>7, <1>9, <1>10

LEMMA SomeDiffs ==
  ASSUME NEW S, NEW s \in Seq(S), NEW n \in 0..Len(s)
  PROVE  /\ SubSeq(s, 1, n) \in Seq(S)
         /\ n = Len(s) => SubSeq(s, 1, n) = s
<1>1. Len(s) \in Nat /\ n \in Nat /\ \A i \in 1..n : s[i] \in S
  OBVIOUS
<1>2. SubSeq(s, 1, n) \in Seq(S) /\ Len(SubSeq(s, 1, n)) = n
      /\ \A i \in 1..n : SubSeq(s, 1, n)[i] = s[i]
  BY <1>1, SubSeqProperties
<1> DEFINE t == SubSeq(s, 1, n)
<1> HIDE DEF t
<1>3. t \in Seq(S) /\ Len(t) = n /\ \A i \in 1..n : t[i] = s[i]
  BY <1>2 DEF t
<1>4. n = Len(s) => t = s
  BY <1>3
<1> QED
  BY <1>3, <1>4 DEF t

LEMMA PlacesIn ==
  ASSUME NEW s \in Seq(Transition), NEW t \in Seq(Transition)
  PROVE  /\ s \o t \in Seq(Transition) /\ Len(s) \in Nat /\ Len(t) \in Nat
         /\ Len(s \o t) = Len(s) + Len(t)
         /\ \A p \in 1..Len(s) : (s \o t)[p] = s[p]
         /\ \A j \in 1..Len(t) : (s \o t)[Len(s) + j] = t[j]
         /\ \A p \in 1..Len(s \o t) : p \in 1..Len(s) \/ \E j \in 1..Len(t) : p = Len(s) + j
<1> DEFINE u == s \o t
<1>1. /\ u \in Seq(Transition) /\ Len(s) \in Nat /\ Len(t) \in Nat
      /\ Len(u) = Len(s) + Len(t)
      /\ \A p \in 1..Len(s) : u[p] = s[p]
      /\ \A j \in 1..Len(t) : u[Len(s) + j] = t[j]
      /\ \A p \in 1..Len(u) : p \in 1..Len(s) \/ \E j \in 1..Len(t) : p = Len(s) + j
  BY ConcatPlaces
<1> QED
  BY <1>1

\* More of the diffs of the current transition are stored.
LEMMA AppliedGrows ==
  ASSUME QueueInv, PerformInv, AppliedInv, performing, lastIndexed \in Nat,
         NEW ds \in Seq({BlockNew(Head(transitions).block), Head(transitions)})
  PROVE  LET h == Head(transitions)
         IN  /\ applied \o ds \in Seq(Transition)
             /\ \A i \in 1..Len(applied \o ds) - 1 :
                  (applied \o ds)[i].block <= (applied \o ds)[i + 1].block
             /\ \A i \in 1..Len(applied \o ds) :
                  /\ (applied \o ds)[i].block <= h.block
                  /\ (applied \o ds)[i].block <= lastIndexed
                  /\ (applied \o ds)[i].block > resumedAt =>
                       ~Later((applied \o ds)[i], h.block, Rank(h))
<1> DEFINE h == Head(transitions)
           D == {BlockNew(h.block), h}
           u == applied \o ds
<1>1. /\ transitions # <<>> /\ diffs \in Seq(D) /\ transitions \in Seq(Transition)
      /\ lastProcessedBlock = h.block /\ lastProcessedIndex = Rank(h)
  BY DEF PerformInv, QueueInv
<1>2. h \in Transition /\ h = transitions[1] /\ 1 \in 1..Len(transitions)
  BY <1>1, TailFacts
<1>3. h.block \in Nat /\ Rank(h) \in Nat /\ h.block <= lastIndexed /\ pc # "down"
  BY <1>1, <1>2, TransitionFacts DEF QueueInv, Blank
<1>4. \A i \in 1..Len(applied) : applied[i].block <= h.block
  BY <1>2 DEF AppliedInv
<1>5. ds \in Seq(D)
  OBVIOUS
<1> HIDE DEF h
<1>6. /\ ds \in Seq(Transition)
      /\ \A i \in 1..Len(ds) : ds[i].block = h.block /\ Rank(ds[i]) <= Rank(h) /\ ds[i] \in Transition
  <2>1. ds \in Seq(Transition) /\ \A i \in 1..Len(ds) : ds[i].block = h.block /\ Rank(ds[i]) <= Rank(h)
    BY <1>2, <1>5, DiffFacts DEF h
  <2> HIDE DEF D
  <2> QED
    BY <2>1
<1>7. ds \in Seq(Transition) /\ applied \in Seq(Transition)
  BY <1>6 DEF AppliedInv
<1>8. \A i \in 1..Len(applied) : applied[i] \in Transition /\ applied[i].block \in Nat
                                 /\ applied[i].block <= lastIndexed
  BY <1>7, TransitionFacts DEF AppliedInv
<1>9. \A i \in 1..Len(applied) : applied[i].block > resumedAt => ~Later(applied[i], h.block, Rank(h))
  BY <1>1, <1>3 DEF AppliedInv
<1>10. \A i \in 1..Len(ds) : ~Later(ds[i], h.block, Rank(h)) /\ Rank(ds[i]) \in Nat
  <2> TAKE i \in 1..Len(ds)
  <2>1. Rank(ds[i]) \in Nat
    BY <1>6, TransitionFacts
  <2> QED
    BY <1>3, <1>6, <2>1 DEF Later
<1>11. /\ u \in Seq(Transition) /\ Len(applied) \in Nat /\ Len(ds) \in Nat
       /\ Len(u) = Len(applied) + Len(ds)
       /\ \A p \in 1..Len(applied) : u[p] = applied[p]
       /\ \A j \in 1..Len(ds) : u[Len(applied) + j] = ds[j]
       /\ \A p \in 1..Len(u) : p \in 1..Len(applied) \/ \E j \in 1..Len(ds) : p = Len(applied) + j
  BY <1>7, PlacesIn DEF u
<1> HIDE DEF u, D
<1>12. \A p \in 1..Len(u) :
         /\ u[p].block \in Nat /\ u[p].block <= h.block /\ u[p].block <= lastIndexed
         /\ u[p].block > resumedAt => ~Later(u[p], h.block, Rank(h))
  <2> TAKE p \in 1..Len(u)
  <2>1. CASE p \in 1..Len(applied)
    <3>1. u[p] = applied[p]
      BY <1>11, <2>1
    <3> QED
      BY <1>4, <1>8, <1>9, <2>1, <3>1
  <2>2. CASE \E j \in 1..Len(ds) : p = Len(applied) + j
    <3>1. PICK j \in 1..Len(ds) : p = Len(applied) + j
      BY <2>2
    <3>2. u[p] = ds[j]
      BY <1>11, <3>1
    <3> QED
      BY <1>3, <1>6, <1>10, <3>2
  <2> QED
    BY <1>11, <2>1, <2>2
<1>13. \A p \in 1..Len(u) - 1 : u[p].block <= u[p + 1].block
  <2> TAKE p \in 1..Len(u) - 1
  <2>1. p \in 1..Len(u) /\ p + 1 \in 1..Len(u) /\ p \in Nat
    BY <1>11
  <2>2. CASE p + 1 \in 1..Len(applied)
    <3>1. p \in 1..Len(applied) - 1 /\ u[p] = applied[p] /\ u[p + 1] = applied[p + 1]
      BY <1>11, <2>1, <2>2
    <3> QED
      BY <3>1 DEF AppliedInv
  <2>3. CASE \E j \in 1..Len(ds) : p + 1 = Len(applied) + j
    <3>1. PICK j \in 1..Len(ds) : p + 1 = Len(applied) + j
      BY <2>3
    <3>2. u[p + 1] = ds[j]
      BY <1>11, <3>1
    <3>3. u[p + 1].block = h.block
      BY <1>6, <3>2
    <3> QED
      BY <1>12, <2>1, <3>3
  <2> QED
    BY <1>11, <2>1, <2>2, <2>3
<1> QED
  BY <1>11, <1>12, <1>13 DEF u, h

LEMMA UnreadGrows ==
  ASSUME Height \in Nat, Height' \in Nat, Height' >= Height,
         \A n \in 1..Height : chain'[n] = chain[n]
  PROVE  Unread \subseteq Unread'
<1> SUFFICES ASSUME NEW t \in Unread PROVE t \in Unread'
  OBVIOUS
<1>1. PICK n \in 1..Height :
        /\ t \in ToSet(EventsOf(chain[n], chain[n].logs))
        /\ \E k \in 1..n : /\ n < k + BlockPageSize
                        /\ \E l \in ToSet(chain[k].logs) :
                             l.event \in Malformed /\ (k < n \/ l.index <= t.index)
  BY DEF Unread
<1>2. PICK k \in 1..n : /\ n < k + BlockPageSize
                       /\ \E l \in ToSet(chain[k].logs) :
                            l.event \in Malformed /\ (k < n \/ l.index <= t.index)
  BY <1>1
<1>3. n \in 1..Height' /\ k \in 1..Height
  OBVIOUS
<1>4. chain'[n] = chain[n] /\ chain'[k] = chain[k]
  BY <1>3
<1> QED
  BY <1>1, <1>2, <1>3, <1>4 DEF Unread

LEMMA UnreadSame ==
  ASSUME chain' = chain
  PROVE  Unread' = Unread
BY DEF Unread, Height

LEMMA DoneGrows ==
  ASSUME applied \in Seq(Transition), asked \in Seq(Transition),
         NEW as \in Seq(Transition), NEW bs \in Seq(Transition),
         applied' = applied \o as, asked' = asked \o bs,
         failed \subseteq failed', cut \subseteq cut', chain' = chain
  PROVE  /\ ToSet(applied') = ToSet(applied) \cup ToSet(as)
         /\ ToSet(asked') = ToSet(asked) \cup ToSet(bs)
         /\ asked' \in Seq(Transition)
         /\ Done \subseteq Done'
<1>1. ToSet(applied') = ToSet(applied) \cup ToSet(as)
  BY ToSetConcat
<1>2. ToSet(asked') = ToSet(asked) \cup ToSet(bs)
  BY ToSetConcat
<1>3. asked' \in Seq(Transition)
  BY PlacesIn
<1>4. Unread' = Unread
  BY UnreadSame
<1> QED
  BY <1>1, <1>2, <1>3, <1>4 DEF Done

LEMMA SettleStep ==
  ASSUME QueueInv, PerformInv, AppliedInv, Settle, lastIndexed \in Nat, asked \in Seq(Transition)
  PROVE  /\ QueueInv' /\ PerformInv' /\ AppliedInv' /\ asked' \in Seq(Transition)
         /\ Done \subseteq Done'
         /\ \A t \in ToSet(transitions) : IsEvent(t) => t \in Known'
<1> DEFINE h == Head(transitions)
           tl == Tail(transitions)
<1>1. /\ performing /\ applied' = applied \o diffs /\ asked' = asked \o diffs
      /\ transitions' = tl /\ diffs' = <<>> /\ performing' = FALSE
      /\ pc' = pc /\ queue' = queue /\ view' = view /\ got' = got /\ lastIndexed' = lastIndexed
      /\ lastProcessedBlock' = lastProcessedBlock /\ lastProcessedIndex' = lastProcessedIndex
      /\ failed' = failed /\ cut' = cut /\ resumedAt' = resumedAt /\ chain' = chain
  BY DEF Settle, blockWatcher, consumer, boots, node
<1>2. /\ transitions # <<>> /\ transitions \in Seq(Transition) /\ diffs \in Seq({BlockNew(h.block), h})
      /\ lastProcessedBlock = h.block /\ lastProcessedIndex = Rank(h)
      /\ IsEvent(h) => h \in ToSet(diffs) \cup failed
  BY <1>1 DEF PerformInv, QueueInv
<1>3. /\ h \in Transition /\ h = transitions[1] /\ 1 \in 1..Len(transitions)
      /\ tl \in Seq(Transition) /\ Len(tl) = Len(transitions) - 1 /\ Len(transitions) \in Nat
      /\ \A i \in 1..Len(tl) : i + 1 \in 1..Len(transitions) /\ tl[i] = transitions[i + 1]
      /\ \A i \in 1..Len(transitions) : i = 1 \/ (i - 1 \in 1..Len(tl) /\ transitions[i] = tl[i - 1])
  BY <1>2, TailFacts
<1>4. diffs \in Seq(Transition)
  BY <1>2, <1>3, DiffFacts
<1>5. pc = "running" /\ CaughtUp /\ Ahead(view, got, lastProcessedBlock, lastProcessedIndex)
  BY <1>2, <1>3 DEF QueueInv, Blank
<1>6. \A i \in 1..Len(tl) : /\ tl[i] \in Transition
                            /\ Later(tl[i], h.block, Rank(h)) /\ tl[i].block >= h.block
  <2> TAKE i \in 1..Len(tl)
  <2>1. i + 1 \in 1..Len(transitions) /\ tl[i] = transitions[i + 1] /\ 1 < i + 1
    BY <1>3
  <2>2. Later(transitions[i + 1], transitions[1].block, Rank(transitions[1]))
    BY <1>3, <2>1 DEF QueueInv, Ordered
  <2>3. tl[i] \in Transition
    BY <1>3
  <2>4. Later(tl[i], h.block, Rank(h))
    BY <1>3, <2>1, <2>2
  <2> QED
    BY <1>3, <2>3, <2>4, LaterFacts
<1>7. applied \in Seq(Transition)
  BY DEF AppliedInv
<1>8. /\ applied \o diffs \in Seq(Transition)
      /\ \A i \in 1..Len(applied \o diffs) - 1 :
           (applied \o diffs)[i].block <= (applied \o diffs)[i + 1].block
      /\ \A i \in 1..Len(applied \o diffs) :
           /\ (applied \o diffs)[i].block <= h.block
           /\ (applied \o diffs)[i].block <= lastIndexed
           /\ (applied \o diffs)[i].block > resumedAt =>
                ~Later((applied \o diffs)[i], h.block, Rank(h))
  BY <1>1, <1>2, AppliedGrows
<1> HIDE DEF h, tl
<1>9. QueueInv'
  <2>1. Ordered(tl)
    <3> SUFFICES ASSUME NEW i \in 1..Len(tl), NEW j \in 1..Len(tl), i < j
                 PROVE  Later(tl[j], tl[i].block, Rank(tl[i]))
      BY DEF Ordered
    <3>1. i + 1 \in 1..Len(transitions) /\ j + 1 \in 1..Len(transitions) /\ i + 1 < j + 1
      BY <1>3
    <3> QED
      BY <1>3, <3>1 DEF QueueInv, Ordered
  <2>2. \A i \in 1..Len(tl) : /\ tl[i].block \in resumedAt..lastIndexed /\ tl[i].block # 0
                              /\ Ahead(view, got, tl[i].block, Rank(tl[i]))
    <3> TAKE i \in 1..Len(tl)
    <3>1. i + 1 \in 1..Len(transitions) /\ tl[i] = transitions[i + 1]
      BY <1>3
    <3> QED
      BY <1>2, <3>1 DEF QueueInv, Blank
  <2>3. CaughtUp'
    BY <1>1, <1>5 DEF CaughtUp
  <2>4. /\ lastProcessedBlock \in Nat /\ lastProcessedIndex \in Nat
        /\ lastProcessedBlock = 0 => lastProcessedIndex = 0
        /\ resumedAt \in Nat /\ resumedAt <= lastIndexed
    BY DEF QueueInv
  <2> QED
    BY <1>1, <1>3, <1>5, <2>1, <2>2, <2>3, <2>4 DEF QueueInv
<1>10. PerformInv'
  <2>1. \A i \in 1..Len(tl) : Later(tl[i], lastProcessedBlock, lastProcessedIndex)
    BY <1>2, <1>6
  <2> QED
    BY <1>1, <2>1 DEF PerformInv
<1>11. AppliedInv'
  <2> DEFINE u == applied \o diffs
  <2>1. \A i \in 1..Len(u) : u[i].block \in Nat
    BY <1>8, TransitionFacts
  <2>2. \A i \in 1..Len(tl) : tl[i].block \in Nat /\ h.block \in Nat
    BY <1>3, <1>6, TransitionFacts
  <2>3. /\ u \in Seq(Transition)
        /\ \A i \in 1..Len(u) - 1 : u[i].block <= u[i + 1].block
        /\ \A i \in 1..Len(u) : u[i].block <= lastIndexed
        /\ \A i \in 1..Len(u) : u[i].block <= h.block
        /\ \A i \in 1..Len(u) : u[i].block > resumedAt => ~Later(u[i], h.block, Rank(h))
    BY <1>8
  <2> HIDE DEF u
  <2>4. \A i \in 1..Len(u), j \in 1..Len(tl) : u[i].block <= tl[j].block
    <3> TAKE i \in 1..Len(u), j \in 1..Len(tl)
    <3>1. u[i].block <= h.block /\ u[i].block \in Nat
      BY <2>1, <2>3
    <3>2. tl[j].block >= h.block /\ tl[j].block \in Nat /\ h.block \in Nat
      BY <1>6, <2>2
    <3> QED
      BY <3>1, <3>2
  <2>5. applied' = u
    BY <1>1 DEF u
  <2> QED
    BY <1>1, <1>2, <2>3, <2>4, <2>5 DEF AppliedInv
<1>12. /\ ToSet(applied') = ToSet(applied) \cup ToSet(diffs)
       /\ ToSet(asked') = ToSet(asked) \cup ToSet(diffs)
       /\ asked' \in Seq(Transition) /\ Done \subseteq Done'
  BY <1>1, <1>4, <1>7, DoneGrows
<1>13. ASSUME NEW t \in ToSet(transitions), IsEvent(t)
       PROVE  t \in Done' \/ t \in ToSet(transitions')
  <2>1. PICK i \in 1..Len(transitions) : transitions[i] = t
    BY <1>2, ToSetPlaces
  <2>2. CASE i = 1
    <3>1. t = h
      BY <1>3, <2>1, <2>2
    <3>2. t \in ToSet(diffs) \cup failed
      BY <1>2, <1>13, <3>1
    <3> QED
      BY <1>1, <1>12, <3>2 DEF Done
  <2>3. CASE i # 1
    <3>1. i - 1 \in 1..Len(tl) /\ t = tl[i - 1]
      BY <1>3, <2>1, <2>3
    <3> QED
      BY <1>1, <1>3, <3>1, ToSetPlaces
  <2> QED
    BY <2>2, <2>3
<1> QED
  BY <1>9, <1>10, <1>11, <1>12, <1>13 DEF Known

LEMMA KillStep ==
  ASSUME QueueInv, PerformInv, AppliedInv, Kill, lastIndexed \in Nat, asked \in Seq(Transition)
  PROVE  /\ QueueInv' /\ PerformInv' /\ AppliedInv' /\ asked' \in Seq(Transition)
         /\ Done \subseteq Done'
         /\ \A t \in ToSet(transitions) : t.block < lastIndexed => t \in Done'
<1> DEFINE h == Head(transitions)
<1>1. PICK n \in 0..Len(diffs) :
        /\ applied' = applied \o SubSeq(diffs, 1, n)
        /\ \E m \in 0..(IF n = Len(diffs) THEN n ELSE 0) :
             asked' = asked \o SubSeq(diffs, 1, m)
  BY DEF Kill
<1>2. PICK m \in 0..(IF n = Len(diffs) THEN n ELSE 0) : asked' = asked \o SubSeq(diffs, 1, m)
  BY <1>1
<1>3. /\ cut' = cut \cup {t \in ToSet(transitions) : t.block < lastIndexed}
      /\ transitions' = <<>> /\ diffs' = <<>> /\ performing' = FALSE
      /\ lastProcessedBlock' = 0 /\ lastProcessedIndex' = 0
      /\ failed' = failed /\ resumedAt' = resumedAt /\ lastIndexed' = lastIndexed
      /\ pc' = "down" /\ chain' = chain
  BY DEF Kill, Forget, boots, Stop, Halt, consumer, node
<1>4. diffs \in Seq(Transition)
  <2>1. CASE performing
    <3>1. transitions # <<>> /\ diffs \in Seq({BlockNew(h.block), h}) /\ transitions \in Seq(Transition)
      BY <2>1 DEF PerformInv, QueueInv
    <3> QED
      BY <3>1, TailFacts, DiffFacts
  <2>2. CASE ~performing
    <3>1. diffs = <<>>
      BY <2>2 DEF PerformInv
    <3> QED
      BY <3>1
  <2> QED
    BY <2>1, <2>2
<1>5. m \in 0..Len(diffs) /\ Len(diffs) \in Nat
  BY <1>4
<1>6. SubSeq(diffs, 1, n) \in Seq(Transition) /\ SubSeq(diffs, 1, m) \in Seq(Transition)
  BY <1>4, <1>5, SomeDiffs
<1>7. applied \in Seq(Transition)
  BY DEF AppliedInv
<1>8. asked' \in Seq(Transition) /\ Done \subseteq Done'
  BY <1>1, <1>2, <1>3, <1>6, <1>7, DoneGrows
<1>9. \A t \in ToSet(transitions) : t.block < lastIndexed => t \in Done'
  BY <1>3 DEF Done
<1>10. PerformInv'
  BY <1>3 DEF PerformInv
<1>11. QueueInv'
  <2>1. /\ transitions' \in Seq(Transition) /\ Len(transitions') = 0 /\ Ordered(transitions')
        /\ 0 \in Nat /\ performing' \in BOOLEAN
    <3>1. <<>> \in Seq(Transition) /\ Len(<<>>) = 0
      OBVIOUS
    <3>2. 1..0 = {}
      OBVIOUS
    <3>3. \A i, j \in 1..Len(transitions') : i < j => FALSE
      BY <1>3, <3>1, <3>2
    <3>4. Ordered(transitions')
      BY <3>3 DEF Ordered
    <3> QED
      BY <1>3, <3>1, <3>4
  <2>2. Blank'
    BY <1>3 DEF Blank
  <2>3. resumedAt \in Nat /\ resumedAt <= lastIndexed
    BY DEF QueueInv
  <2> QED
    BY <1>3, <2>1, <2>2, <2>3 DEF QueueInv
<1>12. AppliedInv'
  <2>1. /\ applied' \in Seq(Transition)
        /\ \A i \in 1..Len(applied') - 1 : applied'[i].block <= applied'[i + 1].block
        /\ \A i \in 1..Len(applied') : applied'[i].block <= lastIndexed
    <3>1. CASE performing
      <4>1. diffs \in Seq({BlockNew(h.block), h})
        BY <3>1 DEF PerformInv
      <4>2. SubSeq(diffs, 1, n) \in Seq({BlockNew(h.block), h})
        BY <4>1, SomeDiffs
      <4> QED
        BY <1>1, <3>1, <4>2, AppliedGrows
    <3>2. CASE ~performing
      <4>1. diffs = <<>> /\ n = 0
        BY <3>2 DEF PerformInv
      <4>2. SubSeq(diffs, 1, n) = <<>>
        BY <4>1
      <4>3. applied' = applied
        BY <1>1, <1>7, <4>2, ConcatEmptySeq
      <4> QED
        BY <4>3 DEF AppliedInv
    <3> QED
      BY <3>1, <3>2
  <2>2. Len(transitions') = 0
    BY <1>3
  <2>3. \A i \in 1..Len(applied'), j \in 1..Len(transitions') :
          applied'[i].block <= transitions'[j].block
    BY <2>2
  <2> QED
    BY <1>3, <2>1, <2>3 DEF AppliedInv
<1> QED
  BY <1>8, <1>9, <1>10, <1>11, <1>12

(***************************************************************************)
(* What a step of the watcher hands over.                                  *)
(***************************************************************************)
\* Without a reorganisation all the reported blocks are on the chain.
LEMMA ViewOnChain ==
  ASSUME WatcherInv, Unforked
  PROVE  /\ NodeOK /\ ViewAt(view, got, lastIndexed) /\ Counted
         /\ chain \in Seq(Header) /\ Height \in Nat /\ Height = Len(chain)
         /\ view \in Seq(Header) /\ Len(view) \in Nat
         /\ got \in Seq(Seq(Log)) /\ Len(got) \in Nat /\ Len(got) <= Len(view)
         /\ lastIndexed \in Nat /\ lastIndexed <= Height
         /\ lastIndexed = 0 => view = <<>>
         /\ \A i \in 1..Len(view) :
              /\ view[i] \in Header /\ view[i].number \in Nat
              /\ view[i].number >= 1 /\ view[i].number <= Height
              /\ chain[view[i].number] = view[i]
         /\ \A i, j \in 1..Len(view) : view[j].number = view[i].number + (j - i)
<1>1. NodeOK /\ ViewAt(view, got, lastIndexed) /\ Counted
  BY DEF WatcherInv
<1>2. /\ view \in Seq(Header) /\ Len(view) \in Nat
      /\ got \in Seq(Seq(Log)) /\ Len(got) \in Nat /\ Len(got) <= Len(view)
      /\ lastIndexed \in Nat /\ lastIndexed <= top
      /\ \A i \in 1..Len(view) : /\ view[i] \in Header /\ Past(view[i])
                                 /\ view[i].number \in Nat /\ view[i].number >= 1
                                 /\ view[i].number <= top /\ view[i].fork \in Nat
  BY <1>1, ViewFacts
<1>3. chain \in Seq(Header) /\ Height \in Nat /\ Height = Len(chain) /\ top = Height
  BY <1>1, Heights DEF NodeOK, Unforked, Height
<1>4. ASSUME NEW i \in 1..Len(view) PROVE chain[view[i].number] = view[i]
  <2>1. Past(view[i]) /\ view[i].fork \in Nat
    BY <1>2
  <2>2. InChain(chain, view[i])
    BY <2>1 DEF Past, Seen, Unforked
  <2> QED
    BY <2>2 DEF InChain
<1>5. \A i, j \in 1..Len(view) : view[j].number = view[i].number + (j - i)
  BY <1>1 DEF ViewAt, PieceNow, Piece
<1>6. lastIndexed = 0 => view = <<>>
  BY <1>1 DEF ViewAt
<1> QED
  BY <1>1, <1>2, <1>3, <1>4, <1>5, <1>6

\* Only blocks are queued once the catchup is over.
LEMMA NewsQueued ==
  ASSUME WatcherInv, pc = "running"
  PROVE  CaughtUp <=> Following
<1>1. /\ NodeOK /\ ViewAt(view, got, lastIndexed) /\ LoadedAt(Floor, blocks, lastIndexed)
      /\ Restarting \/ Rewound \/ Following
  BY RunningFacts
<1>2. /\ Floor \in Nat /\ Floor >= lastIndexed - MaxReorgDepth /\ blocks \in Seq(Header)
      /\ Len(blocks) \in Nat
  BY <1>1, LoadedFacts
<1>3. \A n, a, b : /\ Uncle(n).type = "uncle" /\ Warp(a, b).type = "warp"
                   /\ NewBlock(b).type = "new_block"
  BY DEF Uncle, Warp, NewBlock
<1>4. ASSUME Following PROVE CaughtUp
  <2>1. PICK m \in 0..Len(blocks) : FollowsAt(m, Floor, blocks, queue, view, got, step)
    BY <1>4 DEF Following
  <2>2. queue = News(blocks, m)
    BY <2>1 DEF FollowsAt
  <2>3. m = Len(blocks) \/ m < Len(blocks)
    BY <1>2
  <2> QED
    BY <1>2, <1>3, <2>2, <2>3, NewsFacts DEF CaughtUp
<1>5. ASSUME Rewound PROVE ~CaughtUp
  <2> DEFINE w == Warp(FirstUncled, Floor)
             N == News(blocks, 0)
             S == {Warp(FirstUncled, Floor)} \cup {NewBlock(blocks[i]) : i \in 1..Len(blocks)}
  <2>1. queue = <<w>> \o N
    BY <1>5 DEF Rewound
  <2>2. w \in S
    OBVIOUS
  <2>3. N \in Seq(S)
    BY DEF News
  <2> HIDE DEF S, N, w
  <2>4. queue # <<>> /\ Head(queue) = w
    BY <2>1, <2>2, <2>3, ConsFacts
  <2> QED
    BY <1>3, <2>4 DEF CaughtUp, w
<1>6. ASSUME Restarting PROVE ~CaughtUp
  <2>1. lastIndexed # 0 /\ queue = Catchup(Floor) \o News(blocks, 0)
    BY <1>6 DEF Restarting
  <2>2. queue # <<>> /\ Head(queue) = Uncle(FirstUncled)
    BY <1>1, <1>2, <2>1, CatchupIs
  <2> QED
    BY <1>3, <2>2 DEF CaughtUp
<1> QED
  BY <1>1, <1>4, <1>5, <1>6

\* What of the transitions ts is handed over, and what is indexed then.
LEMMA KeptOut ==
  ASSUME NEW ts \in Seq(Transition), Ordered(ts), HandleTransitions(ts), lastIndexed \in Nat
  PROVE  /\ out' \in Seq(Transition) /\ Ordered(out')
         /\ lastIndexed' \in Nat /\ lastIndexed' >= lastIndexed
         /\ ToSet(out') = {t \in ToSet(ts) : t.block >= lastIndexed}
         /\ \A t \in ToSet(ts) : t.block <= lastIndexed'
         /\ lastIndexed' = lastIndexed \/ \E t \in ToSet(ts) : lastIndexed' = t.block
<1> DEFINE T == {t \in ToSet(ts) : t.block >= lastIndexed}
<1>1. out' = Kept(ts, T)
  BY DEF HandleTransitions
<1> DEFINE o == Kept(ts, T)
<1>2. /\ o \in Seq(Transition) /\ ToSet(o) = ToSet(ts) \cap T
      /\ \A p, q \in 1..Len(o) : p < q =>
           \E i, j \in 1..Len(ts) : i < j /\ o[p] = ts[i] /\ o[q] = ts[j]
  <2> HIDE DEF T
  <2> QED
    BY KeptFacts
<1> HIDE DEF o
<1>3. Ordered(o)
  BY <1>2 DEF Ordered
<1>4. \A t \in ToSet(ts) : t \in Transition /\ t.block \in Nat
  BY ToSetPlaces, TransitionFacts
<1>5. CASE ts = <<>>
  <2>1. lastIndexed' = lastIndexed /\ ToSet(ts) = {}
    BY <1>5 DEF HandleTransitions, ToSet
  <2> QED
    BY <1>1, <1>2, <1>3, <2>1 DEF o
<1>6. CASE ts # <<>>
  <2> DEFINE n == Len(ts)
  <2>1. n \in 1..n /\ n \in Nat
    BY <1>6
  <2>2. lastIndexed' = Most(lastIndexed, ts[n].block)
    BY <1>6 DEF HandleTransitions, Last
  <2>3. ts[n] \in ToSet(ts) /\ ts[n].block \in Nat
    BY <1>4, <2>1, ToSetPlaces
  <2>4. \A t \in ToSet(ts) : t.block <= ts[n].block
    <3> TAKE t \in ToSet(ts)
    <3>1. PICK i \in 1..n : ts[i] = t
      BY ToSetPlaces
    <3>2. CASE i = n
      BY <2>3, <3>1, <3>2
    <3>3. CASE i < n
      <4>1. Later(ts[n], t.block, Rank(t))
        BY <2>1, <3>1, <3>3 DEF Ordered
      <4> QED
        BY <1>4, <2>3, <4>1, LaterFacts
    <3> QED
      BY <2>1, <3>2, <3>3
  <2> DEFINE x == ts[n].block
             l2 == lastIndexed'
  <2>5. l2 \in Nat /\ l2 >= lastIndexed /\ l2 >= x /\ (l2 = lastIndexed \/ l2 = x)
    BY <2>2, <2>3, MostFacts
  <2>6. \A t \in ToSet(ts) : t.block <= l2
    <3> TAKE t \in ToSet(ts)
    <3>1. t.block \in Nat /\ t.block <= x /\ x \in Nat
      BY <1>4, <2>3, <2>4
    <3> HIDE DEF l2, x
    <3> QED
      BY <2>5, <3>1
  <2> QED
    BY <1>1, <1>2, <1>3, <2>3, <2>5, <2>6 DEF o
<1> QED
  BY <1>5, <1>6

\* The transitions made of the answer for the blocks bs.
LEMMA EventsOrdered ==
  ASSUME NEW bs \in Seq(Header), NEW answer \in Seq(Seq(Log)), Len(answer) = Len(bs),
         \A i, k \in 1..Len(bs) : i < k => bs[i].number < bs[k].number,
         \A i \in 1..Len(bs) : Fair(bs[i].logs, answer[i])
  PROVE  LET ts == FlattenSeq(EventsIn(bs, answer))
         IN  /\ ts \in Seq(Transition) /\ Ordered(ts)
             /\ \A t \in ToSet(ts) :
                  /\ IsEvent(t) /\ t.index >= 1
                  /\ \E i \in 1..Len(bs) : \E l \in ToSet(answer[i]) : t = EventOf(bs[i], l)
                  /\ \E i \in 1..Len(bs) : t.block = bs[i].number
             /\ \A i \in 1..Len(bs) : \A l \in ToSet(answer[i]) : EventOf(bs[i], l) \in ToSet(ts)
<1> DEFINE ss == EventsIn(bs, answer)
           ts == FlattenSeq(ss)
<1>1. /\ ss \in Seq(Seq(EventTransition)) /\ Len(ss) = Len(bs)
      /\ \A i \in 1..Len(bs) : ss[i] = EventsOf(bs[i], answer[i])
                               /\ bs[i] \in Header /\ answer[i] \in Seq(Log)
  BY EventsInFacts
<1>2. \A i \in 1..Len(bs) :
        /\ ss[i] \in Seq(EventTransition) /\ Len(ss[i]) = Len(answer[i])
        /\ \A j \in 1..Len(answer[i]) :
             /\ ss[i][j].id = answer[i][j].event /\ ss[i][j].block = bs[i].number
             /\ ss[i][j].index = answer[i][j].index
             /\ ss[i][j] \in EventTransition
             /\ answer[i][j] \in Log
  <2> TAKE i \in 1..Len(bs)
  <2> DEFINE e == EventsOf(bs[i], answer[i])
             a == answer[i]
  <2>1. bs[i] \in Header /\ a \in Seq(Log)
    BY <1>1
  <2>2. /\ e \in Seq(EventTransition) /\ Len(e) = Len(a)
        /\ \A j \in 1..Len(a) : e[j].id = a[j].event /\ e[j].block = bs[i].number
                                /\ e[j].index = a[j].index
    BY <2>1, EventsOfFacts
  <2> HIDE DEF e, a
  <2>3. \A j \in 1..Len(a) : e[j] \in EventTransition /\ a[j] \in Log
    BY <2>1, <2>2
  <2>4. ss[i] = e
    BY <1>1 DEF e
  <2> QED
    BY <2>2, <2>3, <2>4 DEF a
<1> HIDE DEF ss
<1>3. ts \in Seq(EventTransition)
      /\ \A x : x \in ToSet(ts) <=> \E i \in 1..Len(ss) : x \in ToSet(ss[i])
  BY <1>1, FlatMembers
<1>4. \A p, q \in 1..Len(ts) : p < q =>
        \E i, k \in 1..Len(ss) : \E j \in 1..Len(ss[i]), l \in 1..Len(ss[k]) :
          /\ ts[p] = ss[i][j] /\ ts[q] = ss[k][l]
          /\ i < k \/ (i = k /\ j < l)
  <2>1. ss \in Seq(Seq(EventTransition))
    BY <1>1
  <2>2. InOrder(ts, ss)
    BY <2>1, FlatOrder
  <2> QED
    BY <2>2 DEF InOrder
<1> HIDE DEF ts
<1>5. \A t \in EventTransition : t \in Transition /\ IsEvent(t) /\ Rank(t) = t.index
                                 /\ t.block \in Nat
  <2> TAKE t \in EventTransition
  <2>1. t \in Transition /\ t.id \in Event
    BY DEF Transition, EventTransition
  <2>2. IsEvent(t)
    BY <2>1, FeedAssumption DEF IsEvent, Event
  <2> QED
    BY <2>1, <2>2, TransitionFacts
<1>6. ts \in Seq(Transition)
  BY <1>3, <1>5
<1>7. Ordered(ts)
  <2> SUFFICES ASSUME NEW p \in 1..Len(ts), NEW q \in 1..Len(ts), p < q
               PROVE  Later(ts[q], ts[p].block, Rank(ts[p]))
    BY DEF Ordered
  <2>1. PICK i \in 1..Len(ss), k \in 1..Len(ss) :
          \E j \in 1..Len(ss[i]), l \in 1..Len(ss[k]) :
            /\ ts[p] = ss[i][j] /\ ts[q] = ss[k][l]
            /\ i < k \/ (i = k /\ j < l)
    BY <1>4
  <2>0. i \in 1..Len(bs) /\ k \in 1..Len(bs)
    BY <1>1
  <2>2. PICK j \in 1..Len(ss[i]), l \in 1..Len(ss[k]) :
            /\ ts[p] = ss[i][j] /\ ts[q] = ss[k][l]
            /\ i < k \/ (i = k /\ j < l)
    BY <2>1
  <2>3. j \in 1..Len(answer[i]) /\ l \in 1..Len(answer[k])
    BY <1>2, <2>0, <2>2
  <2>4. /\ ts[p].block = bs[i].number /\ ts[q].block = bs[k].number
        /\ Rank(ts[p]) = answer[i][j].index /\ Rank(ts[q]) = answer[k][l].index
    BY <1>2, <1>5, <2>0, <2>2, <2>3
  <2>5. CASE i < k
    <3>1. bs[i].number < bs[k].number
      BY <2>0, <2>5
    <3> QED
      BY <2>4, <3>1 DEF Later
  <2>6. CASE i = k /\ j < l
    <3>1. answer[i][j].index < answer[i][l].index
      BY <2>0, <2>3, <2>6 DEF Fair
    <3> QED
      BY <2>4, <2>6, <3>1 DEF Later
  <2> QED
    BY <2>2, <2>5, <2>6
<1>8. ASSUME NEW t \in ToSet(ts)
      PROVE  /\ IsEvent(t) /\ t.index >= 1
             /\ \E i \in 1..Len(bs) : \E l \in ToSet(answer[i]) : t = EventOf(bs[i], l)
             /\ \E i \in 1..Len(bs) : t.block = bs[i].number
  <2>1. PICK i \in 1..Len(bs) : t \in ToSet(ss[i])
    BY <1>1, <1>3, <1>8
  <2>2. PICK j \in 1..Len(ss[i]) : ss[i][j] = t
    <3> DEFINE e == ss[i]
    <3>1. e \in Seq(EventTransition) /\ t \in ToSet(e)
      BY <1>2, <2>1
    <3> HIDE DEF e
    <3>2. \E j \in 1..Len(e) : e[j] = t
      BY <3>1, ToSetPlaces
    <3> QED
      BY <3>2 DEF e
  <2>3. j \in 1..Len(answer[i])
    BY <1>2, <2>2
  <2>4. t.block = bs[i].number /\ t.index = answer[i][j].index /\ IsEvent(t)
    BY <1>2, <1>5, <2>2, <2>3
  <2>5. answer[i][j] \in ToSet(bs[i].logs)
    BY <1>1, <2>3, ToSetPlaces DEF Fair
  <2>6. bs[i].logs \in LogList
    BY <1>1, HeaderFacts
  <2>7. answer[i][j].index >= 1
    <3> DEFINE lg == bs[i].logs
               x == answer[i][j]
    <3>1. lg \in Seq(Log) /\ \A m \in 1..Len(lg) : lg[m].index = m
      BY <2>6, LogListFacts
    <3>2. x \in ToSet(lg)
      BY <2>5
    <3> HIDE DEF lg, x
    <3>3. \E m \in 1..Len(lg) : lg[m] = x
      BY <3>1, <3>2, ToSetPlaces
    <3>4. x.index \in Nat /\ x.index >= 1
      BY <3>1, <3>3
    <3> QED
      BY <3>4 DEF x
  <2>8. t = EventOf(bs[i], answer[i][j])
    <3>1. t = EventsOf(bs[i], answer[i])[j]
      BY <1>1, <2>2
    <3> QED
      BY <2>3, <3>1 DEF EventsOf, EventOf
  <2>9. answer[i][j] \in ToSet(answer[i])
    BY <1>1, <2>3, ToSetPlaces
  <2> QED
    BY <2>4, <2>7, <2>8, <2>9
<1>9. ASSUME NEW i \in 1..Len(bs), NEW l \in ToSet(answer[i])
      PROVE  EventOf(bs[i], l) \in ToSet(ts)
  <2>1. PICK j \in 1..Len(answer[i]) : answer[i][j] = l
    BY <1>1, ToSetPlaces
  <2>2. EventOf(bs[i], l) = EventsOf(bs[i], answer[i])[j]
    BY <2>1 DEF EventOf, EventsOf
  <2>3. EventOf(bs[i], l) = ss[i][j] /\ j \in 1..Len(ss[i]) /\ ss[i] \in Seq(EventTransition)
    BY <1>1, <1>2, <2>2
  <2>4. EventOf(bs[i], l) \in ToSet(ss[i])
    BY <2>3, ToSetPlaces
  <2> QED
    BY <1>1, <1>3, <2>4
<1> QED
  BY <1>6, <1>7, <1>8, <1>9 DEF ts, ss

LEMMA ParsedOrdered ==
  ASSUME NEW ts \in Seq(Transition), Ordered(ts)
  PROVE  /\ Parsed(ts) \in Seq(Transition) /\ Ordered(Parsed(ts))
         /\ ToSet(Parsed(ts)) \subseteq ToSet(ts)
         /\ \A t \in ToSet(ts) :
              \/ t \in ToSet(Parsed(ts))
              \/ \E u \in ToSet(ts) :
                   u.id \in Malformed /\ (u = t \/ Later(t, u.block, Rank(u)))
<1> DEFINE p == Parsed(ts)
<1>1. PICK n \in 0..Len(ts) :
        /\ p \in Seq(Transition) /\ Len(p) = n
        /\ \A i \in 1..n : i \in 1..Len(ts) /\ p[i] = ts[i]
        /\ n < Len(ts) => ts[n + 1].id \in Malformed
  BY ParsedFacts
<1> HIDE DEF p
<1>2. Ordered(p)
  BY <1>1 DEF Ordered
<1>3. ASSUME NEW t \in ToSet(p) PROVE t \in ToSet(ts)
  <2>1. PICK i \in 1..n : p[i] = t
    BY <1>1, <1>3, ToSetPlaces
  <2>2. i \in 1..Len(ts) /\ ts[i] = t
    BY <1>1, <2>1
  <2> QED
    BY <2>2, ToSetPlaces
<1>4. ASSUME NEW t \in ToSet(ts), t \notin ToSet(p)
      PROVE  \E u \in ToSet(ts) :
                   u.id \in Malformed /\ (u = t \/ Later(t, u.block, Rank(u)))
  <2>1. PICK q \in 1..Len(ts) : ts[q] = t
    BY ToSetPlaces
  <2>2. q \notin 1..n
    <3> SUFFICES ASSUME q \in 1..n PROVE FALSE
      OBVIOUS
    <3>1. p[q] = t /\ q \in 1..Len(p)
      BY <1>1, <2>1
    <3> QED
      BY <1>1, <1>4, <3>1, ToSetPlaces
  <2>3. n < Len(ts) /\ n + 1 \in 1..Len(ts) /\ (n + 1 = q \/ n + 1 < q)
    BY <2>1, <2>2
  <2>4. ts[n + 1] \in ToSet(ts) /\ ts[n + 1].id \in Malformed
    BY <1>1, <2>3, ToSetPlaces
  <2>5. ts[n + 1] = t \/ Later(t, ts[n + 1].block, Rank(ts[n + 1]))
    BY <2>1, <2>3 DEF Ordered
  <2> QED
    BY <2>4, <2>5
<1> QED
  BY <1>1, <1>2, <1>3, <1>4 DEF p

LEMMA UnreadEvent ==
  ASSUME chain \in Seq(Header), NEW n \in 1..Height, NEW k \in 1..n, n < k + BlockPageSize,
         NEW l \in ToSet(chain[n].logs), NEW o \in ToSet(chain[k].logs),
         o.event \in Malformed, k < n \/ o.index <= l.index
  PROVE  EventOf(chain[n], l) \in Unread
<1> DEFINE b == chain[n]
           s == b.logs
           e == EventsOf(b, s)
<1>1. b \in Header /\ s \in Seq(Log)
  <2>1. b \in Header
    BY DEF Height
  <2> QED
    BY <2>1, HeaderFacts, LogListFacts
<1>2. l \in ToSet(s)
  OBVIOUS
<1>3. e \in Seq(EventTransition) /\ Len(e) = Len(s)
  BY <1>1, EventsOfFacts
<1>4. \A j \in 1..Len(s) : e[j] = EventOf(b, s[j])
  BY DEF EventsOf, EventOf
<1> HIDE DEF b, s, e
<1>5. PICK j \in 1..Len(s) : s[j] = l
  BY <1>1, <1>2, ToSetPlaces
<1>6. EventOf(b, l) \in ToSet(e)
  <2>1. e[j] = EventOf(b, l) /\ j \in 1..Len(e)
    BY <1>3, <1>4, <1>5
  <2> QED
    BY <1>3, <2>1, ToSetPlaces
<1>7. EventOf(b, l).index = l.index
  BY DEF EventOf
<1> QED
  BY <1>6, <1>7 DEF Unread, b, s, e

\* Block b is reported once the catchup is over; no logs are waited for.
Reports(b) ==
  /\ OnUpdate(NewBlock(b)) /\ Len(got) = Len(view)
  /\ view = <<>> => b.number = Floor + 1

LEMMA QueuedReport ==
  ASSUME WatcherInv, CaughtUp, NextQueued
  PROVE  /\ pc = "running" /\ pc' = "running" /\ CaughtUp' /\ failures' = failures
         /\ UNCHANGED node /\ \E b \in Header : Reports(b)
<1> DEFINE n == Len(view)
           c == Len(blocks)
<1>1. /\ pc = "running" /\ pc' = "running" /\ step = Idle /\ queue # <<>> /\ failures' = failures
      /\ queue' = Tail(queue) /\ OnUpdate(Head(queue)) /\ UNCHANGED node
  BY DEF NextQueued
<1>2. Following
  BY <1>1, NewsQueued
<1>3. /\ NodeOK /\ ViewAt(view, got, lastIndexed) /\ LoadedAt(Floor, blocks, lastIndexed)
  BY <1>1, RunningFacts
<1>4. PICK m \in 0..c : FollowsAt(m, Floor, blocks, queue, view, got, step)
  BY <1>2 DEF Following
<1>5. queue = News(blocks, m) /\ n >= m /\ StepAt(m, Floor, view, got, Idle)
  BY <1>1, <1>4 DEF FollowsAt
<1>6. /\ Floor \in Nat /\ blocks \in Seq(Header) /\ c \in Nat /\ n \in Nat /\ m \in Nat /\ m <= c
      /\ \A i \in 1..c : blocks[i] \in Header /\ blocks[i].number = Floor + i
  BY <1>3, <1>4, LoadedFacts, ViewFacts
<1>7. m < c
  <2>1. m = c => queue = <<>>
    BY <1>5, <1>6, NewsFacts
  <2> QED
    BY <1>1, <1>6, <2>1
<1> DEFINE b == blocks[m + 1]
<1>8. Head(queue) = NewBlock(b) /\ queue' = News(blocks, m + 1)
  BY <1>1, <1>5, <1>6, <1>7, NewsFacts
<1>9. m + 1 \in 1..c /\ m + 1 \in 0..c
  BY <1>6, <1>7
<1>10. b \in Header /\ b.number = Floor + (m + 1)
  BY <1>6, <1>9
<1>11. Len(got) = Len(view)
  BY <1>5, IdleStep
<1>12. view = <<>> => m = 0
  BY <1>5, <1>6
<1>13. CaughtUp'
  <2>1. CASE m + 1 = c
    <3>1. queue' = <<>>
      BY <1>6, <1>8, <1>9, <2>1, NewsFacts
    <3> QED
      BY <3>1 DEF CaughtUp
  <2>2. CASE m + 1 < c
    <3>1. \E x : Head(queue') = NewBlock(x)
      BY <1>6, <1>8, <1>9, <2>2, NewsFacts
    <3> QED
      BY <3>1 DEF CaughtUp, NewBlock
  <2> QED
    BY <1>6, <1>9, <2>1, <2>2
<1>14. Reports(b)
  <2>1. OnUpdate(NewBlock(b))
    BY <1>1, <1>8
  <2>2. view = <<>> => b.number = Floor + 1
    <3> HAVE view = <<>>
    <3>1. m = 0
      BY <1>12
    <3>2. m + 1 = 1
      BY <3>1
    <3> QED
      BY <1>10, <3>2
  <2> HIDE DEF b
  <2> QED
    BY <1>11, <2>1, <2>2 DEF Reports
<1> QED
  BY <1>1, <1>10, <1>13, <1>14

LEMMA PendingReport ==
  ASSUME WatcherInv, Unforked, NextPending
  PROVE  /\ pc = "running" /\ pc' = "running" /\ CaughtUp' /\ failures' = failures
         /\ UNCHANGED node /\ \E b \in Header : Reports(b)
<1> DEFINE n == Len(view)
           c == Len(blocks)
           b == chain[pending]
<1>1. /\ pc = "running" /\ step = Idle /\ queue = <<>> /\ queue' = queue /\ pending <= Height
      /\ pc' = pc /\ failures' = failures /\ UNCHANGED node
      /\ (blocks # <<>> /\ Last(blocks).fork # b.parent) \/ OnUpdate(NewBlock(b))
  BY DEF NextPending
<1>2. FollowsAt(c, Floor, blocks, queue, view, got, step)
  BY <1>1, PendingFacts
<1>3. /\ NodeOK /\ ViewAt(view, got, lastIndexed) /\ LoadedAt(Floor, blocks, lastIndexed)
      /\ pending \in Nat \ {0} /\ pending = Floor + c + 1
  BY <1>1, RunningFacts
<1>4. /\ Floor \in Nat /\ blocks \in Seq(Header) /\ c \in Nat /\ n \in Nat /\ Height \in Nat
      /\ \A i \in 1..c : blocks[i] \in Header /\ blocks[i].number = Floor + i
  BY <1>3, LoadedFacts, ViewFacts, Heights
<1>5. /\ n >= c /\ StepAt(c, Floor, view, got, Idle)
      /\ \A i \in 1..c : view[n - c + i] = blocks[i]
  BY <1>1, <1>2 DEF FollowsAt
<1>6. pending \in 1..Height
  BY <1>1, <1>3, <1>4
<1>7. b \in Header /\ b.number = pending
  BY <1>3, <1>6, ChainFacts
<1>8. OnUpdate(NewBlock(b))
  <2> SUFFICES ASSUME blocks # <<>> PROVE Last(blocks).fork = b.parent
    BY <1>1
  <2>1. c >= 1 /\ c \in 1..c /\ n \in 1..n
    BY <1>4, <1>5
  <2>2. view[n] = blocks[c]
    <3>1. n - c + c = n
      BY <1>4
    <3> QED
      BY <1>5, <2>1, <3>1
  <2>3. chain[view[n].number] = view[n]
    BY <2>1, ViewOnChain
  <2>4. view[n].number = pending - 1
    BY <1>3, <1>4, <2>1, <2>2
  <2>5. pending \in 2..Height
    BY <1>3, <1>4, <1>6, <2>1
  <2>6. b.parent = chain[pending - 1].fork
    BY <1>3, <2>5 DEF NodeOK
  <2>7. Last(blocks) = blocks[c]
    BY DEF Last
  <2> QED
    BY <2>2, <2>3, <2>4, <2>6, <2>7
<1>9. Len(got) = Len(view)
  BY <1>5, IdleStep
<1>10. view = <<>> => b.number = Floor + 1
  <2> HAVE view = <<>>
  <2>1. c = 0
    BY <1>4, <1>5
  <2> QED
    BY <1>3, <1>4, <1>7, <2>1
<1>11. Reports(b)
  <2> HIDE DEF b
  <2> QED
    BY <1>8, <1>9, <1>10 DEF Reports
<1>12. CaughtUp'
  BY <1>1 DEF CaughtUp
<1> QED
  BY <1>1, <1>7, <1>11, <1>12

LEMMA ViewNext ==
  ASSUME WatcherInv'
  PROVE  /\ view' \in Seq(Header) /\ Len(view') \in Nat
         /\ got' \in Seq(Seq(Log)) /\ Len(got') \in Nat /\ Len(got') <= Len(view')
         /\ lastIndexed' \in Nat
         /\ \A i \in 1..Len(view') :
              /\ view'[i] \in Header /\ view'[i].number \in Nat /\ view'[i].number >= 1
              /\ view'[i].number = view'[1].number + (i - 1)
<1>1. /\ Piece(chain', top', reorgs', view') /\ got' \in Seq(Seq(Log)) /\ Len(got') <= Len(view')
      /\ lastIndexed' \in 0..top'
  BY DEF WatcherInv, ViewAt, PieceNow
<1>2. top' \in Nat
  <2>1. top' \in Height'..MaxHeight /\ Height' \in 1..MaxHeight
    BY DEF WatcherInv, NodeOK
  <2>2. MaxHeight \in Nat
    BY WatcherAssumption
  <2> QED
    BY <2>1, <2>2
<1>3. lastIndexed' \in Nat
  BY <1>1, <1>2
<1>4. Len(got') \in Nat
  BY <1>1
<1> DEFINE v == view'
           c == chain'
           t == top'
           r == reorgs'
<1>9. Piece(c, t, r, v) /\ t \in Nat
  BY <1>1, <1>2
<1> HIDE DEF v, c, t, r
<1>5. /\ v \in Seq(Header) /\ Len(v) \in Nat
      /\ \A i \in 1..Len(v) :
              /\ v[i] \in Header /\ v[i].number \in Nat /\ v[i].number >= 1
              /\ v[i].number = v[1].number + (i - 1)
  <2>1. v \in Seq(Header) /\ Len(v) \in Nat
    BY <1>9, PieceFacts
  <2>2. ASSUME NEW i \in 1..Len(v)
        PROVE  v[i] \in Header /\ v[i].number \in Nat /\ v[i].number >= 1
    BY <1>9, PieceFacts
  <2>3. ASSUME NEW i \in 1..Len(v)
        PROVE  v[i].number = v[1].number + (i - 1)
    <3>1. 1 \in 1..Len(v) /\ i \in Nat
      BY <2>1
    <3>2. \A p, q \in 1..Len(v) : v[q].number = v[p].number + (q - p)
      BY <1>9 DEF Piece
    <3> QED
      BY <3>1, <3>2
  <2> QED
    BY <2>1, <2>2, <2>3
<1>6. got' \in Seq(Seq(Log)) /\ Len(got') <= Len(view')
  BY <1>1
<1>7. \A i \in 1..Len(view') :
        /\ view'[i] \in Header /\ view'[i].number \in Nat /\ view'[i].number >= 1
        /\ view'[i].number = view'[1].number + (i - 1)
  BY <1>5 DEF v
<1>8. view' \in Seq(Header) /\ Len(view') \in Nat
  BY <1>5 DEF v
<1> QED
  BY <1>3, <1>4, <1>6, <1>7, <1>8

\* One more block: what was ahead is, and the block is.
LEMMA AheadNext ==
  ASSUME NEW v \in Seq(Header), NEW g, Len(g) = Len(v), NEW b \in Header,
         v # <<>> => b.number > v[Len(v)].number
  PROVE  /\ Ahead(Append(v, b), g, b.number, 0)
         /\ \A x, i \in Nat : Ahead(v, g, x, i) => x < b.number
         /\ \A x, i \in Nat : Ahead(v, g, x, i) => Ahead(Append(v, b), g, x, i)
<1> DEFINE w == Append(v, b)
           n == Len(v)
<1>0. n \in Nat
  OBVIOUS
<1>1. w # <<>> /\ Len(w) = n + 1 /\ w[n + 1] = b /\ n \in Nat
  <2>1. Len(w) = n + 1 /\ w[n + 1] = b /\ w \in Seq(Header)
    OBVIOUS
  <2> HIDE DEF w, n
  <2>2. w # <<>>
    BY <1>0, <2>1
  <2> QED
    BY <1>0, <2>1, <2>2
<1> HIDE DEF w
<1>2. b.number \in Nat /\ \A i \in 1..n : v[i].number \in Nat
  BY HeaderFacts
<1>3. Ahead(w, g, b.number, 0)
  BY <1>1, <1>2 DEF Ahead
<1>4. ASSUME NEW x \in Nat, NEW i \in Nat, Ahead(v, g, x, i)
      PROVE  x < b.number
  <2>1. v # <<>> /\ x <= v[n].number /\ n \in 1..n
    BY <1>1, <1>4 DEF Ahead
  <2> QED
    BY <1>2, <2>1
<1>5. ASSUME NEW x \in Nat, NEW i \in Nat, Ahead(v, g, x, i)
      PROVE  Ahead(w, g, x, i)
  <2>1. x < b.number
    BY <1>4, <1>5
  <2>2. x <= b.number
    BY <1>2, <2>1
  <2> QED
    BY <1>1, <2>1, <2>2 DEF Ahead
<1> QED
  BY <1>3, <1>4, <1>5 DEF w

LEMMA ReportHandsOver ==
  ASSUME WatcherInv, Unforked, WatcherInv', NEW b \in Header, Reports(b)
  PROVE  /\ HandsOver /\ view' = Append(view, b) /\ got' = got
         /\ b.number \in Nat /\ lastIndexed' = Most(lastIndexed, b.number)
<1> DEFINE n == Len(view)
           t0 == BlockNew(b.number)
           ts == <<t0>>
<1>1. /\ view' = Append(view, b) /\ got' = got /\ lastIndexed' = Most(lastIndexed, b.number)
      /\ Len(got) = Len(view)
  BY UpdateIs DEF Reports
<1>2. HandleTransitions(ts)
  BY DEF Reports, OnUpdate, NewBlock
<1>3. /\ lastIndexed \in Nat /\ view \in Seq(Header) /\ n \in Nat
      /\ \A i \in 1..n : view[i] \in Header
  BY ViewOnChain
<1>4. b.number \in Nat
  BY HeaderFacts
<1>5. t0 \in Transition /\ t0.block = b.number /\ Rank(t0) = 0
  BY <1>4, BlockNewFacts
<1>6. /\ view'[n + 1] = b /\ n + 1 \in 1..Len(view')
      /\ \A i \in 1..n : view'[i] = view[i] /\ i \in 1..Len(view')
  BY <1>1, <1>3
<1>7. b.number >= 1
  BY <1>6, ViewNext
<1>8. view # <<>> => b.number > view[n].number
  <2> HAVE view # <<>>
  <2>1. n \in 1..n
    BY <1>3
  <2>2. view'[n] = view[n] /\ n \in 1..Len(view')
    BY <1>6, <2>1
  <2>3. view'[n + 1].number = view'[1].number + ((n + 1) - 1)
    BY <1>6, ViewNext
  <2>4. view'[n].number = view'[1].number + (n - 1)
    BY <2>2, ViewNext
  <2>5. 1 \in 1..Len(view')
    BY <1>3, <1>6
  <2>6. view'[1].number \in Nat
    BY <2>5, ViewNext
  <2> QED
    BY <1>3, <1>6, <2>2, <2>3, <2>4, <2>6
<1> HIDE DEF t0
<1>9. ts \in Seq(Transition) /\ Ordered(ts) /\ ToSet(ts) = {t0}
  <2>1. ts \in Seq(Transition) /\ Len(ts) = 1 /\ ts[1] = t0
    BY <1>5
  <2>2. Ordered(ts)
    BY <2>1 DEF Ordered
  <2>3. ToSet(ts) = {t0}
    BY <2>1 DEF ToSet
  <2> QED
    BY <2>1, <2>2, <2>3
<1> HIDE DEF ts
<1>10. /\ out' \in Seq(Transition) /\ Ordered(out')
       /\ lastIndexed' \in Nat /\ lastIndexed' >= lastIndexed
       /\ ToSet(out') = {t \in ToSet(ts) : t.block >= lastIndexed}
       /\ \A t \in ToSet(ts) : t.block <= lastIndexed'
  BY <1>2, <1>3, <1>9, KeptOut
<1>11. /\ Ahead(view', got', b.number, 0)
       /\ \A x, i \in Nat : Ahead(view, got, x, i) => x < b.number
       /\ \A x, i \in Nat : Ahead(view, got, x, i) => Ahead(view', got', x, i)
  BY <1>1, <1>3, <1>8, AheadNext
<1>12. ASSUME NEW t \in ToSet(out')
       PROVE  /\ t.block \in lastIndexed..lastIndexed' /\ t.block # 0
              /\ Ahead(view', got', t.block, Rank(t))
              /\ \A x, i \in Nat : Ahead(view, got, x, i) => Later(t, x, i)
  <2>1. t = t0 /\ t.block >= lastIndexed /\ t.block <= lastIndexed'
    BY <1>9, <1>10, <1>12
  <2>2. t.block = b.number /\ Rank(t) = 0
    BY <1>5, <2>1
  <2>3. t.block \in lastIndexed..lastIndexed' /\ t.block # 0
    <3> DEFINE x == t.block
    <3>1. x \in Nat /\ x >= lastIndexed /\ x <= lastIndexed' /\ x >= 1
      BY <1>4, <1>7, <2>1, <2>2
    <3> HIDE DEF x
    <3> QED
      BY <1>3, <1>10, <3>1 DEF x
  <2>4. Ahead(view', got', t.block, Rank(t))
    BY <1>11, <2>2
  <2>5. \A x, i \in Nat : Ahead(view, got, x, i) => Later(t, x, i)
    <3> TAKE x, i \in Nat
    <3> HAVE Ahead(view, got, x, i)
    <3>1. x < b.number
      BY <1>11
    <3>2. t.block > x
      BY <1>4, <2>2, <3>1
    <3> QED
      BY <3>2 DEF Later
  <2> QED
    BY <2>3, <2>4, <2>5
<1>13. HandsOver
  BY <1>10, <1>11, <1>12 DEF HandsOver
<1> QED
  BY <1>1, <1>4, <1>13

Rising(v) == \A i, j \in 1..Len(v) : v[j].number = v[i].number + (j - i)

\* Logs for m more blocks: what was ahead is, and so are these logs.
LEMMA AheadLogs ==
  ASSUME NEW v \in Seq(Header), Rising(v), NEW g, NEW h, NEW m \in Nat, m >= 1,
         Len(g) \in Nat, Len(h) = Len(g) + m, Len(h) <= Len(v)
  PROVE  /\ \A i \in 1..m : \A p \in Nat : p >= 1 =>
              Ahead(v, h, v[Len(g) + i].number, p)
         /\ \A i \in 1..m : \A x, p \in Nat : Ahead(v, g, x, p) =>
              \/ v[Len(g) + i].number > x
              \/ v[Len(g) + i].number = x /\ p = 0
         /\ \A x, p \in Nat : Ahead(v, g, x, p) => Ahead(v, h, x, p)
<1> DEFINE n == Len(v)
           k == Len(g)
<1>1. n \in Nat /\ k \in Nat /\ k < n /\ v # <<>> /\ \A i \in 1..n : v[i].number \in Nat
  <2>1. n \in Nat /\ k \in Nat /\ \A i \in 1..n : v[i].number \in Nat
    BY HeaderFacts
  <2>2. k < n
    BY <2>1
  <2> QED
    BY <2>1, <2>2
<1>2. Len(h) = k + m /\ k + m <= n /\ Len(g) = k
  OBVIOUS
<1> DEFINE x0 == v[1].number
<1>3. \A i \in 1..n : v[i].number = x0 + (i - 1)
  <2> TAKE i \in 1..n
  <2>1. 1 \in 1..n
    BY <1>1
  <2> QED
    BY <2>1 DEF Rising
<1>4. x0 \in Nat
  BY <1>1
<1> HIDE DEF x0, n, k
<1>0. \A i : i \in 1..n => v[i].number = x0 + (i - 1)
  BY <1>3
<1>5. \A i \in 1..m : k + i \in 1..n /\ k + i <= k + m
  BY <1>1, <1>2
<1>6. n \in 1..n /\ k + 1 \in 1..n
  BY <1>1
<1>7. ASSUME NEW i \in 1..m, NEW p \in Nat, p >= 1
      PROVE  Ahead(v, h, v[k + i].number, p)
  <2>1. v[k + i].number <= v[n].number
    <3>1. v[k + i].number = x0 + ((k + i) - 1)
      BY <1>0, <1>5
    <3>2. v[n].number = x0 + (n - 1)
      BY <1>0, <1>6
    <3> QED
      BY <1>1, <1>4, <1>5, <3>1, <3>2
  <2>2. k + m < n => v[k + i].number < v[k + m + 1].number
    <3> HAVE k + m < n
    <3>1. k + m + 1 \in 1..n
      BY <1>1
    <3>2. v[k + m + 1].number = x0 + ((k + m + 1) - 1)
      BY <1>0, <3>1
    <3>3. v[k + i].number = x0 + ((k + i) - 1)
      BY <1>0, <1>5
    <3> QED
      BY <1>1, <1>4, <3>2, <3>3
  <2> QED
    BY <1>1, <1>2, <2>1, <2>2 DEF Ahead, n
<1>8. ASSUME NEW x \in Nat, NEW p \in Nat, Ahead(v, g, x, p)
      PROVE  /\ x <= v[n].number
             /\ x < v[k + 1].number \/ (x = v[k + 1].number /\ p = 0)
  BY <1>1, <1>8 DEF Ahead, n, k
<1>9. ASSUME NEW i \in 1..m, NEW x \in Nat, NEW p \in Nat, Ahead(v, g, x, p)
      PROVE  \/ v[k + i].number > x
             \/ v[k + i].number = x /\ p = 0
  <2>1. x < v[k + 1].number \/ (x = v[k + 1].number /\ p = 0)
    BY <1>8, <1>9
  <2>2. v[k + i].number = x0 + ((k + i) - 1)
    BY <1>0, <1>5
  <2>3. v[k + 1].number = x0 + ((k + 1) - 1)
    BY <1>0, <1>6
  <2> QED
    BY <1>1, <1>4, <2>1, <2>2, <2>3
<1>10. ASSUME NEW x \in Nat, NEW p \in Nat, Ahead(v, g, x, p)
       PROVE  Ahead(v, h, x, p)
  <2>1. x <= v[n].number /\ x <= v[k + 1].number
    BY <1>1, <1>6, <1>8, <1>10
  <2>2. k + m < n => x < v[k + m + 1].number
    <3> HAVE k + m < n
    <3>1. k + m + 1 \in 1..n
      BY <1>1
    <3>2. v[k + m + 1].number = x0 + ((k + m + 1) - 1)
      BY <1>0, <3>1
    <3>3. v[k + 1].number = x0 + ((k + 1) - 1)
      BY <1>0, <1>6
    <3> QED
      BY <1>1, <1>4, <2>1, <3>2, <3>3
  <2> QED
    BY <1>1, <1>2, <2>1, <2>2 DEF Ahead, n
<1> QED
  BY <1>7, <1>9, <1>10 DEF k

\* The logs in the answer are handed over for the next blocks of the view, bs.
HandsLogs(bs, answer) ==
  /\ bs \in Seq(Header) /\ Len(bs) >= 1 /\ Len(got) + Len(bs) <= Len(view)
  /\ Len(bs) <= BlockPageSize
  /\ \A i \in 1..Len(bs) : bs[i] = view[Len(got) + i]
  /\ answer \in Seq(Seq(Log)) /\ Len(answer) = Len(bs)
  /\ \A i \in 1..Len(bs) : Fair(bs[i].logs, answer[i])
  /\ HandOver(bs, answer)

LEMMA LogsHandOver ==
  ASSUME WatcherInv, Unforked, NEW bs, NEW answer, HandsLogs(bs, answer)
  PROVE  /\ HandsOver /\ view' = view /\ got' = got \o answer
         /\ \A i \in 1..Len(bs) : \A l \in ToSet(answer[i]) :
              bs[i].number >= lastIndexed => EventOf(bs[i], l) \in ToSet(out') \cup Unread
         /\ lastIndexed' = lastIndexed \/ \E i \in 1..Len(bs) : lastIndexed' = bs[i].number
<1> DEFINE n == Len(view)
           k == Len(got)
           m == Len(bs)
           all == FlattenSeq(EventsIn(bs, answer))
           ts == Parsed(all)
<1>1. /\ bs \in Seq(Header) /\ m >= 1 /\ k + m <= n
      /\ \A i \in 1..m : bs[i] = view[k + i]
      /\ answer \in Seq(Seq(Log)) /\ Len(answer) = m
      /\ \A i \in 1..m : Fair(bs[i].logs, answer[i])
      /\ HandOver(bs, answer) /\ m <= BlockPageSize
  BY DEF HandsLogs
<1>2. /\ view' = view /\ got' = got \o answer /\ HandleTransitions(ts)
  BY <1>1 DEF HandOver, EventsIn
<1>3. /\ view \in Seq(Header) /\ n \in Nat /\ k \in Nat /\ m \in Nat /\ lastIndexed \in Nat
      /\ got \in Seq(Seq(Log)) /\ Rising(view)
      /\ \A i \in 1..n : view[i].number \in Nat /\ view[i].number >= 1
  BY <1>1, ViewOnChain DEF Rising
<1>4. Len(got') = k + m
  <2> DEFINE S == Seq(Log)
  <2>0. got \in Seq(S) /\ answer \in Seq(S)
    BY <1>1, <1>3
  <2> HIDE DEF S
  <2>1. Len(got \o answer) = Len(got) + Len(answer)
    BY <2>0, ConcatPlaces
  <2> QED
    BY <1>1, <1>2, <2>1
<1>5. \A i \in 1..m : k + i \in 1..n
  BY <1>1, <1>3
<1>6. \A i, j \in 1..m : i < j => bs[i].number < bs[j].number
  <2> TAKE i, j \in 1..m
  <2> HAVE i < j
  <2>1. k + i \in 1..n /\ k + j \in 1..n
    BY <1>5
  <2>2. view[k + j].number = view[k + i].number + ((k + j) - (k + i))
    BY <1>3, <2>1 DEF Rising
  <2>3. view[k + i].number \in Nat
    BY <1>3, <2>1
  <2>4. view[k + j].number > view[k + i].number
    BY <1>3, <2>2, <2>3
  <2> QED
    BY <1>1, <1>3, <2>1, <2>4
<1> HIDE DEF all
<1>15. /\ all \in Seq(Transition) /\ Ordered(all)
       /\ \A t \in ToSet(all) :
            /\ IsEvent(t) /\ t.index >= 1
            /\ \E i \in 1..m : \E l \in ToSet(answer[i]) : t = EventOf(bs[i], l)
            /\ \E i \in 1..m : t.block = bs[i].number
       /\ \A i \in 1..m : \A l \in ToSet(answer[i]) : EventOf(bs[i], l) \in ToSet(all)
  <2>1. LET us == FlattenSeq(EventsIn(bs, answer))
         IN  /\ us \in Seq(Transition) /\ Ordered(us)
             /\ \A t \in ToSet(us) :
                  /\ IsEvent(t) /\ t.index >= 1
                  /\ \E i \in 1..Len(bs) : \E l \in ToSet(answer[i]) : t = EventOf(bs[i], l)
                  /\ \E i \in 1..Len(bs) : t.block = bs[i].number
             /\ \A i \in 1..Len(bs) : \A l \in ToSet(answer[i]) : EventOf(bs[i], l) \in ToSet(us)
    BY <1>1, <1>6, EventsOrdered
  <2> QED
    BY <2>1 DEF all
<1>16. /\ ts \in Seq(Transition) /\ Ordered(ts) /\ ToSet(ts) \subseteq ToSet(all)
       /\ \A t \in ToSet(all) :
            \/ t \in ToSet(ts)
            \/ \E u \in ToSet(all) :
                   u.id \in Malformed /\ (u = t \/ Later(t, u.block, Rank(u)))
  BY <1>15, ParsedOrdered
<1> HIDE DEF ts
<1>7. /\ ts \in Seq(Transition) /\ Ordered(ts)
      /\ \A t \in ToSet(ts) :
           /\ IsEvent(t) /\ t.index >= 1
           /\ \E i \in 1..m : t.block = bs[i].number
  BY <1>15, <1>16
<1>8. /\ out' \in Seq(Transition) /\ Ordered(out')
      /\ lastIndexed' \in Nat /\ lastIndexed' >= lastIndexed
      /\ ToSet(out') = {t \in ToSet(ts) : t.block >= lastIndexed}
      /\ \A t \in ToSet(ts) : t.block <= lastIndexed'
      /\ lastIndexed' = lastIndexed \/ \E t \in ToSet(ts) : lastIndexed' = t.block
  BY <1>2, <1>3, <1>7, KeptOut
<1>9. /\ \A i \in 1..m : \A p \in Nat : p >= 1 =>
           Ahead(view, got', view[k + i].number, p)
      /\ \A i \in 1..m : \A x, p \in Nat : Ahead(view, got, x, p) =>
           \/ view[k + i].number > x
           \/ view[k + i].number = x /\ p = 0
      /\ \A x, p \in Nat : Ahead(view, got, x, p) => Ahead(view, got', x, p)
  <2> HIDE DEF m
  <2>1. Len(got) \in Nat /\ Len(got') = Len(got) + m /\ Len(got') <= Len(view)
    BY <1>1, <1>3, <1>4
  <2>2. \A i \in 1..m : \A p \in Nat : p >= 1 =>
          Ahead(view, got', view[Len(got) + i].number, p)
    BY <1>1, <1>3, <2>1, AheadLogs
  <2>3. \A i \in 1..m : \A x, p \in Nat : Ahead(view, got, x, p) =>
           \/ view[Len(got) + i].number > x
           \/ view[Len(got) + i].number = x /\ p = 0
    BY <1>1, <1>3, <2>1, AheadLogs
  <2>4. \A x, p \in Nat : Ahead(view, got, x, p) => Ahead(view, got', x, p)
    BY <1>1, <1>3, <2>1, AheadLogs
  <2> QED
    BY <2>2, <2>3, <2>4
<1>10. ASSUME NEW t \in ToSet(out')
       PROVE  /\ t.block \in lastIndexed..lastIndexed' /\ t.block # 0
              /\ Ahead(view', got', t.block, Rank(t))
              /\ \A x, p \in Nat : Ahead(view, got, x, p) => Later(t, x, p)
  <2>1. t \in ToSet(ts) /\ t.block >= lastIndexed /\ t.block <= lastIndexed'
    BY <1>8, <1>10
  <2>2. PICK i \in 1..m : t.block = bs[i].number
    BY <1>7, <2>1
  <2>3. t \in Transition /\ IsEvent(t) /\ t.index >= 1
    BY <1>7, <2>1, ToSetPlaces
  <2>4. Rank(t) \in Nat /\ Rank(t) >= 1 /\ t.block \in Nat
    BY <2>3, TransitionFacts
  <2>5. t.block = view[k + i].number /\ k + i \in 1..n
    BY <1>1, <1>5, <2>2
  <2>6. t.block # 0
    BY <1>3, <2>4, <2>5
  <2>7. Ahead(view', got', t.block, Rank(t))
    BY <1>2, <1>9, <2>4, <2>5
  <2>8. \A x, p \in Nat : Ahead(view, got, x, p) => Later(t, x, p)
    <3> TAKE x, p \in Nat
    <3> HAVE Ahead(view, got, x, p)
    <3>1. t.block > x \/ (t.block = x /\ p = 0)
      BY <1>9, <2>5
    <3>2. p = 0 => Rank(t) > p
      BY <2>4
    <3> QED
      BY <3>1, <3>2 DEF Later
  <2>9. t.block \in lastIndexed..lastIndexed'
    <3> DEFINE x == t.block
    <3>1. x \in Nat /\ x >= lastIndexed /\ x <= lastIndexed'
      BY <2>1, <2>4
    <3> HIDE DEF x
    <3> QED
      BY <1>3, <1>8, <3>1 DEF x
  <2> QED
    BY <2>6, <2>7, <2>8, <2>9
<1>11. \A x, p \in Nat : Ahead(view, got, x, p) => Ahead(view', got', x, p)
  BY <1>2, <1>9
<1>12. HandsOver
  BY <1>8, <1>10, <1>11 DEF HandsOver
<1>17. ASSUME NEW i \in 1..m, NEW l \in ToSet(answer[i]), EventOf(bs[i], l) \notin ToSet(ts)
       PROVE  EventOf(bs[i], l) \in Unread
  <2> DEFINE t == EventOf(bs[i], l)
  <2>1. t \in ToSet(all)
    BY <1>15
  <2>0. t \notin ToSet(ts)
    BY <1>17
  <2> HIDE DEF t
  <2>2. PICK u \in ToSet(all) : u.id \in Malformed /\ (u = t \/ Later(t, u.block, Rank(u)))
    BY <1>16, <2>0, <2>1
  <2>3. PICK j \in 1..m : \E o \in ToSet(answer[j]) : u = EventOf(bs[j], o)
    BY <1>15
  <2>4. PICK o \in ToSet(answer[j]) : u = EventOf(bs[j], o)
    BY <2>3
  <2>5. /\ bs[i] \in Header /\ bs[j] \in Header
        /\ bs[i] = view[k + i] /\ bs[j] = view[k + j]
        /\ k + i \in 1..n /\ k + j \in 1..n
    <3>1. bs[i] \in Header /\ bs[j] \in Header
      BY <1>1
    <3> HIDE DEF m, k, n
    <3> QED
      BY <1>1, <1>5, <3>1
  <2>6. /\ l \in ToSet(bs[i].logs) /\ o \in ToSet(bs[j].logs)
        /\ answer[i] \in Seq(Log) /\ answer[j] \in Seq(Log)
    BY <1>1 DEF Fair
  <2>7. l \in Log /\ o \in Log
    BY <2>6, ToSetPlaces
  <2>8. /\ t.block = bs[i].number /\ Rank(t) = l.index
        /\ u.block = bs[j].number /\ Rank(u) = o.index /\ u.id = o.event
    <3>1. /\ IsEvent(t) /\ t.block = bs[i].number /\ t.index = l.index
      BY <2>5, <2>7, EventOfFacts DEF t
    <3>2. /\ IsEvent(u) /\ u.block = bs[j].number /\ u.id = o.event /\ u.index = o.index
      BY <2>4, <2>5, <2>7, EventOfFacts
    <3> QED
      BY <3>1, <3>2 DEF Rank
  <2> DEFINE x == bs[i].number
             y == bs[j].number
  <2>9. /\ x \in Nat /\ y \in Nat /\ x >= 1 /\ y >= 1 /\ x <= Height
        /\ chain[x] = bs[i] /\ chain[y] = bs[j] /\ x = y + (i - j)
    <3>1. \A h \in 1..n : /\ view[h].number \in Nat /\ view[h].number >= 1
                          /\ view[h].number <= Height /\ chain[view[h].number] = view[h]
      BY ViewOnChain
    <3>2. view[k + i].number = view[k + j].number + ((k + i) - (k + j))
      BY <1>3, <2>5 DEF Rising
    <3>3. (k + i) - (k + j) = i - j
      BY <1>3
    <3> QED
      BY <2>5, <3>1, <3>2, <3>3
  <2>10. x >= y /\ (y < x \/ o.index <= l.index)
    <3>1. CASE u = t
      <4>1. x = y /\ Rank(u) = Rank(t)
        BY <2>8, <3>1
      <4>2. o.index = l.index /\ o.index \in Nat
        BY <2>7, <2>8, <4>1 DEF Log
      <4> QED
        BY <2>9, <4>1, <4>2
    <3>2. CASE Later(t, u.block, Rank(u))
      <4>1. x > y \/ (x = y /\ l.index > o.index)
        BY <2>8, <3>2 DEF Later
      <4>2. l.index \in Nat /\ o.index \in Nat
        BY <2>7 DEF Log
      <4> QED
        BY <2>9, <4>1, <4>2
    <3> QED
      BY <2>2, <3>1, <3>2
  <2>11. o.event \in Malformed
    BY <2>2, <2>8
  <2>12. chain \in Seq(Header) /\ Height \in Nat
    BY ViewOnChain
  <2>13. l \in ToSet(chain[x].logs) /\ o \in ToSet(chain[y].logs)
    BY <2>6, <2>9
  <2> HIDE DEF x, y, t
  <2>14. x \in 1..Height /\ y \in 1..x /\ x < y + BlockPageSize
    BY <1>1, <1>3, <2>9, <2>10, <2>12, WatcherAssumption
  <2>15. EventOf(chain[x], l) \in Unread
    BY <2>10, <2>11, <2>12, <2>13, <2>14, UnreadEvent
  <2> QED
    BY <2>9, <2>15
<1>13. ASSUME NEW i \in 1..m, NEW l \in ToSet(answer[i]), bs[i].number >= lastIndexed
       PROVE  EventOf(bs[i], l) \in ToSet(out') \cup Unread
  <2>1. EventOf(bs[i], l) \in ToSet(ts) \/ EventOf(bs[i], l) \in Unread
    BY <1>17
  <2>2. EventOf(bs[i], l).block = bs[i].number
    BY DEF EventOf
  <2> QED
    BY <1>8, <1>13, <2>1, <2>2
<1>14. lastIndexed' = lastIndexed \/ \E i \in 1..m : lastIndexed' = bs[i].number
  BY <1>7, <1>8
<1> QED
  BY <1>2, <1>12, <1>13, <1>14

(***************************************************************************)
(* The logs that every answer holds.                                       *)
(***************************************************************************)
\* The logs in a block's answer.
LEMMA AnsweredLogs ==
  ASSUME NEW b \in Header, NEW missed
  PROVE  ToSet(Answered(b, missed)) =
           {l \in ToSet(b.logs) :
              /\ l.event \notin missed
              /\ Cardinality({m \in Only(l.event, b.logs) : m.index <= l.index}) <= MaxLogsPerQuery}
<1> DEFINE s == b.logs
           T == {l \in ToSet(s) :
                   /\ l.event \notin missed
                   /\ Cardinality({m \in Only(l.event, s) : m.index <= l.index}) <= MaxLogsPerQuery}
<1>1. s \in Seq(Log)
  BY HeaderFacts, LogListFacts
<1>2. Answered(b, missed) = Kept(s, T)
  BY DEF Answered
<1>3. T \subseteq ToSet(s)
  OBVIOUS
<1> HIDE DEF T, s
<1>4. ToSet(Kept(s, T)) = ToSet(s) \cap T
  BY <1>1, KeptFacts
<1>5. ToSet(Answered(b, missed)) = T
  BY <1>2, <1>3, <1>4
<1> QED
  BY <1>5 DEF T, s

\* More failures, fewer logs that are sure.
LEMMA ToldFewer ==
  ASSUME NEW b, NEW f \in Nat, NEW h \in Nat, f <= h
  PROVE  /\ Sure(b, h) \subseteq Sure(b, f)
         /\ \A x : Told(b, x, f) => Told(b, x, h)
<1>1. h = 0 => f = 0
  OBVIOUS
<1>2. Sure(b, h) \subseteq Sure(b, f)
  BY <1>1 DEF Sure
<1>3. ASSUME NEW x, Told(b, x, f) PROVE Told(b, x, h)
  <2>1. Sure(b, f) = {l \in ToSet(x) : l.event \notin FallibleEvents \/ f = 0}
    BY <1>3 DEF Told
  <2>2. \A l : l \in Sure(b, h) <=> l \in Sure(b, f) /\ (l.event \notin FallibleEvents \/ h = 0)
    BY <1>1 DEF Sure
  <2>3. \A l : l \in Sure(b, h) <=>
                 l \in ToSet(x) /\ (l.event \notin FallibleEvents \/ h = 0)
    BY <1>1, <2>1, <2>2
  <2> QED
    BY <2>3 DEF Told
<1> QED
  BY <1>2, <1>3

\* Few logs are all in the answer.
LEMMA FewLogs ==
  ASSUME NEW s \in Seq(Log), Len(s) < MaxLogsPerQuery, NEW l \in ToSet(s)
  PROVE  Cardinality({m \in Only(l.event, s) : m.index <= l.index}) <= MaxLogsPerQuery
<1> DEFINE P == {m \in Only(l.event, s) : m.index <= l.index}
           I == 1..Len(s)
           f == [i \in I |-> s[i]]
<1>1. Len(s) \in Nat /\ DOMAIN s = I
  OBVIOUS
<1>2. IsFiniteSet(I) /\ Cardinality(I) = Len(s)
  BY <1>1, FS_Interval
<1>3. f \in Surjection(I, ToSet(s))
  BY <1>1 DEF Surjection, ToSet
<1>4. P \subseteq ToSet(s)
  BY DEF Only
<1> HIDE DEF P, f, I
<1>5. IsFiniteSet(ToSet(s)) /\ Cardinality(ToSet(s)) <= Cardinality(I)
  BY <1>2, <1>3, FS_Surjection
<1>6. IsFiniteSet(P) /\ Cardinality(P) <= Cardinality(ToSet(s))
  BY <1>4, <1>5, FS_Subset
<1>7. Cardinality(P) \in Nat /\ Cardinality(ToSet(s)) \in Nat
  BY <1>5, <1>6, FS_CardinalityType
<1>8. Cardinality(P) <= MaxLogsPerQuery
  BY <1>1, <1>2, <1>5, <1>6, <1>7, WatcherAssumption
<1> QED
  BY <1>8 DEF P

LEMMA AllTold ==
  ASSUME NEW bs \in Seq(Header), NEW answer, OneQueryAllEvents(bs, answer), failures \in Nat
  PROVE  failures' = failures /\ \A i \in 1..Len(bs) : Told(bs[i], answer[i], failures')
<1>1. /\ failures' = failures /\ ~TooManyIn(bs)
      /\ answer = [i \in 1..Len(bs) |-> bs[i].logs]
  BY DEF OneQueryAllEvents
<1> DEFINE ss == [i \in 1..Len(bs) |-> bs[i].logs]
<1>2. /\ ss \in Seq(Seq(Log)) /\ Len(ss) = Len(bs)
      /\ \A i \in 1..Len(bs) : ss[i] = bs[i].logs /\ bs[i] \in Header /\ ss[i] \in Seq(Log)
  <2>1. \A i \in 1..Len(bs) : bs[i] \in Header /\ bs[i].logs \in Seq(Log)
    BY HeaderFacts, LogListFacts
  <2>2. Len(bs) \in Nat
    OBVIOUS
  <2> QED
    BY <2>1, <2>2
<1>3. answer = ss /\ Len(FlattenSeq(ss)) < MaxLogsPerQuery
  <2>1. ~(Len(FlattenSeq(ss)) >= MaxLogsPerQuery)
    BY <1>1 DEF TooManyIn, LogsOf
  <2> HIDE DEF ss
  <2>2. FlattenSeq(ss) \in Seq(Log)
    BY <1>2, FlatMembers
  <2>3. Len(FlattenSeq(ss)) \in Nat
    BY <2>2
  <2>4. Len(FlattenSeq(ss)) < MaxLogsPerQuery
    BY <2>1, <2>3, WatcherAssumption
  <2> QED
    BY <1>1, <2>4 DEF ss
<1> HIDE DEF ss
<1>4. ASSUME NEW i \in 1..Len(bs) PROVE Told(bs[i], answer[i], failures)
  <2> DEFINE s == ss[i]
             b == bs[i]
  <2>1. s = b.logs /\ s \in Seq(Log) /\ b \in Header
    BY <1>2
  <2>2. Len(s) <= Len(FlattenSeq(ss)) /\ Len(FlattenSeq(ss)) \in Nat
    <3>1. FlattenSeq(ss) \in Seq(Log) /\ \A j \in 1..Len(ss) : Len(ss[j]) <= Len(FlattenSeq(ss))
      BY <1>2, FlatMembers
    <3>2. Len(FlattenSeq(ss)) \in Nat
      BY <3>1
    <3> QED
      BY <1>2, <3>1, <3>2
  <2> HIDE DEF s, b
  <2>3. Len(s) < MaxLogsPerQuery
    <3>1. Len(s) \in Nat
      BY <2>1
    <3> QED
      BY <1>3, <2>2, <3>1, WatcherAssumption
  <2>4. \A l \in ToSet(s) :
          Cardinality({m \in Only(l.event, s) : m.index <= l.index}) <= MaxLogsPerQuery
    BY <2>1, <2>3, FewLogs
  <2>5. ToSet(Answered(b, {})) =
          {l \in ToSet(b.logs) :
             /\ l.event \notin {}
             /\ Cardinality({m \in Only(l.event, b.logs) : m.index <= l.index}) <= MaxLogsPerQuery}
    BY <2>1, AnsweredLogs, ZenonT(40)
  <2>6. ToSet(Answered(b, {})) = ToSet(s)
    BY <2>1, <2>4, <2>5
  <2>7. answer[i] = s
    BY <1>3 DEF s
  <2>8. Told(b, s, failures)
    BY <2>6 DEF Told, Sure
  <2> QED
    BY <2>7, <2>8 DEF b
<1> QED
  BY <1>1, <1>4

LEMMA EventTold ==
  ASSUME NEW b \in Header, NEW answer, OneQueryPerEvent(b, answer), failures \in Nat
  PROVE  /\ failures' \in Nat /\ failures' >= failures
         /\ Told(b, answer[1], failures')
<1>1. PICK missed \in SUBSET (Events(b.logs) \cap FallibleEvents) :
        /\ answer = <<Answered(b, missed)>>
        /\ IF missed = {} THEN UNCHANGED failures ELSE Failing
  BY DEF OneQueryPerEvent
<1>2. answer[1] = Answered(b, missed)
  BY <1>1
<1>3. failures' \in Nat /\ failures' >= failures /\ (missed # {} => failures' # 0)
  BY <1>1 DEF Failing
<1> DEFINE A == {l \in ToSet(b.logs) :
             Cardinality({m \in Only(l.event, b.logs) : m.index <= l.index}) <= MaxLogsPerQuery}
<1>4. /\ ToSet(Answered(b, {})) = A
      /\ ToSet(Answered(b, missed)) = {l \in A : l.event \notin missed}
  <2>1. \A e : ToSet(Answered(b, e)) = {l \in A : l.event \notin e}
    <3> TAKE e
    <3>1. ToSet(Answered(b, e)) =
            {l \in ToSet(b.logs) :
               /\ l.event \notin e
               /\ Cardinality({m \in Only(l.event, b.logs) : m.index <= l.index}) <= MaxLogsPerQuery}
      BY AnsweredLogs
    <3> QED
      BY <3>1
  <2>2. {l \in A : l.event \notin {}} = A
    OBVIOUS
  <2> HIDE DEF A
  <2> QED
    BY <2>1, <2>2
<1> HIDE DEF A
<1>5. \A l : l.event \in missed => l.event \in FallibleEvents /\ missed # {}
  BY <1>1
<1>6. Told(b, Answered(b, missed), failures')
  <2>1. \A l : l \in Sure(b, failures') <=>
                 l \in A /\ (l.event \notin FallibleEvents \/ failures' = 0)
    BY <1>4 DEF Sure
  <2>2. \A l : l \in Sure(b, failures') <=>
                 /\ l \in ToSet(Answered(b, missed))
                 /\ l.event \notin FallibleEvents \/ failures' = 0
    BY <1>3, <1>4, <1>5, <2>1
  <2> QED
    BY <2>2 DEF Told
<1> QED
  BY <1>2, <1>3, <1>6

(***************************************************************************)
(* The events of the blocks handed over.                                   *)
(***************************************************************************)
LEMMA BusyCaughtUp ==
  ASSUME WatcherInv, pc = "running", step # Idle
  PROVE  CaughtUp
BY BusyFacts, NewsQueued DEF Following

\* Logs are handed over for the next blocks of the view, and what they tell.
Hands ==
  \E bs, answer : /\ HandsLogs(bs, answer)
                  /\ \A i \in 1..Len(bs) : Told(bs[i], answer[i], failures')

LEMMA PageHands ==
  ASSUME WatcherInv, WarpPage
  PROVE  /\ pc = "running" /\ pc' = "running" /\ UNCHANGED node /\ queue' = queue /\ CaughtUp
         /\ failures' \in Nat /\ failures' >= failures /\ Hands
<1> DEFINE k == Len(got)
           n == Len(view)
<1>1. /\ pc = "running" /\ pc' = "running" /\ step.type = "warping"
      /\ UNCHANGED node /\ queue' = queue
  BY DEF WarpPage, blockWatcher
<1>2. PICK answer \in Answers(Page) :
        /\ IF step.pageSize > 1 THEN OneQueryAllEvents(Page, answer)
                                ELSE OneQueryPerEvent(Page[1], answer)
        /\ HandOver(Page, answer)
  BY DEF WarpPage
<1>3. Counted /\ failures \in Nat
  BY DEF WatcherInv, Counted
<1>4. /\ step.pageSize \in 1..BlockPageSize
      /\ step.pageSize = 1 => PageEnd = step.from
      /\ step.from \in Nat \ {0}
      /\ Page \in Seq(Header) /\ Len(Page) = PageEnd - step.from + 1
      /\ Len(Page) >= 1 /\ k + Len(Page) <= n /\ Len(Page) <= BlockPageSize
      /\ \A i \in 1..Len(Page) : Page[i] = view[k + i]
  BY <1>1, PageFacts
<1>5. CaughtUp
  <2>1. step # Idle
    BY <1>1 DEF Idle
  <2> QED
    BY <1>1, <2>1, BusyCaughtUp
<1> DEFINE P == Page
<1>6. step.pageSize > 1 \/ Len(P) = 1
  <2>1. step.pageSize = 1 => Len(P) = 1
    BY <1>4
  <2>2. step.pageSize \in Nat /\ step.pageSize >= 1
    BY <1>4, WatcherAssumption
  <2> QED
    BY <2>1, <2>2
<1>7. P \in Seq(Header) /\ Len(P) >= 1 /\ Len(P) \in Nat
  BY <1>4
<1> HIDE DEF P
<1>8. CASE step.pageSize > 1
  <2>1. OneQueryAllEvents(P, answer)
    BY <1>2, <1>8 DEF P
  <2>2. /\ answer \in Seq(Seq(Log)) /\ Len(answer) = Len(P)
        /\ \A i \in 1..Len(P) : Fair(P[i].logs, answer[i])
    BY <1>7, <2>1, QueryFacts
  <2>3. failures' = failures /\ \A i \in 1..Len(P) : Told(P[i], answer[i], failures')
    BY <1>3, <1>7, <2>1, AllTold
  <2>4. HandsLogs(P, answer)
    BY <1>2, <1>4, <2>2 DEF HandsLogs, P
  <2>5. failures' \in Nat /\ failures' >= failures
    BY <1>3, <2>3
  <2>6. Hands
    BY <2>3, <2>4 DEF Hands
  <2> QED
    BY <1>1, <1>5, <2>5, <2>6
<1>9. CASE ~(step.pageSize > 1)
  <2>1. OneQueryPerEvent(P[1], answer) /\ Len(P) = 1
    BY <1>2, <1>6, <1>9 DEF P
  <2>2. /\ answer \in Seq(Seq(Log)) /\ Len(answer) = Len(P)
        /\ \A i \in 1..Len(P) : Fair(P[i].logs, answer[i])
    BY <1>7, <2>1, QueryFacts
  <2>3. P[1] \in Header
    BY <1>7, <2>1
  <2>4. failures' \in Nat /\ failures' >= failures /\ Told(P[1], answer[1], failures')
    BY <1>3, <2>1, <2>3, EventTold
  <2>5. \A i \in 1..Len(P) : i = 1
    BY <2>1
  <2>6. \A i \in 1..Len(P) : Told(P[i], answer[i], failures')
    BY <2>4, <2>5
  <2>7. HandsLogs(P, answer)
    BY <1>2, <1>4, <2>2 DEF HandsLogs, P
  <2>8. Hands
    BY <2>6, <2>7 DEF Hands
  <2> QED
    BY <1>1, <1>5, <2>4, <2>8
<1> QED
  BY <1>8, <1>9

LEMMA BlockHands ==
  ASSUME WatcherInv, BlockLogs
  PROVE  /\ pc = "running" /\ pc' = "running" /\ UNCHANGED node /\ queue' = queue /\ CaughtUp
         /\ failures' \in Nat /\ failures' >= failures /\ Hands
<1> DEFINE k == Len(got)
           n == Len(view)
           b == step.block
           bs == <<b>>
<1>1. /\ pc = "running" /\ pc' = "running" /\ step.type = "block"
      /\ UNCHANGED node /\ queue' = queue
  BY DEF BlockLogs, blockWatcher
<1>2. PICK answer \in Answers(bs) :
        /\ OneQueryAllEvents(bs, answer) \/ OneQueryPerEvent(b, answer)
        /\ HandOver(bs, answer)
  BY DEF BlockLogs
<1>3. NodeOK /\ ViewAt(view, got, lastIndexed) /\ failures \in Nat
  BY DEF WatcherInv, Counted
<1>4. CaughtUp
  <2>1. step # Idle
    BY <1>1 DEF Idle
  <2> QED
    BY <1>1, <2>1, BusyCaughtUp
<1>5. view # <<>> /\ k = n - 1 /\ b = view[n]
  BY <1>1, AskingFacts
<1>6. n \in 1..n /\ b \in Header /\ n \in Nat
  <2>1. n \in 1..n /\ n \in Nat
    BY <1>3, <1>5, ViewFacts
  <2> QED
    BY <1>3, <1>5, <2>1, ViewFacts
<1>7. bs \in Seq(Header) /\ Len(bs) = 1 /\ bs[1] = b
  <2> HIDE DEF b
  <2> QED
    BY <1>6
<1> HIDE DEF b, bs
<1>8. /\ answer \in Seq(Seq(Log)) /\ Len(answer) = Len(bs)
      /\ \A i \in 1..Len(bs) : Fair(bs[i].logs, answer[i])
  <2>1. OneQueryAllEvents(bs, answer) \/ (Len(bs) = 1 /\ OneQueryPerEvent(bs[1], answer))
    BY <1>2, <1>7
  <2>2. bs \in Seq(Header) /\ Len(bs) >= 1
    BY <1>7
  <2> QED
    BY <2>1, <2>2, QueryFacts
<1>9. \A i \in 1..Len(bs) : i = 1 /\ k + i = n
  BY <1>5, <1>6, <1>7
<1>10. HandsLogs(bs, answer)
  <2>1. Len(bs) >= 1 /\ k + Len(bs) <= n /\ Len(bs) <= BlockPageSize
    BY <1>5, <1>6, <1>7, WatcherAssumption
  <2>2. \A i \in 1..Len(bs) : bs[i] = view[k + i]
    BY <1>5, <1>7, <1>9
  <2> QED
    BY <1>2, <1>7, <1>8, <2>1, <2>2 DEF HandsLogs
<1>11. failures' \in Nat /\ failures' >= failures /\ Told(b, answer[1], failures')
  <2>1. CASE OneQueryAllEvents(bs, answer)
    <3>1. failures' = failures /\ Told(bs[1], answer[1], failures')
      BY <1>3, <1>7, <2>1, AllTold
    <3> QED
      BY <1>3, <1>7, <3>1
  <2>2. CASE OneQueryPerEvent(b, answer)
    BY <1>3, <1>6, <2>2, EventTold
  <2> QED
    BY <1>2, <2>1, <2>2
<1>12. \A i \in 1..Len(bs) : Told(bs[i], answer[i], failures')
  BY <1>7, <1>9, <1>11
<1>13. Hands
  BY <1>10, <1>12 DEF Hands
<1> QED
  BY <1>1, <1>4, <1>11, <1>13

LEMMA KnownGrows ==
  ASSUME transitions \in Seq(Transition), out' \in Seq(Transition), Receive, chain' = chain
  PROVE  /\ firstBlock' = firstBlock /\ asked' = asked
         /\ Known \subseteq Known'
         /\ ToSet(out') \subseteq Known'
<1>1. /\ transitions' = transitions \o out' /\ applied' = applied /\ asked' = asked
      /\ failed' = failed /\ cut' = cut /\ firstBlock' = firstBlock
  BY DEF Receive, stored, boots
<1>2. ToSet(transitions') = ToSet(transitions) \cup ToSet(out')
  BY <1>1, ToSetConcat
<1>3. Known \subseteq Known'
  <2>1. Unread' = Unread
    BY UnreadSame
  <2> QED
    BY <1>1, <1>2, <2>1 DEF Known, Done
<1>4. ToSet(out') \subseteq Known'
  BY <1>2 DEF Known
<1> QED
  BY <1>1, <1>3, <1>4

\* The blocks from the first one the validator watched on are in the view.
LEMMA InView ==
  ASSUME WatcherInv, Unforked, FirstInv, view # <<>>, NEW k \in 1..Len(view),
         NEW x \in Nat, x >= firstBlock, x < view[k].number
  PROVE  \E i \in 1..k : i < k /\ view[i].number = x /\ chain[x] = view[i]
<1>1. /\ view[1].number <= firstBlock /\ firstBlock \in Nat
  BY DEF FirstInv
<1>2. /\ Len(view) \in Nat /\ view[1].number \in Nat /\ 1 \in 1..Len(view)
      /\ \A i, j \in 1..Len(view) : view[j].number = view[i].number + (j - i)
      /\ \A i \in 1..Len(view) : chain[view[i].number] = view[i]
  <2>1. Len(view) \in Nat /\ \A i \in 1..Len(view) : view[i].number \in Nat
    BY ViewOnChain
  <2>2. 1 \in 1..Len(view)
    BY <2>1
  <2> QED
    BY <2>1, <2>2, ViewOnChain
<1> DEFINE y == view[1].number
           i == x - y + 1
<1>3. y \in Nat /\ y <= x
  BY <1>1, <1>2
<1>4. view[k].number = y + (k - 1)
  BY <1>2
<1> HIDE DEF y
<1>5. i \in 1..k /\ i < k /\ i \in 1..Len(view) /\ y + (i - 1) = x
  BY <1>2, <1>3, <1>4
<1>6. view[i].number = x
  <2> HIDE DEF i
  <2>1. view[i].number = view[1].number + (i - 1)
    BY <1>2, <1>5
  <2> QED
    BY <1>5, <2>1 DEF y
<1> HIDE DEF i
<1>7. chain[x] = view[i]
  BY <1>2, <1>5, <1>6
<1> QED
  BY <1>5, <1>6, <1>7

LEMMA ReportKnown ==
  ASSUME WatcherInv, Unforked, QueueInv, FirstInv, KnownInv, WatcherInv', Receive,
         pc = "running", CaughtUp, pc' = "running", failures' = failures, chain' = chain,
         NEW b \in Header, Reports(b)
  PROVE  FirstInv' /\ KnownInv'
<1> DEFINE n == Len(view)
           f == failures
<1>1. /\ HandsOver /\ view' = Append(view, b) /\ got' = got /\ Len(got) = n
      /\ b.number \in Nat /\ lastIndexed' = Most(lastIndexed, b.number)
      /\ view = <<>> => b.number = Floor + 1
  BY ReportHandsOver DEF Reports
<1>2. transitions \in Seq(Transition) /\ out' \in Seq(Transition)
  BY <1>1 DEF QueueInv, HandsOver
<1>3. /\ firstBlock' = firstBlock /\ asked' = asked
      /\ Known \subseteq Known'
  BY <1>2, KnownGrows
<1>4. /\ view \in Seq(Header) /\ n \in Nat /\ lastIndexed \in Nat
      /\ \A i \in 1..n : chain[view[i].number] = view[i]
      /\ \A i, j \in 1..Len(view) : view[j].number = view[i].number + (j - i)
      /\ \A i \in 1..n : view[i].number \in Nat
  BY ViewOnChain
<1>5. /\ view' # <<>> /\ view'[n + 1] = b /\ Len(view') = n + 1
      /\ \A i \in 1..n : view'[i] = view[i]
  BY <1>1, <1>4, SMTT(30)
<1>6. FirstInv'
  <2>1. view'[1].number <= firstBlock
    <3>1. CASE view = <<>>
      <4>1. Floor + 1 <= firstBlock
        BY <3>1 DEF FirstInv
      <4>2. view'[1] = b
        BY <1>1, <1>5, <3>1
      <4> QED
        BY <1>1, <3>1, <4>1, <4>2
    <3>2. CASE view # <<>>
      <4>1. 1 \in 1..n
        BY <1>4, <3>2
      <4> QED
        BY <1>5, <3>2, <4>1 DEF FirstInv
    <3> QED
      BY <3>1, <3>2
  <2> QED
    BY <1>3, <1>5, <2>1 DEF FirstInv
<1>7. \A i \in 1..n : view[i].number >= firstBlock =>
        \A l \in Sure(view[i], f) : EventOf(view[i], l) \in Known
  BY <1>1 DEF KnownInv
<1>8. ASSUME NEW x \in 1..lastIndexed' - 1, x >= firstBlock, NEW l \in Sure(chain[x], f)
      PROVE  EventOf(chain[x], l) \in Known
  <2>1. x \in Nat /\ (x <= lastIndexed - 1 \/ x < b.number)
    <3> DEFINE y == lastIndexed'
    <3>1. y \in Nat /\ (y = lastIndexed \/ y = b.number)
      BY <1>1, <1>4, MostFacts
    <3> HIDE DEF y
    <3>2. x \in 1..y - 1
      BY DEF y
    <3> QED
      BY <1>1, <1>4, <3>1, <3>2
  <2>2. CASE x <= lastIndexed - 1
    <3>1. x \in 1..lastIndexed - 1
      BY <1>4, <2>2
    <3> QED
      BY <1>8, <3>1 DEF KnownInv
  <2>3. CASE x < b.number
    <3>1. view # <<>>
      <4> SUFFICES ASSUME view = <<>> PROVE FALSE
        OBVIOUS
      <4>1. Floor + 1 <= firstBlock /\ firstBlock \in Nat
        BY DEF FirstInv
      <4> QED
        BY <1>1, <1>8, <2>1, <2>3, <4>1
    <3>2. n \in 1..n /\ n + 1 \in 1..n + 1
      BY <1>4, <3>1
    <3>3. b.number = view[n].number + 1
      <4>1. \A i \in 1..Len(view') : view'[i].number = view'[1].number + (i - 1)
        BY ViewNext
      <4>2. b.number = view'[1].number + ((n + 1) - 1)
        <5>1. n + 1 \in 1..Len(view')
          BY <1>5, <3>2
        <5>2. view'[n + 1].number = view'[1].number + ((n + 1) - 1)
          BY <4>1, <5>1
        <5> QED
          BY <1>5, <5>2
      <4>3. view[n].number = view'[1].number + (n - 1)
        <5>1. n \in 1..Len(view')
          BY <1>4, <1>5, <3>2
        <5>2. view'[n].number = view'[1].number + (n - 1)
          BY <4>1, <5>1
        <5> QED
          BY <1>5, <3>2, <5>2
      <4>4. 1 \in 1..n /\ view'[1] = view[1] /\ view[1].number \in Nat
        BY <1>4, <1>5, <3>2
      <4> QED
        BY <1>4, <4>2, <4>3, <4>4
    <3>4. view[n].number \in Nat /\ x <= view[n].number
      BY <1>4, <2>1, <2>3, <3>2, <3>3
    <3>5. \E i \in 1..n : view[i].number = x /\ chain[x] = view[i]
      <4>1. CASE x = view[n].number
        BY <1>4, <3>2, <4>1
      <4>2. CASE x < view[n].number
        BY <1>8, <2>1, <3>1, <3>2, <4>2, InView
      <4> QED
        BY <2>1, <3>4, <4>1, <4>2
    <3>6. PICK i \in 1..n : view[i].number = x /\ chain[x] = view[i]
      BY <3>5
    <3> QED
      BY <1>7, <1>8, <3>6
  <2> QED
    BY <2>1, <2>2, <2>3
<1>9. KnownInv'
  <2>1. asked' \in Seq(Transition)
    BY <1>3 DEF KnownInv
  <2>2. \A i \in 1..Len(got') : Told(view'[i], got'[i], failures')
    BY <1>1, <1>5 DEF KnownInv
  <2>3. \A x \in 1..lastIndexed' - 1 : x >= firstBlock' =>
          \A l \in Sure(chain'[x], failures') : EventOf(chain'[x], l) \in Known'
    <3> TAKE x \in 1..lastIndexed' - 1
    <3> HAVE x >= firstBlock'
    <3> TAKE l \in Sure(chain'[x], failures')
    <3>1. x >= firstBlock /\ l \in Sure(chain[x], f)
      BY <1>3
    <3>2. EventOf(chain[x], l) \in Known
      BY <1>8, <3>1
    <3> QED
      BY <1>3, <3>2
  <2>4. \A i \in 1..Len(got') : view'[i].number >= firstBlock' =>
          \A l \in Sure(view'[i], failures') : EventOf(view'[i], l) \in Known'
    <3> TAKE i \in 1..Len(got')
    <3>1. i \in 1..n /\ view'[i] = view[i]
      BY <1>1, <1>5
    <3> QED
      BY <1>3, <1>7, <3>1
  <2> QED
    BY <2>1, <2>2, <2>3, <2>4 DEF KnownInv
<1> QED
  BY <1>6, <1>9

LEMMA HandsKnown ==
  ASSUME WatcherInv, Unforked, QueueInv, FirstInv, KnownInv, WatcherInv', Receive,
         pc = "running", CaughtUp, pc' = "running", chain' = chain,
         failures \in Nat, failures' \in Nat, failures' >= failures,
         NEW bs, NEW answer, HandsLogs(bs, answer),
         \A i \in 1..Len(bs) : Told(bs[i], answer[i], failures')
  PROVE  FirstInv' /\ KnownInv'
<1> DEFINE n == Len(view)
           k == Len(got)
           m == Len(bs)
           f == failures
           h == failures'
<1>1. /\ HandsOver /\ view' = view /\ got' = got \o answer
      /\ \A i \in 1..m : \A l \in ToSet(answer[i]) :
           bs[i].number >= lastIndexed => EventOf(bs[i], l) \in ToSet(out') \cup Unread
      /\ lastIndexed' = lastIndexed \/ \E i \in 1..m : lastIndexed' = bs[i].number
  BY LogsHandOver
<1>2. transitions \in Seq(Transition) /\ out' \in Seq(Transition)
  BY <1>1 DEF QueueInv, HandsOver
<1>3. /\ firstBlock' = firstBlock /\ asked' = asked
      /\ Known \subseteq Known' /\ ToSet(out') \subseteq Known'
  BY <1>2, KnownGrows
<1>4. /\ view \in Seq(Header) /\ n \in Nat /\ k \in Nat /\ lastIndexed \in Nat
      /\ got \in Seq(Seq(Log))
      /\ \A i \in 1..n : chain[view[i].number] = view[i]
      /\ \A i \in 1..n : view[i].number \in Nat /\ view[i].number >= 1
  BY ViewOnChain
<1>5. /\ bs \in Seq(Header) /\ m \in Nat /\ m >= 1 /\ k + m <= n
      /\ \A i \in 1..m : bs[i] = view[k + i]
      /\ answer \in Seq(Seq(Log)) /\ Len(answer) = m
  BY DEF HandsLogs
<1>6. /\ Len(got') = k + m
      /\ \A i \in 1..k : got'[i] = got[i]
      /\ \A j \in 1..m : got'[k + j] = answer[j]
  <2> DEFINE S == Seq(Log)
             gg == got \o answer
  <2>0. got \in Seq(S) /\ answer \in Seq(S)
    BY <1>4, <1>5
  <2> HIDE DEF S
  <2>1. Len(gg) = Len(got) + Len(answer)
    BY <2>0, ConcatPlaces
  <2>2. \A i \in 1..Len(got) : gg[i] = got[i]
    BY <2>0, ConcatPlaces
  <2>3. \A j \in 1..Len(answer) : gg[Len(got) + j] = answer[j]
    BY <2>0, ConcatPlaces
  <2> HIDE DEF gg
  <2>4. got' = gg
    BY <1>1 DEF gg
  <2> QED
    BY <1>5, <2>1, <2>2, <2>3, <2>4
<1>7. \A i \in 1..k + m : i \in 1..k \/ \E j \in 1..m : i = k + j
  <2> TAKE i \in 1..k + m
  <2>1. i \notin 1..k => i - k \in 1..m /\ i = k + (i - k)
    BY <1>4, <1>5
  <2> QED
    BY <2>1
<1> HIDE DEF m, k
<1>8. \A b : Sure(b, h) \subseteq Sure(b, f) /\ \A x : Told(b, x, f) => Told(b, x, h)
  BY ToldFewer
<1>9. /\ \A i \in 1..k : Told(view[i], got[i], f)
      /\ \A x \in 1..lastIndexed - 1 : x >= firstBlock =>
           \A l \in Sure(chain[x], f) : EventOf(chain[x], l) \in Known
      /\ \A i \in 1..k : view[i].number >= firstBlock =>
           \A l \in Sure(view[i], f) : EventOf(view[i], l) \in Known
  BY DEF KnownInv, k
<1>10. ASSUME NEW i \in 1..k + m, view[i].number >= firstBlock, NEW l \in Sure(view[i], h)
       PROVE  EventOf(view[i], l) \in Known'
  <2>1. CASE i \in 1..k
    BY <1>3, <1>8, <1>9, <1>10, <2>1
  <2>2. CASE \E j \in 1..m : i = k + j
    <3>1. PICK j \in 1..m : i = k + j
      BY <2>2
    <3>2. bs[j] = view[i] /\ Told(bs[j], answer[j], h)
      BY <1>5, <3>1 DEF m
    <3>3. i \in 1..n
      BY <1>4, <1>5
    <3>4. l \in ToSet(answer[j])
      BY <1>10, <3>2 DEF Told
    <3>5. CASE bs[j].number >= lastIndexed
      <4>1. EventOf(bs[j], l) \in ToSet(out') \cup Unread
        BY <1>1, <3>4, <3>5 DEF m
      <4>2. Unread \subseteq Known
        BY DEF Known, Done
      <4> QED
        BY <1>3, <3>2, <4>1, <4>2
    <3>6. CASE ~(bs[j].number >= lastIndexed)
      <4> DEFINE x == view[i].number
      <4>1. x \in 1..lastIndexed - 1 /\ chain[x] = view[i]
        <5>1. x \in Nat /\ x >= 1 /\ ~(x >= lastIndexed)
          BY <1>4, <3>2, <3>3, <3>6
        <5>2. chain[x] = view[i]
          BY <1>4, <3>3
        <5> HIDE DEF x
        <5> QED
          BY <1>4, <5>1, <5>2
      <4>2. l \in Sure(view[i], f)
        BY <1>8, <1>10
      <4> QED
        BY <1>3, <1>9, <1>10, <4>1, <4>2
    <3> QED
      BY <3>5, <3>6
  <2> QED
    BY <1>7, <2>1, <2>2
<1>11. n \in 1..n /\ 1 \in 1..n /\ view # <<>>
  <2>1. n >= 1
    BY <1>4, <1>5 DEF k, m
  <2>2. n \in 1..n /\ 1 \in 1..n
    BY <1>4, <2>1
  <2>3. view # <<>>
    BY <1>4, <2>1
  <2> QED
    BY <2>2, <2>3
<1>12. FirstInv'
  BY <1>1, <1>3, <1>11 DEF FirstInv
<1>13. ASSUME NEW x \in 1..lastIndexed' - 1, x >= firstBlock, NEW l \in Sure(chain[x], h)
       PROVE  EventOf(chain[x], l) \in Known'
  <2>1. CASE x \in 1..lastIndexed - 1
    BY <1>3, <1>8, <1>9, <1>13, <2>1
  <2>2. CASE x \notin 1..lastIndexed - 1
    <3>1. lastIndexed' # lastIndexed
      BY <1>13, <2>2
    <3>2. PICK j \in 1..m : lastIndexed' = bs[j].number
      BY <1>1, <3>1 DEF m
    <3>3. k + j \in 1..n /\ bs[j] = view[k + j] /\ k + j \in 1..k + m
      <4>1. k + j \in 1..n /\ k + j \in 1..k + m
        BY <1>4, <1>5 DEF k, m
      <4> QED
        BY <1>5, <4>1 DEF m, k
    <3>4. x \in Nat /\ x < view[k + j].number
      <4> DEFINE z == view[k + j].number
      <4>1. z \in Nat /\ lastIndexed' = z
        BY <1>4, <3>2, <3>3
      <4> HIDE DEF z
      <4>2. x \in 1..z - 1
        BY <1>13, <4>1
      <4> QED
        BY <4>1, <4>2 DEF z
    <3>5. PICK i \in 1..k + j : i < k + j /\ view[i].number = x /\ chain[x] = view[i]
      BY <1>11, <1>13, <3>3, <3>4, InView
    <3>6. i \in 1..k + m
      BY <3>3, <3>5, <1>4, <1>5 DEF k, m
    <3> QED
      BY <1>10, <1>13, <3>5, <3>6
  <2> QED
    BY <2>1, <2>2
<1>14. KnownInv'
  <2>1. asked' \in Seq(Transition)
    BY <1>3 DEF KnownInv
  <2>2. \A i \in 1..k + m : Told(view[i], got'[i], h)
    <3> TAKE i \in 1..k + m
    <3>1. CASE i \in 1..k
      BY <1>6, <1>8, <1>9, <3>1 DEF k, m
    <3>2. CASE \E j \in 1..m : i = k + j
      <4>1. PICK j \in 1..m : i = k + j
        BY <3>2
      <4>2. got'[i] = answer[j] /\ bs[j] = view[i]
        BY <1>5, <1>6, <4>1 DEF k, m
      <4> QED
        BY <4>2 DEF m
    <3> QED
      BY <1>7, <3>1, <3>2
  <2>3. \A x \in 1..lastIndexed' - 1 : x >= firstBlock' =>
          \A l \in Sure(chain'[x], failures') : EventOf(chain'[x], l) \in Known'
    BY <1>3, <1>13
  <2>4. \A i \in 1..k + m : view[i].number >= firstBlock' =>
          \A l \in Sure(view[i], failures') : EventOf(view[i], l) \in Known'
    BY <1>3, <1>10
  <2>5. Len(got') = k + m
    BY <1>6 DEF k, m
  <2> QED
    BY <1>1, <2>1, <2>2, <2>3, <2>4, <2>5 DEF KnownInv
<1> QED
  BY <1>12, <1>14

(***************************************************************************)
(* Steps that hand nothing over, and the catchup after a restart.          *)
(***************************************************************************)
LEMMA NothingOut ==
  ASSUME HandleTransitions(<<>>), lastIndexed \in Nat
  PROVE  out' = <<>> /\ lastIndexed' = lastIndexed
<1> DEFINE ts == <<>>
<1>1. ts \in Seq(Transition) /\ Ordered(ts) /\ ToSet(ts) = {}
  <2>1. ts \in Seq(Transition) /\ Len(ts) = 0
    OBVIOUS
  <2>2. Ordered(ts)
    BY <2>1 DEF Ordered
  <2>3. ToSet(ts) = {}
    BY <2>1 DEF ToSet
  <2> QED
    BY <2>1, <2>2, <2>3
<1>2. HandleTransitions(ts)
  OBVIOUS
<1>0. lastIndexed' = lastIndexed
  BY HandleNone
<1> HIDE DEF ts
<1>3. out' \in Seq(Transition) /\ ToSet(out') = {t \in ToSet(ts) : t.block >= lastIndexed}
  BY <1>1, <1>2, KeptOut
<1>4. ToSet(out') = {}
  BY <1>1, <1>3
<1>5. Len(out') \in Nat /\ \A i \in 1..Len(out') : out'[i] \in ToSet(out')
  BY <1>3, ToSetPlaces
<1>6. Len(out') = 0
  BY <1>4, <1>5
<1>7. out' = <<>>
  BY <1>3, <1>6
<1> QED
  BY <1>0, <1>7

LEMMA NothingMore ==
  ASSUME Receive, transitions \in Seq(Transition), out' = <<>>
  PROVE  transitions' = transitions
BY ConcatEmptySeq DEF Receive

\* A step that hands nothing over.
LEMMA NothingKnown ==
  ASSUME WatcherInv, QueueInv, FirstInv, KnownInv, Receive, out' = <<>>,
         UNCHANGED consumer, queue' = queue, blocks' = blocks, pending' = pending,
         pc = "running", pc' = pc, chain' = chain,
         failures \in Nat, failures' \in Nat, failures' >= failures
  PROVE  HandsOver /\ FirstInv' /\ KnownInv'
<1>1. lastIndexed' = lastIndexed /\ view' = view /\ got' = got
  BY DEF consumer
<1>2. lastIndexed \in Nat /\ transitions \in Seq(Transition)
  BY ViewFacts DEF WatcherInv, QueueInv
<1>3. out' \in Seq(Transition) /\ Len(out') = 0 /\ ToSet(out') = {}
  BY DEF ToSet
<1>4. /\ firstBlock' = firstBlock /\ asked' = asked /\ Known \subseteq Known'
  BY <1>2, <1>3, KnownGrows
<1>5. HandsOver
  <2>1. Ordered(out')
    BY <1>3 DEF Ordered
  <2>2. lastIndexed' >= lastIndexed
    BY <1>1, <1>2
  <2>3. \A b, i : Ahead(view, got, b, i) <=> Ahead(view', got', b, i)
    BY <1>1
  <2> QED
    BY <1>1, <1>2, <1>3, <2>1, <2>2, <2>3 DEF HandsOver
<1>6. FirstInv'
  <2>1. Floor' = Floor /\ (CaughtUp' <=> CaughtUp) /\ FirstUncled' = FirstUncled
    BY <1>1 DEF Floor, CaughtUp, FirstUncled
  <2> QED
    BY <1>1, <1>4, <2>1 DEF FirstInv
<1>7. \A b : Sure(b, failures') \subseteq Sure(b, failures)
             /\ \A x : Told(b, x, failures) => Told(b, x, failures')
  BY ToldFewer
<1>8. KnownInv'
  <2>1. asked' \in Seq(Transition) /\ (CaughtUp' <=> CaughtUp)
    BY <1>4 DEF KnownInv, CaughtUp
  <2>2. \A i \in 1..Len(got') : Told(view'[i], got'[i], failures')
    BY <1>1, <1>7 DEF KnownInv
  <2>3. \A x \in 1..lastIndexed' - 1 : x >= firstBlock' =>
          \A l \in Sure(chain'[x], failures') : EventOf(chain'[x], l) \in Known'
    BY <1>1, <1>4, <1>7 DEF KnownInv
  <2>4. pc' = "running" /\ CaughtUp' =>
          \A i \in 1..Len(got') : view'[i].number >= firstBlock' =>
            \A l \in Sure(view'[i], failures') : EventOf(view'[i], l) \in Known'
    BY <1>1, <1>4, <1>7, <2>1 DEF KnownInv
  <2> QED
    BY <2>1, <2>2, <2>3, <2>4 DEF KnownInv
<1> QED
  BY <1>5, <1>6, <1>8

LEMMA BlankStep ==
  ASSUME QueueInv, PerformInv, AppliedInv, Blank, Receive, out' = <<>>,
         lastIndexed' = lastIndexed, pc # "down"
  PROVE  QueueInv' /\ PerformInv' /\ AppliedInv'
<1>1. /\ diffs' = diffs /\ performing' = performing /\ applied' = applied
      /\ lastProcessedBlock' = lastProcessedBlock /\ lastProcessedIndex' = lastProcessedIndex
      /\ resumedAt' = resumedAt
  BY DEF Receive, stored, boots
<1>2. transitions' = transitions
  BY NothingMore DEF QueueInv
<1>3. Blank'
  BY <1>1, <1>2 DEF Blank
<1>4. QueueInv'
  <2>1. Ordered(transitions') <=> Ordered(transitions)
    BY <1>2
  <2> QED
    BY <1>1, <1>2, <1>3, <2>1 DEF QueueInv
<1>5. PerformInv'
  BY <1>1, <1>2 DEF PerformInv, Blank
<1>6. AppliedInv'
  BY <1>1, <1>2 DEF AppliedInv
<1> QED
  BY <1>4, <1>5, <1>6

LEMMA WarpHead ==
  ASSUME NEW a, NEW b, NEW bs \in Seq(Header)
  PROVE  /\ <<Warp(a, b)>> \o News(bs, 0) # <<>>
         /\ Head(<<Warp(a, b)>> \o News(bs, 0)) = Warp(a, b)
         /\ Tail(<<Warp(a, b)>> \o News(bs, 0)) = News(bs, 0)
<1> DEFINE w == Warp(a, b)
           N == News(bs, 0)
           S == {w} \cup {NewBlock(bs[i]) : i \in 1..Len(bs)}
<1>1. w \in S
  OBVIOUS
<1>2. N \in Seq(S)
  <2>1. \A i \in 1..Len(bs) - 0 : NewBlock(bs[0 + i]) \in S
    <3> TAKE i \in 1..Len(bs) - 0
    <3>1. 0 + i = i /\ i \in 1..Len(bs)
      OBVIOUS
    <3> QED
      BY <3>1
  <2>2. Len(bs) - 0 \in Nat
    OBVIOUS
  <2> HIDE DEF S
  <2> QED
    BY <2>1, <2>2 DEF News
<1> HIDE DEF S, N, w
<1>3. Head(<<w>> \o N) = w /\ Tail(<<w>> \o N) = N /\ <<w>> \o N # <<>>
  BY <1>1, <1>2, ConsFacts
<1> QED
  BY <1>3 DEF w, N

LEMMA UncleKnown ==
  ASSUME WatcherInv, Unforked, QueueInv, FirstInv, KnownInv, pc = "running",
         Restarting, NextQueued, Receive
  PROVE  out' = <<>> /\ lastIndexed' = lastIndexed /\ FirstInv' /\ KnownInv'
<1> DEFINE n == Len(view)
           u == FirstUncled
<1>1. /\ queue' = Tail(queue) /\ OnUpdate(Head(queue)) /\ pc' = pc /\ blocks' = blocks
      /\ pending' = pending /\ failures' = failures /\ chain' = chain
  BY DEF NextQueued, node
<1>2. /\ NodeOK /\ ViewAt(view, got, lastIndexed) /\ LoadedAt(Floor, blocks, lastIndexed)
  BY RunningFacts
<1>3. /\ Floor \in Nat /\ Floor >= lastIndexed - MaxReorgDepth /\ blocks \in Seq(Header)
      /\ MaxReorgDepth \in Nat \ {0}
  BY <1>2, LoadedFacts, Heights
<1>4. lastIndexed # 0 /\ queue = Catchup(Floor) \o News(blocks, 0)
  BY DEF Restarting
<1>5. /\ u \in Nat /\ u >= 1 /\ u = lastIndexed - MaxReorgDepth + 1
      /\ Head(queue) = Uncle(u)
      /\ u <= Floor => queue' = <<Warp(u, Floor)>> \o News(blocks, 0)
  BY <1>1, <1>2, <1>3, <1>4, CatchupIs
<1> HIDE DEF u
<1>6. OnUpdate(Uncle(u))
  BY <1>1, <1>5
<1>7. view' = Before(u) /\ got' = SubSeq(got, 1, Least(Len(got), Len(view')))
  BY <1>6, UpdateIs
<1>8. /\ view \in Seq(Header) /\ n \in Nat /\ Len(got) \in Nat /\ Len(got) <= n
      /\ lastIndexed \in Nat /\ got \in Seq(Seq(Log)) /\ PieceNow(view)
      /\ \A i \in 1..n : view[i].number \in Nat /\ view[i].number >= 1
      /\ \A i \in 1..n : chain[view[i].number] = view[i]
  BY <1>2, ViewOnChain DEF ViewAt
<1>9. out' = <<>> /\ lastIndexed' = lastIndexed
  <2>1. HandleTransitions(<<>>)
    BY <1>6 DEF OnUpdate, Uncle
  <2> QED
    BY <1>8, <2>1, NothingOut
<1>10. transitions' = transitions /\ transitions \in Seq(Transition)
  BY <1>9, NothingMore DEF QueueInv
<1>11. /\ firstBlock' = firstBlock /\ asked' = asked /\ Known \subseteq Known'
  <2>1. out' \in Seq(Transition)
    BY <1>9
  <2> QED
    BY <1>1, <1>10, <2>1, KnownGrows
<1>12. PICK k \in 0..n :
         /\ Before(u) = SubSeq(view, 1, k)
         /\ \A i \in 1..k : view[i].number < u
         /\ k < n => view[k + 1].number >= u
  <2>1. u \in Int
    BY <1>5
  <2> QED
    BY <1>2, <1>8, <2>1, BeforeIs
<1>13. view' \in Seq(Header) /\ Len(view') = k /\ \A i \in 1..k : view'[i] = view[i]
  <2>1. k \in Nat /\ k <= n /\ \A i \in 1..k : view[i] \in Header
    BY <1>8
  <2> DEFINE w == SubSeq(view, 1, k)
  <2>2. w \in Seq(Header) /\ Len(w) = k /\ \A i \in 1..k : w[i] = view[i]
    BY <1>8, <2>1, SubSeqProperties
  <2>3. view' = w
    BY <1>7, <1>12
  <2> HIDE DEF w
  <2> QED
    BY <2>2, <2>3
<1>14. PICK j \in 0..Len(got) : j <= k /\ Len(got') = j /\ \A i \in 1..j : got'[i] = got[i]
  <2> DEFINE j == Least(Len(got), k)
  <2>1. j \in 0..Len(got) /\ j <= k
    BY <1>8 DEF Least
  <2>2. got' = SubSeq(got, 1, j)
    BY <1>7, <1>13
  <2> HIDE DEF j
  <2> DEFINE S == Seq(Log)
             w == SubSeq(got, 1, j)
  <2>3. got \in Seq(S) /\ j \in Nat /\ \A i \in 1..j : got[i] \in S
    BY <1>8, <2>1
  <2> HIDE DEF S
  <2>4. Len(w) = j /\ \A i \in 1..j : w[i] = got[i]
    BY <2>3, SubSeqProperties
  <2> HIDE DEF w
  <2>5. got' = w
    BY <2>2 DEF w
  <2> QED
    BY <2>1, <2>4, <2>5
<1>15. Floor' = Floor /\ FirstUncled' = u /\ (u <= Floor => ~CaughtUp')
  <2>1. Floor' = Floor /\ FirstUncled' = u
    BY <1>1, <1>9 DEF Floor, FirstUncled, u
  <2>2. ASSUME u <= Floor PROVE ~CaughtUp'
    <3>1. queue' # <<>> /\ Head(queue') = Warp(u, Floor)
      BY <1>3, <1>5, <2>2, WarpHead
    <3> QED
      BY <3>1 DEF CaughtUp, Warp
  <2> QED
    BY <2>1, <2>2
<1>16. firstBlock \in Nat /\ (view # <<>> => view[1].number <= firstBlock)
       /\ (view = <<>> => u <= firstBlock)
  BY <1>4 DEF FirstInv, u
<1>17. view' = <<>> => u <= firstBlock
  <2> SUFFICES ASSUME view' = <<>>, view # <<>> PROVE u <= firstBlock
    BY <1>16
  <2>1. k = 0 /\ n >= 1
    BY <1>8, <1>13
  <2>2. view[1].number >= u /\ view[1].number \in Nat
    BY <1>8, <1>12, <2>1
  <2> QED
    BY <1>5, <1>16, <2>2
<1>18. FirstInv'
  <2>1. view' # <<>> => view'[1].number <= firstBlock
    <3> HAVE view' # <<>>
    <3>1. k >= 1 /\ 1 \in 1..k /\ n >= 1
      BY <1>8, <1>13
    <3> QED
      BY <1>8, <1>13, <1>16, <3>1
  <2>2. CaughtUp' /\ view' = <<>> => Floor' + 1 <= firstBlock
    BY <1>3, <1>5, <1>15, <1>16, <1>17
  <2> QED
    BY <1>1, <1>11, <1>15, <1>16, <1>17, <2>1, <2>2 DEF FirstInv
<1>19. KnownInv'
  <2>1. asked' \in Seq(Transition)
    BY <1>11 DEF KnownInv
  <2>2. \A i \in 1..j : i \in 1..Len(got) /\ i \in 1..k /\ i \in 1..n
                        /\ view'[i] = view[i] /\ got'[i] = got[i]
    BY <1>8, <1>13, <1>14
  <2>3. \A i \in 1..Len(got') : Told(view'[i], got'[i], failures')
    BY <1>1, <1>14, <2>2 DEF KnownInv
  <2>4. \A x \in 1..lastIndexed' - 1 : x >= firstBlock' =>
          \A l \in Sure(chain'[x], failures') : EventOf(chain'[x], l) \in Known'
    BY <1>1, <1>9, <1>11 DEF KnownInv
  <2>5. \A i \in 1..Len(got') : view'[i].number >= firstBlock' =>
            \A l \in Sure(view'[i], failures') : EventOf(view'[i], l) \in Known'
    <3> TAKE i \in 1..Len(got')
    <3> HAVE view'[i].number >= firstBlock'
    <3> DEFINE x == view[i].number
    <3>1. i \in 1..k /\ i \in 1..n /\ view'[i] = view[i]
      BY <1>14, <2>2
    <3>2. x < u /\ x \in Nat /\ x >= 1 /\ chain[x] = view[i]
      BY <1>8, <1>12, <3>1
    <3>3. x >= firstBlock
      BY <1>11, <3>1
    <3> HIDE DEF x
    <3>4. x \in 1..lastIndexed - 1
      BY <1>3, <1>5, <1>8, <3>2
    <3>5. \A l \in Sure(chain[x], failures) : EventOf(chain[x], l) \in Known
      BY <3>3, <3>4 DEF KnownInv
    <3> QED
      BY <1>1, <1>11, <3>1, <3>2, <3>5
  <2> QED
    BY <2>1, <2>3, <2>4, <2>5 DEF KnownInv
<1> QED
  BY <1>9, <1>18, <1>19

LEMMA WarpKnown ==
  ASSUME WatcherInv, Unforked, QueueInv, FirstInv, KnownInv, pc = "running",
         Rewound, NextQueued, Receive
  PROVE  out' = <<>> /\ lastIndexed' = lastIndexed /\ FirstInv' /\ KnownInv'
<1> DEFINE n == Len(view)
           u == FirstUncled
           p == SubSeq(chain, u, Floor)
<1>1. /\ queue' = Tail(queue) /\ OnUpdate(Head(queue)) /\ pc' = pc /\ blocks' = blocks
      /\ pending' = pending /\ failures' = failures /\ chain' = chain
  BY DEF NextQueued, node
<1>2. /\ NodeOK /\ ViewAt(view, got, lastIndexed) /\ LoadedAt(Floor, blocks, lastIndexed)
  BY RunningFacts
<1>3. /\ Floor \in Nat /\ Floor >= lastIndexed - MaxReorgDepth /\ blocks \in Seq(Header)
      /\ MaxReorgDepth \in Nat \ {0} /\ Floor < Height /\ Height \in Nat
      /\ chain \in Seq(Header) /\ Height = Len(chain)
  <2>1. Floor \in Nat /\ Floor <= Final /\ Final \in Nat /\ Final < Height /\ Height \in Nat
    BY <1>2, LoadedFacts, Heights
  <2> QED
    BY <1>2, <2>1, LoadedFacts, Heights, ViewOnChain
<1>4. /\ lastIndexed # 0 /\ u <= Floor /\ queue = <<Warp(u, Floor)>> \o News(blocks, 0)
      /\ Len(got) = n
      /\ view # <<>> => view[n].number = u - 1
  BY DEF Rewound
<1>5. Head(queue) = Warp(u, Floor)
  BY <1>3, <1>4, WarpHead
<1>6. OnUpdate(Warp(u, Floor))
  BY <1>1, <1>5
<1>7. view' = view \o p /\ got' = got
  BY <1>6, UpdateIs
<1>8. /\ view \in Seq(Header) /\ n \in Nat /\ lastIndexed \in Nat
      /\ \A i \in 1..n : view[i].number \in Nat /\ view[i].number >= 1
      /\ \A i, j \in 1..n : view[j].number = view[i].number + (j - i)
      /\ \A i \in 1..n : chain[view[i].number] = view[i]
  BY ViewOnChain
<1>9. u \in Nat /\ u >= 1 /\ u = lastIndexed - MaxReorgDepth + 1
  BY <1>2, <1>3, <1>4, CatchupIs
<1> HIDE DEF u
<1>10. out' = <<>> /\ lastIndexed' = lastIndexed
  <2>1. HandleTransitions(<<>>)
    BY <1>6 DEF OnUpdate, Warp
  <2> QED
    BY <1>8, <2>1, NothingOut
<1>11. transitions' = transitions /\ transitions \in Seq(Transition)
  BY <1>10, NothingMore DEF QueueInv
<1>12. /\ firstBlock' = firstBlock /\ asked' = asked /\ Known \subseteq Known'
  <2>1. out' \in Seq(Transition)
    BY <1>10
  <2> QED
    BY <1>1, <1>11, <2>1, KnownGrows
<1>13. /\ p \in Seq(Header) /\ Len(p) \in Nat /\ Len(p) >= 1 /\ p[1].number = u
  <2>1. u \in Int /\ Floor \in Int /\ \A i \in u..Floor : chain[i] \in Header /\ i \in 1..Height
    BY <1>3, <1>9
  <2>2. p \in Seq(Header) /\ Len(p) = Floor - u + 1
    BY <1>4, <2>1, SubSeqProperties
  <2>3. p[1] = chain[u + 1 - 1]
    BY <1>3, <1>4, <1>9, <2>1, SubSeqProperties
  <2>4. u + 1 - 1 = u /\ u \in 1..Height
    BY <1>3, <1>4, <1>9
  <2>5. chain[u].number = u
    BY <1>2, <2>4, ChainFacts
  <2> HIDE DEF p
  <2> QED
    BY <1>3, <1>4, <1>9, <2>2, <2>3, <2>4, <2>5
<1> HIDE DEF p
<1>14. /\ Len(view') = n + Len(p)
       /\ \A i \in 1..n : view'[i] = view[i]
       /\ n = 0 => view'[1] = p[1]
       /\ view' # <<>>
  <2> DEFINE w == view \o p
  <2>1. w \in Seq(Header) /\ Len(w) = n + Len(p)
    BY <1>8, <1>13, ConcatPlaces
  <2>2. \A i \in 1..n : w[i] = view[i]
    BY <1>8, <1>13, ConcatPlaces
  <2>3. 1 \in 1..Len(p)
    BY <1>13
  <2>4. w[n + 1] = p[1]
    BY <1>8, <1>13, <2>3, ConcatPlaces
  <2> HIDE DEF w
  <2>5. n = 0 => w[1] = p[1]
    <3> HAVE n = 0
    <3>1. n + 1 = 1
      OBVIOUS
    <3> QED
      BY <2>4, <3>1
  <2>6. w # <<>>
    BY <1>8, <1>13, <2>1
  <2>7. view' = w
    BY <1>7 DEF w
  <2> QED
    BY <2>1, <2>2, <2>5, <2>6, <2>7
<1>15. firstBlock \in Nat /\ (view # <<>> => view[1].number <= firstBlock)
       /\ (view = <<>> => u <= firstBlock)
  BY <1>4 DEF FirstInv, u
<1>16. FirstInv'
  <2>1. view'[1].number <= firstBlock
    <3>1. CASE view = <<>>
      <4>1. n = 0
        BY <3>1
      <4> QED
        BY <1>13, <1>14, <1>15, <3>1, <4>1
    <3>2. CASE view # <<>>
      <4>1. 1 \in 1..n
        BY <1>8, <3>2
      <4> QED
        BY <1>14, <1>15, <3>2, <4>1
    <3> QED
      BY <3>1, <3>2
  <2> QED
    BY <1>1, <1>12, <1>14, <1>15, <2>1 DEF FirstInv
<1>17. KnownInv'
  <2>1. asked' \in Seq(Transition)
    BY <1>12 DEF KnownInv
  <2>2. \A i \in 1..Len(got') : i \in 1..n /\ i \in 1..Len(got)
                                /\ view'[i] = view[i] /\ got'[i] = got[i]
    BY <1>4, <1>7, <1>14
  <2>3. \A i \in 1..Len(got') : Told(view'[i], got'[i], failures')
    BY <1>1, <2>2 DEF KnownInv
  <2>4. \A x \in 1..lastIndexed' - 1 : x >= firstBlock' =>
          \A l \in Sure(chain'[x], failures') : EventOf(chain'[x], l) \in Known'
    BY <1>1, <1>10, <1>12 DEF KnownInv
  <2>5. \A i \in 1..Len(got') : view'[i].number >= firstBlock' =>
            \A l \in Sure(view'[i], failures') : EventOf(view'[i], l) \in Known'
    <3> TAKE i \in 1..Len(got')
    <3> HAVE view'[i].number >= firstBlock'
    <3> DEFINE x == view[i].number
    <3>1. i \in 1..n /\ view'[i] = view[i]
      BY <2>2
    <3>2. x \in Nat /\ x >= 1 /\ chain[x] = view[i]
      BY <1>8, <3>1
    <3>3. x >= firstBlock
      BY <1>12, <3>1
    <3>4. x <= u - 1
      <4>1. n \in 1..n /\ view # <<>>
        BY <1>8, <3>1
      <4>2. view[n].number = x + (n - i)
        BY <1>8, <3>1, <4>1
      <4>3. view[n].number = u - 1
        BY <1>4, <4>1
      <4> HIDE DEF x, n
      <4>4. i \in Nat /\ n \in Nat /\ i <= n
        BY <1>8, <3>1
      <4>5. x + (n - i) = u - 1
        BY <4>2, <4>3
      <4> QED
        BY <1>9, <3>2, <4>4, <4>5
    <3> HIDE DEF x
    <3>5. x \in 1..lastIndexed - 1
      BY <1>3, <1>8, <1>9, <3>2, <3>4
    <3>6. \A l \in Sure(chain[x], failures) : EventOf(chain[x], l) \in Known
      BY <3>3, <3>5 DEF KnownInv
    <3> QED
      BY <1>1, <1>12, <3>1, <3>2, <3>6
  <2> QED
    BY <2>1, <2>3, <2>4, <2>5 DEF KnownInv
<1> QED
  BY <1>10, <1>16, <1>17

(***************************************************************************)
(* A step of the watcher.                                                  *)
(***************************************************************************)
LEMMA UnforkedSame ==
  ASSUME Unforked, UNCHANGED node
  PROVE  Unforked'
BY NodeSame DEF Unforked, node

\* What holds of the queue and the state, but for the watcher.
MachineInv == QueueInv /\ PerformInv /\ AppliedInv /\ FirstInv /\ KnownInv

LEMMA ReportStepInv ==
  ASSUME FeedInv, Receive, WatcherInv', pc = "running", pc' = "running", CaughtUp, CaughtUp',
         failures' = failures, UNCHANGED node, NEW b \in Header, Reports(b)
  PROVE  MachineInv'
<1>1. WatcherInv /\ Unforked /\ QueueInv /\ PerformInv /\ AppliedInv /\ FirstInv /\ KnownInv
  BY DEF FeedInv
<1>2. HandsOver
  BY <1>1, ReportHandsOver
<1>3. lastIndexed \in Nat
  BY <1>1, ViewOnChain
<1>4. QueueInv' /\ PerformInv' /\ AppliedInv'
  BY <1>1, <1>2, <1>3, ReceivedQueue
<1>5. FirstInv' /\ KnownInv'
  BY <1>1, ReportKnown DEF node
<1> QED
  BY <1>4, <1>5 DEF MachineInv

LEMMA HandsStepInv ==
  ASSUME FeedInv, Receive, WatcherInv', pc = "running", pc' = "running", CaughtUp,
         queue' = queue, UNCHANGED node, failures' \in Nat, failures' >= failures, Hands
  PROVE  MachineInv'
<1>1. WatcherInv /\ Unforked /\ QueueInv /\ PerformInv /\ AppliedInv /\ FirstInv /\ KnownInv
  BY DEF FeedInv
<1>2. PICK bs, answer : /\ HandsLogs(bs, answer)
                        /\ \A i \in 1..Len(bs) : Told(bs[i], answer[i], failures')
  BY DEF Hands
<1>3. HandsOver
  BY <1>1, <1>2, LogsHandOver
<1>4. lastIndexed \in Nat /\ failures \in Nat
  BY <1>1, ViewOnChain DEF WatcherInv, Counted
<1>5. CaughtUp' /\ chain' = chain
  BY DEF CaughtUp, node
<1>6. QueueInv' /\ PerformInv' /\ AppliedInv'
  BY <1>1, <1>3, <1>4, <1>5, ReceivedQueue
<1>7. FirstInv' /\ KnownInv'
  BY <1>1, <1>2, <1>4, <1>5, HandsKnown
<1> QED
  BY <1>6, <1>7 DEF MachineInv

LEMMA FailsStepInv ==
  ASSUME FeedInv, Receive, WarpFails \/ BlockLogsFail
  PROVE  MachineInv'
<1>1. WatcherInv /\ Unforked /\ QueueInv /\ PerformInv /\ AppliedInv /\ FirstInv /\ KnownInv
  BY DEF FeedInv
<1>2. /\ pc = "running" /\ pc' = pc /\ step # Idle /\ out' = <<>>
      /\ UNCHANGED consumer /\ queue' = queue /\ blocks' = blocks /\ pending' = pending
      /\ chain' = chain /\ (UNCHANGED failures \/ Failing)
  BY DEF WarpFails, BlockLogsFail, Idle, blockWatcher, node
<1>3. lastIndexed \in Nat /\ failures \in Nat
  BY <1>1, ViewOnChain DEF WatcherInv, Counted
<1>4. failures' \in Nat /\ failures' >= failures
  BY <1>2, <1>3 DEF Failing
<1>5. HandsOver /\ FirstInv' /\ KnownInv'
  BY <1>1, <1>2, <1>3, <1>4, NothingKnown
<1>6. CaughtUp
  BY <1>1, <1>2, BusyCaughtUp
<1>7. CaughtUp'
  BY <1>2, <1>6 DEF CaughtUp
<1>8. QueueInv' /\ PerformInv' /\ AppliedInv'
  BY <1>1, <1>2, <1>3, <1>5, <1>7, ReceivedQueue
<1> QED
  BY <1>5, <1>8 DEF MachineInv

LEMMA CatchupStepInv ==
  ASSUME FeedInv, Receive, NextQueued, ~CaughtUp
  PROVE  MachineInv'
<1>1. WatcherInv /\ Unforked /\ QueueInv /\ PerformInv /\ AppliedInv /\ FirstInv /\ KnownInv
  BY DEF FeedInv
<1>2. pc = "running"
  BY DEF NextQueued
<1>3. Restarting \/ Rewound
  BY <1>1, <1>2, RunningFacts, NewsQueued
<1>4. out' = <<>> /\ lastIndexed' = lastIndexed /\ FirstInv' /\ KnownInv'
  BY <1>1, <1>2, <1>3, UncleKnown, WarpKnown
<1>5. Blank
  BY <1>1 DEF QueueInv
<1>6. QueueInv' /\ PerformInv' /\ AppliedInv'
  BY <1>1, <1>2, <1>4, <1>5, BlankStep
<1> QED
  BY <1>4, <1>6 DEF MachineInv

LEMMA ReceiveStep ==
  ASSUME FeedInv, Receive
  PROVE  FeedInv'
<1>1. WatcherInv /\ Unforked /\ Watching
  BY DEF FeedInv, Receive
<1>2. WatcherInv'
  BY <1>1, WatchingStep
<1>3. MachineInv' /\ UNCHANGED node
  <2>1. CASE NextQueued
    <3>1. CASE CaughtUp
      <4>1. /\ pc = "running" /\ pc' = "running" /\ CaughtUp' /\ failures' = failures
            /\ UNCHANGED node /\ \E b \in Header : Reports(b)
        BY <1>1, <2>1, <3>1, QueuedReport
      <4> QED
        BY <1>2, <3>1, <4>1, ReportStepInv
    <3>2. CASE ~CaughtUp
      BY <2>1, <3>2, CatchupStepInv DEF NextQueued
    <3> QED
      BY <3>1, <3>2
  <2>2. CASE NextPending
    <3>1. /\ pc = "running" /\ pc' = "running" /\ CaughtUp' /\ failures' = failures
          /\ UNCHANGED node /\ \E b \in Header : Reports(b)
      BY <1>1, <2>2, PendingReport
    <3>2. CaughtUp
      BY <2>2 DEF NextPending, CaughtUp
    <3> QED
      BY <1>2, <3>1, <3>2, ReportStepInv
  <2>3. CASE WarpPage
    BY <1>1, <1>2, <2>3, PageHands, HandsStepInv
  <2>4. CASE BlockLogs
    BY <1>1, <1>2, <2>4, BlockHands, HandsStepInv
  <2>5. CASE WarpFails \/ BlockLogsFail
    <3>1. UNCHANGED node
      BY <2>5 DEF WarpFails, BlockLogsFail
    <3> QED
      BY <2>5, <3>1, FailsStepInv
  <2> QED
    BY <1>1, <2>1, <2>2, <2>3, <2>4, <2>5 DEF Watching
<1>4. Unforked'
  BY <1>1, <1>3, UnforkedSame
<1> QED
  BY <1>2, <1>3, <1>4 DEF FeedInv, MachineInv

(***************************************************************************)
(* The other steps.                                                        *)
(***************************************************************************)
LEMMA SureLogs ==
  ASSUME NEW b \in Header, NEW f, NEW l \in Sure(b, f)
  PROVE  /\ l \in Log /\ IsEvent(EventOf(b, l)) /\ EventOf(b, l).block = b.number
         /\ EventOf(b, l) \in Transition
<1>1. l \in ToSet(Answered(b, {}))
  BY DEF Sure
<1>2. l \in ToSet(b.logs)
  BY <1>1, AnsweredLogs
<1>3. b.logs \in Seq(Log)
  BY HeaderFacts, LogListFacts
<1>4. l \in Log
  BY <1>2, <1>3, ToSetPlaces
<1> QED
  BY <1>4, EventOfFacts

\* The state machine goes on, and no event is lost.
LEMMA MachineKnown ==
  ASSUME WatcherInv, Unforked, FirstInv, KnownInv,
         UNCHANGED <<node, pc, blockWatcher, step, consumer, failures, stops>>,
         firstBlock' = firstBlock, asked' \in Seq(Transition),
         \A t \in Known : IsEvent(t) => t \in Known'
  PROVE  FirstInv' /\ KnownInv'
<1>1. /\ chain' = chain /\ pc' = pc /\ queue' = queue /\ blocks' = blocks /\ pending' = pending
      /\ lastIndexed' = lastIndexed /\ view' = view /\ got' = got /\ failures' = failures
      /\ safe' = safe
  BY DEF node, blockWatcher, consumer
<1>2. /\ Floor' = Floor /\ (CaughtUp' <=> CaughtUp) /\ FirstUncled' = FirstUncled
  BY <1>1 DEF Floor, CaughtUp, FirstUncled
<1>3. FirstInv'
  BY <1>1, <1>2 DEF FirstInv
<1>4. /\ lastIndexed \in Nat /\ lastIndexed <= Height /\ Height \in Nat /\ NodeOK
      /\ Len(got) \in Nat /\ Len(got) <= Len(view) /\ Len(view) \in Nat
      /\ \A i \in 1..Len(view) : view[i] \in Header
  BY ViewOnChain
<1>5. \A x \in 1..lastIndexed - 1 : x \in 1..Height
  BY <1>4
<1>6. \A x \in 1..lastIndexed - 1 : chain[x] \in Header
  BY <1>4, <1>5, ChainFacts
<1>7. \A i \in 1..Len(got) : view[i] \in Header
  BY <1>4
<1>8. \A b \in Header : \A l \in Sure(b, failures) :
        EventOf(b, l) \in Known => EventOf(b, l) \in Known'
  BY SureLogs
<1>9. \A x \in 1..lastIndexed - 1 : x >= firstBlock =>
        \A l \in Sure(chain[x], failures) : EventOf(chain[x], l) \in Known'
  BY <1>6, <1>8 DEF KnownInv
<1>10. pc = "running" /\ CaughtUp => \A i \in 1..Len(got) : view[i].number >= firstBlock =>
         \A l \in Sure(view[i], failures) : EventOf(view[i], l) \in Known'
  BY <1>7, <1>8 DEF KnownInv
<1>11. \A i \in 1..Len(got) : Told(view[i], got[i], failures)
  BY DEF KnownInv
<1>12. KnownInv'
  BY <1>1, <1>2, <1>9, <1>10, <1>11 DEF KnownInv
<1> QED
  BY <1>3, <1>12

LEMMA PerformFeed ==
  ASSUME FeedInv, Perform
  PROVE  FeedInv'
<1>1. WatcherInv /\ Unforked /\ QueueInv /\ PerformInv /\ AppliedInv /\ FirstInv /\ KnownInv
  BY DEF FeedInv
<1>2. UNCHANGED <<node, pc, blockWatcher, step, consumer, failures, stops>> /\ firstBlock' = firstBlock
  BY DEF Perform, boots
<1>3. lastIndexed \in Nat
  BY <1>1, ViewOnChain
<1>4. /\ QueueInv' /\ PerformInv' /\ AppliedInv'
      /\ transitions' = transitions /\ applied' = applied /\ asked' = asked
      /\ cut' = cut /\ failed \subseteq failed'
  BY <1>1, <1>3, PerformStep
<1>5. Known \subseteq Known'
  <2>1. Unread' = Unread
    BY <1>2, UnreadSame DEF node
  <2> QED
    BY <1>4, <2>1 DEF Known, Done
<1>6. asked' \in Seq(Transition)
  BY <1>1, <1>4 DEF KnownInv
<1>7. FirstInv' /\ KnownInv'
  BY <1>1, <1>2, <1>5, <1>6, MachineKnown
<1>8. WatcherInv'
  BY <1>1, <1>2, WatcherSame
<1>9. Unforked'
  BY <1>1, <1>2, UnforkedSame
<1> QED
  BY <1>4, <1>7, <1>8, <1>9 DEF FeedInv

LEMMA SettleFeed ==
  ASSUME FeedInv, Settle
  PROVE  FeedInv'
<1>1. WatcherInv /\ Unforked /\ QueueInv /\ PerformInv /\ AppliedInv /\ FirstInv /\ KnownInv
  BY DEF FeedInv
<1>2. UNCHANGED <<node, pc, blockWatcher, step, consumer, failures, stops>> /\ firstBlock' = firstBlock
  BY DEF Settle, boots
<1>3. lastIndexed \in Nat /\ asked \in Seq(Transition)
  BY <1>1, ViewOnChain DEF KnownInv
<1>4. /\ QueueInv' /\ PerformInv' /\ AppliedInv' /\ asked' \in Seq(Transition)
      /\ Done \subseteq Done'
      /\ \A t \in ToSet(transitions) : IsEvent(t) => t \in Known'
  BY <1>1, <1>3, SettleStep
<1>5. \A t \in Known : IsEvent(t) => t \in Known'
  BY <1>4 DEF Known
<1>6. FirstInv' /\ KnownInv'
  BY <1>1, <1>2, <1>4, <1>5, MachineKnown
<1>7. WatcherInv'
  BY <1>1, <1>2, WatcherSame
<1>8. Unforked'
  BY <1>1, <1>2, UnforkedSame
<1> QED
  BY <1>4, <1>6, <1>7, <1>8 DEF FeedInv

\* The process ends: its part of what was indexed is done or cut.
LEMMA HaltKnown ==
  ASSUME WatcherInv, Unforked, FirstInv, KnownInv, Halt, firstBlock' = firstBlock,
         failures \in Nat, failures' \in Nat, failures' >= failures, asked' \in Seq(Transition),
         \A t \in Known : IsEvent(t) /\ t.block < lastIndexed => t \in Known'
  PROVE  FirstInv' /\ KnownInv' /\ UNCHANGED node
<1>1. /\ chain' = chain /\ pc' = "down" /\ lastIndexed' = lastIndexed /\ view' = view
      /\ got' = got /\ UNCHANGED node
  BY DEF Halt, node, consumer
<1>2. FirstUncled' = FirstUncled
  BY <1>1 DEF FirstUncled
<1>3. FirstInv'
  BY <1>1, <1>2 DEF FirstInv
<1>4. /\ lastIndexed \in Nat /\ lastIndexed <= Height /\ Height \in Nat /\ NodeOK
  BY ViewOnChain
<1>5. ASSUME NEW x \in 1..lastIndexed - 1, x >= firstBlock, NEW l \in Sure(chain[x], failures')
      PROVE  EventOf(chain[x], l) \in Known'
  <2>1. x \in 1..Height /\ x < lastIndexed
    BY <1>4
  <2>2. chain[x] \in Header /\ chain[x].number = x
    BY <1>4, <2>1, ChainFacts
  <2>3. l \in Sure(chain[x], failures)
    BY ToldFewer, <1>5
  <2>4. EventOf(chain[x], l) \in Known
    BY <1>5, <2>3 DEF KnownInv
  <2>5. IsEvent(EventOf(chain[x], l)) /\ EventOf(chain[x], l).block = x
    BY <2>2, <2>3, SureLogs
  <2> QED
    BY <2>1, <2>4, <2>5
<1>6. \A i \in 1..Len(got) : Told(view[i], got[i], failures')
  BY ToldFewer DEF KnownInv
<1>7. KnownInv'
  BY <1>1, <1>5, <1>6 DEF KnownInv
<1> QED
  BY <1>1, <1>3, <1>7

LEMMA KillFeed ==
  ASSUME FeedInv, Kill
  PROVE  FeedInv'
<1>1. WatcherInv /\ Unforked /\ QueueInv /\ PerformInv /\ AppliedInv /\ FirstInv /\ KnownInv
  BY DEF FeedInv
<1>2. Stop /\ Halt /\ failures' = failures /\ firstBlock' = firstBlock
  BY DEF Kill, Stop, boots
<1>3. lastIndexed \in Nat /\ asked \in Seq(Transition) /\ failures \in Nat
  BY <1>1, ViewOnChain DEF KnownInv, WatcherInv, Counted
<1>4. /\ QueueInv' /\ PerformInv' /\ AppliedInv' /\ asked' \in Seq(Transition)
      /\ Done \subseteq Done'
      /\ \A t \in ToSet(transitions) : t.block < lastIndexed => t \in Done'
  BY <1>1, <1>3, KillStep
<1>5. \A t \in Known : IsEvent(t) /\ t.block < lastIndexed => t \in Known'
  BY <1>4 DEF Known
<1>6. FirstInv' /\ KnownInv' /\ UNCHANGED node
  BY <1>1, <1>2, <1>3, <1>4, <1>5, HaltKnown
<1>7. WatcherInv'
  BY <1>1, <1>2, HaltStep
<1>8. Unforked'
  BY <1>1, <1>6, UnforkedSame
<1> QED
  BY <1>4, <1>6, <1>7, <1>8 DEF FeedInv

\* The state machine rests: the queue is empty or nothing moves.
LEMMA RestingInv ==
  ASSUME QueueInv, PerformInv, AppliedInv, UNCHANGED <<machine, stored>>,
         lastIndexed' = lastIndexed, lastIndexed \in Nat, Unread \subseteq Unread',
         \/ Blank /\ resumedAt' = lastIndexed
         \/ Blank /\ resumedAt' = resumedAt /\ (pc = "down" => pc' = "down")
         \/ resumedAt' = resumedAt /\ pc' = pc /\ queue' = queue /\ view' = view /\ got' = got
  PROVE  QueueInv' /\ PerformInv' /\ AppliedInv' /\ Known \subseteq Known'
<1>1. /\ transitions' = transitions /\ diffs' = diffs /\ performing' = performing
      /\ lastProcessedBlock' = lastProcessedBlock /\ lastProcessedIndex' = lastProcessedIndex
      /\ applied' = applied /\ asked' = asked /\ failed' = failed /\ cut' = cut
  BY DEF machine, stored
<1>2. Known \subseteq Known'
  BY <1>1 DEF Known, Done
<1>3. PerformInv'
  <2>1. CASE performing
    <3>1. resumedAt' = resumedAt
      BY <2>1 DEF Blank
    <3> QED
      BY <1>1, <2>1, <3>1 DEF PerformInv
  <2>2. CASE ~performing
    BY <1>1, <2>2 DEF PerformInv
  <2> QED
    BY <2>1, <2>2
<1>4. Ordered(transitions') /\ transitions' \in Seq(Transition) /\ resumedAt \in Nat
  BY <1>1 DEF QueueInv
<1>5. CASE Blank
  <2>1. Blank' /\ transitions' = <<>> /\ Len(transitions') = 0
    BY <1>1, <1>5 DEF Blank
  <2>2. resumedAt' \in Nat /\ resumedAt' <= lastIndexed'
    BY DEF QueueInv
  <2>3. QueueInv'
    <3>1. performing' \in BOOLEAN /\ lastProcessedBlock' \in Nat /\ lastProcessedIndex' \in Nat
          /\ (lastProcessedBlock' = 0 => lastProcessedIndex' = 0)
      BY <1>1 DEF QueueInv
    <3> QED
      BY <1>4, <2>1, <2>2, <3>1 DEF QueueInv
  <2>4. applied \in Seq(Transition) /\ \A i \in 1..Len(applied) : applied[i].block <= lastIndexed
                                       /\ applied[i].block \in Nat
    <3>1. applied \in Seq(Transition)
      BY DEF AppliedInv
    <3>2. \A i \in 1..Len(applied) : applied[i] \in Transition
      BY <3>1
    <3> QED
      BY <3>1, <3>2, TransitionFacts DEF AppliedInv
  <2>5. pc' # "down" => \A i \in 1..Len(applied) : applied[i].block > resumedAt' =>
          ~Later(applied[i], lastProcessedBlock', lastProcessedIndex')
    <3>1. CASE resumedAt' = lastIndexed
      BY <2>4, <3>1
    <3>2. CASE resumedAt' = resumedAt /\ (pc = "down" => pc' = "down")
      BY <1>1, <3>2 DEF AppliedInv
    <3>3. CASE resumedAt' = resumedAt /\ pc' = pc
      BY <1>1, <3>3 DEF AppliedInv
    <3> QED
      BY <3>1, <3>2, <3>3
  <2>6. AppliedInv'
    BY <1>1, <2>1, <2>5 DEF AppliedInv
  <2> QED
    BY <1>2, <1>3, <2>3, <2>6
<1>6. CASE /\ resumedAt' = resumedAt /\ pc' = pc /\ queue' = queue
           /\ view' = view /\ got' = got
  <2>1. (Blank' <=> Blank) /\ (CaughtUp' <=> CaughtUp)
    BY <1>1, <1>6 DEF Blank, CaughtUp
  <2>2. QueueInv'
    BY <1>1, <1>4, <1>6, <2>1 DEF QueueInv
  <2>3. AppliedInv'
    BY <1>1, <1>6 DEF AppliedInv
  <2> QED
    BY <1>2, <1>3, <2>2, <2>3
<1> QED
  BY <1>5, <1>6

LEMMA GrowFeed ==
  ASSUME FeedInv, Grow
  PROVE  FeedInv'
<1>1. WatcherInv /\ Unforked /\ QueueInv /\ PerformInv /\ AppliedInv /\ FirstInv /\ KnownInv
  BY DEF FeedInv
<1>2. /\ Mine /\ UNCHANGED <<machine, stored>> /\ UNCHANGED boots
      /\ pc' = pc /\ UNCHANGED blockWatcher /\ UNCHANGED consumer /\ failures' = failures
      /\ reorgs' = reorgs /\ top' = Most(top, Height + 1)
  BY DEF Grow, Mine
<1>3. /\ queue' = queue /\ view' = view /\ got' = got /\ lastIndexed' = lastIndexed
      /\ safe' = safe /\ pending' = pending /\ blocks' = blocks
      /\ resumedAt' = resumedAt /\ firstBlock' = firstBlock /\ asked' = asked
  BY <1>2 DEF blockWatcher, consumer, boots, stored
<1>4. /\ chain \in Seq(Header) /\ Height \in Nat /\ Height = Len(chain) /\ NodeOK
      /\ lastIndexed \in Nat /\ lastIndexed <= Height
  BY <1>1, ViewOnChain
<1>5. WatcherInv'
  BY <1>1, <1>2, NodeStep
<1>6. Height' = Height + 1 /\ \A n \in 1..Height : chain'[n] = chain[n]
  <2>1. PICK logs \in LogSets : chain' = Grown(chain, reorgs, logs)
    BY <1>2 DEF Mine
  <2>2. reorgs \in Nat
    BY <1>4 DEF NodeOK
  <2>3. Len(chain') = Len(chain) + 1 /\ \A n \in 1..Len(chain) : chain'[n] = chain[n]
    BY <1>4, <2>1, <2>2, GrownFacts
  <2> QED
    BY <1>4, <2>3 DEF Height
<1>7. Unforked'
  <2>1. reorgs = 0 /\ top = Height
    BY <1>1 DEF Unforked
  <2>2. top' = Height + 1
    BY <1>2, <1>4, <2>1 DEF Most
  <2> QED
    BY <1>2, <1>6, <2>1, <2>2 DEF Unforked
<1>13. Unread \subseteq Unread'
  BY <1>4, <1>6, UnreadGrows
<1>8. QueueInv' /\ PerformInv' /\ AppliedInv' /\ Known \subseteq Known'
  BY <1>1, <1>2, <1>3, <1>4, <1>13, RestingInv
<1>9. FirstUncled' = FirstUncled /\ Floor' = Floor /\ (CaughtUp' <=> CaughtUp)
  BY <1>3 DEF FirstUncled, Floor, CaughtUp
<1>10. FirstInv'
  BY <1>1, <1>2, <1>3, <1>9 DEF FirstInv
<1>11. \A n \in 1..lastIndexed - 1 : chain'[n] = chain[n]
  BY <1>4, <1>6
<1>12. KnownInv'
  <2>1. asked' \in Seq(Transition)
    BY <1>1, <1>3 DEF KnownInv
  <2>2. \A i \in 1..Len(got') : Told(view'[i], got'[i], failures')
    BY <1>1, <1>2, <1>3 DEF KnownInv
  <2>3. \A x \in 1..lastIndexed' - 1 : x >= firstBlock' =>
          \A l \in Sure(chain'[x], failures') : EventOf(chain'[x], l) \in Known'
    BY <1>1, <1>2, <1>3, <1>8, <1>11 DEF KnownInv
  <2>4. pc' = "running" /\ CaughtUp' =>
          \A i \in 1..Len(got') : view'[i].number >= firstBlock' =>
            \A l \in Sure(view'[i], failures') : EventOf(view'[i], l) \in Known'
    BY <1>1, <1>2, <1>3, <1>8, <1>9 DEF KnownInv
  <2> QED
    BY <2>1, <2>2, <2>3, <2>4 DEF KnownInv
<1> QED
  BY <1>5, <1>7, <1>8, <1>10, <1>12 DEF FeedInv

\* A step of a process that is not running yet: it starts, loads or ends.
LEMMA LoadKnown ==
  ASSUME WatcherInv, Unforked, KnownInv, UNCHANGED node, UNCHANGED consumer,
         asked' = asked, Known \subseteq Known',
         lastIndexed # 0 => firstBlock' = firstBlock,
         failures' \in Nat, failures' >= failures,
         pc' = "running" /\ CaughtUp' => lastIndexed = 0
  PROVE  KnownInv'
<1>1. lastIndexed \in Nat /\ failures \in Nat /\ got \in Seq(Seq(Log)) /\ Len(got) \in Nat
      /\ Len(got) <= Len(view) /\ (lastIndexed = 0 => view = <<>>)
  BY ViewOnChain DEF Counted
<1>2. lastIndexed' = lastIndexed /\ view' = view /\ got' = got /\ chain' = chain
  BY DEF consumer, node
<1>3. \A b : /\ Sure(b, failures') \subseteq Sure(b, failures)
             /\ \A x : Told(b, x, failures) => Told(b, x, failures')
  BY <1>1, ToldFewer
<1>4. asked' \in Seq(Transition)
  BY DEF KnownInv
<1>5. \A i \in 1..Len(got') : Told(view'[i], got'[i], failures')
  BY <1>2, <1>3 DEF KnownInv
<1>6. \A x \in 1..lastIndexed' - 1 : x >= firstBlock' =>
        \A l \in Sure(chain'[x], failures') : EventOf(chain'[x], l) \in Known'
  <2>1. CASE lastIndexed = 0
    BY <1>2, <2>1
  <2>2. CASE lastIndexed # 0
    BY <1>2, <1>3, <2>2 DEF KnownInv
  <2> QED
    BY <2>1, <2>2
<1>7. pc' = "running" /\ CaughtUp' => Len(got') = 0
  <2> HAVE pc' = "running" /\ CaughtUp'
  <2>1. view = <<>>
    BY <1>1
  <2>2. Len(view) = 0
    BY <2>1
  <2> QED
    BY <1>1, <1>2, <2>2
<1>8. pc' = "running" /\ CaughtUp' =>
        \A i \in 1..Len(got') : view'[i].number >= firstBlock' =>
          \A l \in Sure(view'[i], failures') : EventOf(view'[i], l) \in Known'
  <2> HAVE pc' = "running" /\ CaughtUp'
  <2>1. 1..Len(got') = {}
    BY <1>7
  <2> QED
    BY <2>1
<1> QED
  BY <1>4, <1>5, <1>6, <1>8 DEF KnownInv

LEMMA StartFeed ==
  ASSUME FeedInv, Boot, Start
  PROVE  FirstInv' /\ KnownInv' /\ QueueInv' /\ PerformInv' /\ AppliedInv' /\ UNCHANGED node
<1>1. WatcherInv /\ Unforked /\ QueueInv /\ PerformInv /\ AppliedInv /\ FirstInv /\ KnownInv
  BY DEF FeedInv
<1>2. /\ pc = "down" /\ pc' = "fetching" /\ safe' = Most(Height - MaxReorgDepth, 0)
      /\ UNCHANGED node /\ UNCHANGED consumer /\ failures' = failures
      /\ UNCHANGED <<machine, stored>> /\ resumedAt' = lastIndexed
      /\ firstBlock' = IF lastIndexed = 0 THEN safe' + 1 ELSE firstBlock
  BY DEF Start, Boot
<1>3. lastIndexed' = lastIndexed /\ view' = view /\ asked' = asked
  BY <1>2 DEF consumer, stored
<1>4. lastIndexed \in Nat /\ Height \in Nat /\ (lastIndexed = 0 => view = <<>>) /\ failures \in Nat
  BY <1>1, ViewOnChain DEF Counted
<1>5. Blank /\ Unread' = Unread
  BY <1>1, <1>2, UnreadSame DEF QueueInv, node
<1>6. QueueInv' /\ PerformInv' /\ AppliedInv' /\ Known \subseteq Known'
  BY <1>1, <1>2, <1>3, <1>4, <1>5, RestingInv
<1>7. safe' \in Nat /\ firstBlock' \in Nat
  <2>1. safe' \in Nat
    BY <1>2, <1>4, WatcherAssumption DEF Most
  <2> QED
    BY <1>1, <1>2, <2>1 DEF FirstInv
<1>8. FirstUncled' = FirstUncled
  BY <1>3 DEF FirstUncled
<1>9. FirstInv'
  BY <1>1, <1>2, <1>3, <1>4, <1>7, <1>8 DEF FirstInv
<1>10. KnownInv'
  BY <1>1, <1>2, <1>3, <1>4, <1>6, LoadKnown
<1> QED
  BY <1>2, <1>6, <1>9, <1>10

LEMMA FetchFeed ==
  ASSUME FeedInv, Boot, Fetch
  PROVE  FirstInv' /\ KnownInv' /\ QueueInv' /\ PerformInv' /\ AppliedInv' /\ UNCHANGED node
<1>1. WatcherInv /\ Unforked /\ QueueInv /\ PerformInv /\ AppliedInv /\ FirstInv /\ KnownInv
  BY DEF FeedInv
<1>2. /\ pc = "fetching" /\ (pc' = "running" \/ (pc' = "fetching" /\ safe' = safe))
      /\ UNCHANGED node /\ UNCHANGED consumer /\ failures' = failures
      /\ UNCHANGED <<machine, stored>> /\ resumedAt' = resumedAt /\ firstBlock' = firstBlock
  BY DEF Fetch, Boot
<1>3. lastIndexed' = lastIndexed /\ view' = view /\ asked' = asked
  BY <1>2 DEF consumer, stored
<1>4. /\ lastIndexed \in Nat /\ failures \in Nat /\ NodeOK /\ ViewAt(view, got, lastIndexed)
  BY <1>1, ViewOnChain DEF Counted
<1>5. Blank /\ Unread' = Unread
  BY <1>1, <1>2, UnreadSame DEF QueueInv, node
<1>6. QueueInv' /\ PerformInv' /\ AppliedInv' /\ Known \subseteq Known'
  BY <1>1, <1>2, <1>3, <1>4, <1>5, RestingInv
<1>7. pc' = "running" => /\ Floor' = safe /\ blocks' \in Seq(Header)
                         /\ queue' = Catchup(safe) \o News(blocks', 0)
  BY <1>1, FetchStep
<1>8. Fetching
  BY <1>1, <1>2 DEF WatcherInv
<1>9. safe \in Nat /\ safe >= lastIndexed - MaxReorgDepth
  BY <1>4, <1>8, LoadedFacts DEF Fetching
<1>10. pc' = "running" /\ CaughtUp' => lastIndexed = 0
  <2> SUFFICES ASSUME pc' = "running", lastIndexed # 0 PROVE ~CaughtUp'
    OBVIOUS
  <2>1. queue' # <<>> /\ Head(queue') = Uncle(FirstUncled)
    BY <1>4, <1>7, <1>9, CatchupIs
  <2> QED
    BY <2>1 DEF CaughtUp, Uncle
<1>11. FirstUncled' = FirstUncled
  BY <1>3 DEF FirstUncled
<1>12. FirstInv'
  <2>1. lastIndexed = 0 => firstBlock = safe + 1
    BY <1>1, <1>2 DEF FirstInv
  <2>2. pc' = "running" /\ CaughtUp' => Floor' + 1 <= firstBlock'
    BY <1>2, <1>7, <1>9, <1>10, <2>1
  <2>3. firstBlock' \in Nat /\ (view' # <<>> => view'[1].number <= firstBlock')
        /\ (view' = <<>> /\ lastIndexed' # 0 => FirstUncled' <= firstBlock')
    BY <1>1, <1>2, <1>3, <1>11 DEF FirstInv
  <2>4. pc' = "fetching" /\ lastIndexed' = 0 => firstBlock' = safe' + 1
    BY <1>2, <1>3, <2>1
  <2> QED
    BY <2>2, <2>3, <2>4 DEF FirstInv
<1>13. KnownInv'
  BY <1>1, <1>2, <1>3, <1>4, <1>6, <1>10, LoadKnown
<1> QED
  BY <1>2, <1>6, <1>12, <1>13

LEMMA FetchFailsFeed ==
  ASSUME FeedInv, Boot, FetchFails
  PROVE  FirstInv' /\ KnownInv' /\ QueueInv' /\ PerformInv' /\ AppliedInv' /\ UNCHANGED node
<1>1. WatcherInv /\ Unforked /\ QueueInv /\ PerformInv /\ AppliedInv /\ FirstInv /\ KnownInv
  BY DEF FeedInv
<1>2. /\ pc = "fetching" /\ Halt /\ pc' = "down" /\ (Failing \/ failures' = failures)
      /\ UNCHANGED node /\ UNCHANGED consumer
      /\ UNCHANGED <<machine, stored>> /\ resumedAt' = resumedAt /\ firstBlock' = firstBlock
  BY DEF FetchFails, Halt, Boot
<1>3. lastIndexed' = lastIndexed /\ view' = view /\ asked' = asked
  BY <1>2 DEF consumer, stored
<1>4. /\ lastIndexed \in Nat /\ failures \in Nat
  BY <1>1, ViewOnChain DEF Counted
<1>5. failures' \in Nat /\ failures' >= failures
  BY <1>2, <1>4 DEF Failing
<1>6. Blank /\ Unread' = Unread
  BY <1>1, <1>2, UnreadSame DEF QueueInv, node
<1>7. QueueInv' /\ PerformInv' /\ AppliedInv' /\ Known \subseteq Known'
  BY <1>1, <1>2, <1>3, <1>4, <1>6, RestingInv
<1>8. FirstUncled' = FirstUncled
  BY <1>3 DEF FirstUncled
<1>9. FirstInv'
  BY <1>1, <1>2, <1>3, <1>8 DEF FirstInv
<1>10. KnownInv'
  BY <1>1, <1>2, <1>3, <1>5, <1>7, LoadKnown
<1> QED
  BY <1>2, <1>7, <1>9, <1>10

LEMMA BootFeed ==
  ASSUME FeedInv, Boot
  PROVE  FeedInv'
<1>1. WatcherInv /\ Unforked /\ Loading
  BY DEF FeedInv, Boot
<1>2. WatcherInv'
  BY <1>1, LoadingStep
<1>3. FirstInv' /\ KnownInv' /\ QueueInv' /\ PerformInv' /\ AppliedInv' /\ UNCHANGED node
  BY <1>1, StartFeed, FetchFeed, FetchFailsFeed DEF Loading
<1>4. Unforked'
  BY <1>1, <1>3, UnforkedSame
<1> QED
  BY <1>2, <1>3, <1>4 DEF FeedInv

(***************************************************************************)
(* The theorems.                                                           *)
(***************************************************************************)
LEMMA FeedInitInv ==
  ASSUME FeedInit
  PROVE  FeedInv
<1>1. /\ Init /\ transitions = <<>> /\ diffs = <<>> /\ performing = FALSE
      /\ lastProcessedBlock = 0 /\ lastProcessedIndex = 0
      /\ applied = <<>> /\ asked = <<>> /\ resumedAt = 0 /\ firstBlock = 0
  BY DEF FeedInit
<1>2. WatcherInv
  BY <1>1, InitStep
<1>3. /\ pc = "down" /\ lastIndexed = 0 /\ view = <<>> /\ got = <<>>
      /\ reorgs = 0 /\ top = StartHeight
  BY <1>1 DEF Init
<1>4. Len(chain) = StartHeight
  <2>1. PICK logs \in [1..StartHeight -> LogSets] :
          chain = [n \in 1..StartHeight |-> Block(n, 0, 0, logs[n])]
    BY <1>1 DEF Init
  <2>2. chain \in Seq(Header) /\ StartHeight \in Nat
    BY <1>2, WatcherAssumption DEF WatcherInv, NodeOK
  <2>3. DOMAIN chain = 1..StartHeight
    BY <2>1
  <2> QED
    BY <2>2, <2>3
<1>5. Unforked
  BY <1>3, <1>4 DEF Unforked, Height
<1>6. transitions \in Seq(Transition) /\ applied \in Seq(Transition) /\ asked \in Seq(Transition)
      /\ Len(transitions) = 0 /\ Len(applied) = 0 /\ Len(got) = 0
  BY <1>1, <1>3
<1>7. Ordered(transitions)
  BY <1>6 DEF Ordered
<1>8. QueueInv
  <2>1. Blank
    BY <1>1 DEF Blank
  <2>3. performing \in BOOLEAN
    BY <1>1
  <2>2. /\ lastProcessedBlock \in Nat /\ lastProcessedIndex \in Nat
        /\ lastProcessedIndex = 0 /\ resumedAt \in Nat /\ resumedAt <= lastIndexed
    BY <1>1, <1>3
  <2> QED
    BY <1>6, <1>7, <2>1, <2>2, <2>3 DEF QueueInv
<1>9. PerformInv
  BY <1>1, <1>6 DEF PerformInv
<1>10. AppliedInv
  BY <1>3, <1>6 DEF AppliedInv
<1>11. FirstInv
  BY <1>1, <1>3 DEF FirstInv
<1>12. KnownInv
  BY <1>3, <1>6 DEF KnownInv
<1> QED
  BY <1>2, <1>5, <1>8, <1>9, <1>10, <1>11, <1>12 DEF FeedInv

LEMMA SameFeed ==
  ASSUME FeedInv, UNCHANGED feedVars
  PROVE  FeedInv'
<1>1. WatcherInv /\ Unforked /\ QueueInv /\ PerformInv /\ AppliedInv /\ FirstInv /\ KnownInv
  BY DEF FeedInv
<1>2. /\ UNCHANGED <<node, pc, blockWatcher, step, consumer, failures, stops>>
      /\ UNCHANGED <<machine, stored>> /\ resumedAt' = resumedAt /\ firstBlock' = firstBlock
  BY DEF feedVars, vars, boots
<1>3. /\ lastIndexed' = lastIndexed /\ pc' = pc /\ queue' = queue /\ view' = view /\ got' = got
      /\ asked' = asked
  BY <1>2 DEF consumer, blockWatcher, stored
<1>4. lastIndexed \in Nat /\ asked \in Seq(Transition) /\ Unread' = Unread
  BY <1>1, <1>2, ViewOnChain, UnreadSame DEF KnownInv, node
<1>5. QueueInv' /\ PerformInv' /\ AppliedInv' /\ Known \subseteq Known'
  BY <1>1, <1>2, <1>3, <1>4, RestingInv
<1>6. FirstInv' /\ KnownInv'
  BY <1>1, <1>2, <1>3, <1>4, <1>5, MachineKnown
<1>7. WatcherInv' /\ Unforked'
  BY <1>1, <1>2, WatcherSame, UnforkedSame
<1> QED
  BY <1>5, <1>6, <1>7 DEF FeedInv

LEMMA FeedStepInv ==
  ASSUME FeedInv, [FeedNext]_feedVars
  PROVE  FeedInv'
BY GrowFeed, BootFeed, ReceiveStep, PerformFeed, SettleFeed, KillFeed, SameFeed DEF FeedNext

LEMMA QuietNothingLost ==
  ASSUME FeedInv
  PROVE  NothingElseLost
<1>1. WatcherInv /\ Unforked /\ KnownInv
  BY DEF FeedInv
<1>2. /\ got \in Seq(Seq(Log)) /\ Len(got) \in Nat /\ Len(got) <= Len(view)
      /\ \A i \in 1..Len(view) : view[i] \in Header
      /\ Len(view) \in Nat /\ failures \in Nat
  BY <1>1, ViewOnChain DEF Counted
<1> SUFFICES ASSUME Quiet, NEW t \in Received, ~(t.id \in FallibleEvents /\ failures > 0)
             PROVE  t \in Done
  BY DEF NothingElseLost, Done
<1>3. PICK i \in 1..Len(got) : /\ view[i].number >= firstBlock
                               /\ t \in ToSet(EventsOf(view[i], got[i]))
  BY DEF Received
<1> DEFINE b == view[i]
           g == got[i]
<1>4. b \in Header /\ g \in Seq(Log)
  BY <1>2
<1>5. Told(b, g, failures)
  BY <1>1 DEF KnownInv
<1>6. \A l \in Sure(b, failures) : EventOf(b, l) \in Known
  BY <1>1, <1>3 DEF KnownInv, Quiet, CaughtUp
<1>7. t \in ToSet(EventsOf(b, g))
  BY <1>3
<1> HIDE DEF b, g
<1>8. PICK j \in 1..Len(g) : t = EventsOf(b, g)[j]
  <2>1. EventsOf(b, g) \in Seq(EventTransition) /\ Len(EventsOf(b, g)) = Len(g)
    BY <1>4, EventsOfFacts
  <2> QED
    BY <1>7, <2>1, ToSetPlaces
<1> DEFINE l == g[j]
<1>9. l \in Log /\ l \in ToSet(g)
  BY <1>4, ToSetPlaces
<1>10. t = EventOf(b, l)
  BY <1>8 DEF EventsOf, EventOf
<1> HIDE DEF l
<1>11. t.id = l.event
  BY <1>4, <1>9, <1>10, EventOfFacts
<1>12. l.event \notin FallibleEvents \/ failures = 0
  BY <1>2, <1>11
<1>13. l \in Sure(b, failures)
  BY <1>5, <1>9, <1>12 DEF Told
<1>14. t \in Known
  BY <1>6, <1>10, <1>13
<1>15. ToSet(transitions) = {}
  BY DEF Quiet, ToSet
<1> QED
  BY <1>14, <1>15 DEF Known

\* What a step adds to the state is some of the current transition's diffs.
LEMMA AddsDiffs ==
  ASSUME FeedInv, [FeedNext]_feedVars, applied' # applied
  PROVE  /\ performing /\ diffs \in Seq(Transition)
         /\ \E n \in 0..Len(diffs) : applied' = applied \o SubSeq(diffs, 1, n)
<1>1. PerformInv /\ QueueInv /\ AppliedInv
  BY DEF FeedInv
<1>2. Settle \/ Kill
  BY DEF FeedNext, feedVars, Grow, Boot, Receive, Perform, stored
<1>3. performing => diffs \in Seq(Transition)
  <2> HAVE performing
  <2> DEFINE h == Head(transitions)
  <2>1. transitions # <<>> /\ diffs \in Seq({BlockNew(h.block), h})
    BY <1>1 DEF PerformInv
  <2>2. h \in Transition
    BY <1>1, <2>1, TailFacts DEF QueueInv
  <2> HIDE DEF h
  <2> QED
    BY <2>1, <2>2, DiffFacts
<1>4. CASE Settle
  <2>1. performing /\ applied' = applied \o diffs
    BY <1>4 DEF Settle
  <2>2. diffs = SubSeq(diffs, 1, Len(diffs)) /\ Len(diffs) \in 0..Len(diffs)
    BY <1>3, <2>1
  <2> QED
    BY <1>3, <2>1, <2>2
<1>5. CASE Kill
  <2>1. PICK n \in 0..Len(diffs) : applied' = applied \o SubSeq(diffs, 1, n)
    BY <1>5 DEF Kill
  <2>2. performing
    <3> SUFFICES ASSUME ~performing PROVE FALSE
      BY <1>1 DEF QueueInv
    <3>1. diffs = <<>> /\ applied \in Seq(Transition)
      BY <1>1 DEF PerformInv, AppliedInv
    <3>2. SubSeq(diffs, 1, n) = <<>>
      BY <3>1
    <3>3. applied' = applied
      BY <2>1, <3>1, <3>2, ConcatEmptySeq
    <3> QED
      BY <3>3
  <2> QED
    BY <1>3, <2>1, <2>2
<1> QED
  BY <1>2, <1>4, <1>5

LEMMA RepeatsLast ==
  ASSUME FeedInv, [FeedNext]_feedVars, applied' # applied,
         NEW i \in Len(applied) + 1..Len(applied'), applied'[i] \in ToSet(applied)
  PROVE  applied'[i].block = resumedAt
<1>1. PerformInv /\ AppliedInv
  BY DEF FeedInv
<1>2. performing /\ diffs \in Seq(Transition) /\ applied \in Seq(Transition)
  BY <1>1, AddsDiffs DEF AppliedInv
<1>3. PICK n \in 0..Len(diffs) : applied' = applied \o SubSeq(diffs, 1, n)
  BY AddsDiffs
<1> DEFINE s == SubSeq(diffs, 1, n)
<1>4. s \in Seq(Transition) /\ Len(s) = n /\ \A j \in 1..n : s[j] = diffs[j]
  BY <1>2
<1>5. applied' = applied \o s /\ Len(applied) \in Nat /\ n \in Nat /\ n <= Len(diffs)
  BY <1>2, <1>3
<1> HIDE DEF s
<1>6. i - Len(applied) \in 1..n /\ applied'[i] = s[i - Len(applied)]
  <2>1. Len(applied') = Len(applied) + n
    BY <1>2, <1>4, <1>5, ConcatPlaces
  <2>2. i - Len(applied) \in 1..n /\ Len(applied) + (i - Len(applied)) = i
    BY <1>5, <2>1
  <2>3. applied'[Len(applied) + (i - Len(applied))] = s[i - Len(applied)]
    BY <1>2, <1>4, <1>5, <2>2, ConcatPlaces
  <2> QED
    BY <2>2, <2>3
<1>7. applied'[i] \in ToSet(diffs)
  BY <1>2, <1>4, <1>5, <1>6, ToSetPlaces
<1>8. \A d \in ToSet(diffs) : d \in ToSet(applied) => d.block = resumedAt
  BY <1>1, <1>2 DEF PerformInv
<1> QED
  BY <1>7, <1>8

(* Whenever queries fail and the process is killed, as long as the chain   *)
(* only grows, the transitions that service/machine.ts has queued are in   *)
(* the order of the chain and beyond the last processed one, the stored    *)
(* diffs are in that order too, and every event that the watcher delivered *)
(* is stored, queued, failed, cut, or unread: less than a page behind a    *)
(* log that logToTransition cannot parse.                                  *)
THEOREM FeedInvariance == FeedSpecification => []FeedInv
<1>1. FeedInit => FeedInv
  BY FeedInitInv
<1>2. FeedInv /\ [FeedNext]_feedVars => FeedInv'
  BY FeedStepInv
<1> QED
  BY <1>1, <1>2, PTL DEF FeedSpecification

(* When nothing is waiting, every event delivered has been stored with its *)
(* actions, but for those whose handler threw, those of a block before the *)
(* last indexed one that a stop found unfinished, and those less than a    *)
(* page behind a log that logToTransition cannot parse.  Of the block that *)
(* transitions/watcher.ts stored as the last indexed one nothing else is   *)
(* lost, whenever the process ends.                                        *)
THEOREM NothingIsElseLost == FeedSpecification => []NothingElseLost
<1>1. FeedInv => NothingElseLost
  BY QuietNothingLost
<1> QED
  BY <1>1, FeedInvariance, PTL

(* The state that machine/storage/sqlite.ts keeps never goes back to an    *)
(* earlier block, whatever restarts make the watcher hand over again.      *)
THEOREM NeverGoesBackwards == FeedSpecification => []NeverBackwards
<1>1. FeedInv => NeverBackwards
  BY DEF FeedInv, AppliedInv, NeverBackwards
<1> QED
  BY <1>1, FeedInvariance, PTL

(* No diff is stored twice but of the block that was the last indexed one  *)
(* when the process started: performTransition drops all that it has       *)
(* processed since, and transitions/watcher.ts all that is before.         *)
THEOREM OnlyLastBlockRepeats == FeedSpecification => RepeatsOnlyLastBlock
<1> DEFINE A == \A i \in Len(applied) + 1..Len(applied') :
                  applied'[i] \in ToSet(applied) => applied'[i].block = resumedAt
<1>1. FeedInv /\ [FeedNext]_feedVars => [A]_applied
  BY RepeatsLast
<1> HIDE DEF A
<1>2. FeedSpecification => [][A]_applied
  BY <1>1, FeedInvariance, PTL DEF FeedSpecification
<1> QED
  BY <1>2 DEF RepeatsOnlyLastBlock, A
==============================================================================
