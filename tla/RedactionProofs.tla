--------------------------- MODULE RedactionProofs ---------------------------
(***************************************************************************)
(* Theorems about the redactor, for any texts, registered values, fields   *)
(* and configurations.                                                     *)
(***************************************************************************)
EXTENDS Redaction, SequenceTheorems, FiniteSetTheorems, TLAPS

Text == Seq(Letters \cup {Mask})

(* What may be registered: texts, but not of placeholders only. *)
Secrets == {v \in Text : \E i \in DOMAIN v : v[i] # Mask}

LEMMA SecretLength ==
    ASSUME NEW v \in Secrets
    PROVE  v \in Text /\ Len(v) \in Nat /\ Len(v) > 0 /\ DOMAIN v = 1..Len(v)
<1>1. v \in Text /\ DOMAIN v = 1..Len(v) /\ Len(v) \in Nat
  BY DEF Secrets, Text
<1>2. PICK i \in DOMAIN v : TRUE
  BY DEF Secrets
<1> QED
  BY <1>1, <1>2

-----------------------------------------------------------------------------
(* Induction, over sets of positions. *)

LEMMA LeastElement ==
    ASSUME NEW S \in SUBSET Nat, S # {}
    PROVE  \E x \in S : \A y \in S : x <= y
<1> DEFINE Less == {ss \in Nat \X Nat : ss[1] < ss[2]}
<1>1. IsWellFoundedOn(Less, Nat)
  BY NatLessThanWellFounded, Zenon DEF OpToRel
<1>2. PICK x \in S : \A y \in S : ~(<<y, x>> \in Less)
  <2> HIDE DEF Less
  <2> QED
    BY <1>1, WFMin
<1>3. ASSUME NEW y \in S PROVE x <= y
  <2>1. ~(<<y, x>> \in Less) /\ x \in Nat /\ y \in Nat
    BY <1>2
  <2> QED
    BY <2>1
<1> QED
  BY <1>3

(* A set of naturals that no step leads out of holds them all.             *)
LEMMA Induction ==
    ASSUME NEW n \in Nat, NEW S, 0 \in S, \A i \in 0..(n - 1) : i \in S => i + 1 \in S
    PROVE  \A i \in 0..n : i \in S
<1> DEFINE T == (0..n) \ S
<1> SUFFICES ASSUME T # {} PROVE FALSE
  OBVIOUS
<1>1. PICK x \in T : \A y \in T : x <= y
  <2>1. T \in SUBSET Nat
    OBVIOUS
  <2> HIDE DEF T
  <2> QED
    BY <2>1, LeastElement
<1>2. x # 0 /\ x \in 0..n
  OBVIOUS
<1>3. x - 1 \notin T
  BY <1>1, <1>2
<1> QED
  BY <1>2, <1>3

(* The same from the end of a text, with all that follows given.           *)
LEMMA Backwards ==
    ASSUME NEW n \in Nat, NEW S, n + 1 \in S,
           \A i \in 1..n : (\A j \in (i + 1)..(n + 1) : j \in S) => i \in S
    PROVE  \A i \in 1..(n + 1) : i \in S
<1> DEFINE T == {k \in 0..n : \A j \in (n + 1 - k)..(n + 1) : j \in S}
<1>1. 0 \in T
  OBVIOUS
<1>2. ASSUME NEW k \in 0..(n - 1), k \in T PROVE k + 1 \in T
  <2>1. n - k \in S
    <3>1. n - k \in 1..n /\ (n - k) + 1 = n + 1 - k
      OBVIOUS
    <3>2. \A j \in ((n - k) + 1)..(n + 1) : j \in S
      BY <1>2, <3>1
    <3> QED
      BY <3>1, <3>2
  <2>2. ASSUME NEW j \in (n + 1 - (k + 1))..(n + 1) PROVE j \in S
    <3>1. j = n - k \/ j \in (n + 1 - k)..(n + 1)
      OBVIOUS
    <3> QED
      BY <1>2, <2>1, <3>1
  <2> QED
    BY <2>2
<1>3. \A k \in 0..n : k \in T
  <2> HIDE DEF T
  <2> QED
    BY <1>1, <1>2, Induction
<1>4. ASSUME NEW i \in 1..(n + 1) PROVE i \in S
  <2>1. n \in T
    BY <1>3
  <2>2. i \in (n + 1 - n)..(n + 1)
    OBVIOUS
  <2> QED
    BY <2>1, <2>2
<1> QED
  BY <1>4

-----------------------------------------------------------------------------
(* strings.ReplaceAll. *)

(* What the scan of t for v leaves of t from i on.                         *)
ScanFrom(f, t, v, i) ==
    IF i > Len(t) THEN <<>>
    ELSE IF OccursAt(v, t, i) THEN <<Mask>> \o f[i + Len(v)]
    ELSE <<t[i]>> \o f[i + 1]

IsScan(f, t, v) == f = [i \in 1..(Len(t) + 1) |-> ScanFrom(f, t, v, i)]

(* The scan is defined for every text: it only looks ahead.                *)
LEMMA ScanExists ==
    ASSUME NEW t \in Text, NEW v \in Secrets
    PROVE  \E f : IsScan(f, t, v)
<1> DEFINE n == Len(t)
           Good(k) == \E f : f = [i \in (n + 1 - k)..(n + 1) |-> ScanFrom(f, t, v, i)]
           S == {k \in 0..n : Good(k)}
<1>1. n \in Nat
  BY DEF Text
<1>2. 0 \in S
  <2> DEFINE f == [i \in (n + 1 - 0)..(n + 1) |-> <<>>]
  <2>1. f = [i \in (n + 1 - 0)..(n + 1) |-> ScanFrom(f, t, v, i)]
    BY <1>1 DEF ScanFrom
  <2>2. Good(0)
    <3> HIDE DEF f
    <3> QED
      BY <2>1, Zenon
  <2> QED
    BY <1>1, <2>2
<1>3. ASSUME NEW k \in 0..(n - 1), k \in S PROVE k + 1 \in S
  <2>1. PICK f : f = [i \in (n + 1 - k)..(n + 1) |-> ScanFrom(f, t, v, i)]
    BY <1>3
  <2> DEFINE p == n + 1 - (k + 1)
             g == [i \in p..(n + 1) |-> IF i = p THEN ScanFrom(f, t, v, p) ELSE f[i]]
  <2>2. Len(v) \in Nat /\ Len(v) > 0
    BY SecretLength
  <2>3. \A i \in p..(n + 1) : ScanFrom(g, t, v, i) = ScanFrom(f, t, v, i)
    <3> SUFFICES ASSUME NEW i \in p..(n + 1) PROVE ScanFrom(g, t, v, i) = ScanFrom(f, t, v, i)
      OBVIOUS
    <3>1. CASE i <= n
      <4>1. g[i + 1] = f[i + 1]
        BY <1>1, <3>1
      <4>2. OccursAt(v, t, i) => g[i + Len(v)] = f[i + Len(v)]
        BY <1>1, <2>2, <3>1 DEF OccursAt
      <4> QED
        BY <1>1, <4>1, <4>2 DEF ScanFrom
    <3>2. CASE i > n
      BY <3>2 DEF ScanFrom
    <3> QED
      BY <1>1, <3>1, <3>2
  <2>4. ASSUME NEW i \in p..(n + 1) PROVE g[i] = ScanFrom(f, t, v, i)
    <3>1. CASE i = p
      BY <3>1
    <3>2. CASE i # p
      <4>1. i \in (n + 1 - k)..(n + 1)
        BY <1>1, <3>2
      <4> QED
        BY <2>1, <3>2, <4>1
    <3> QED
      BY <3>1, <3>2
  <2>5. g = [i \in p..(n + 1) |-> ScanFrom(g, t, v, i)]
    BY <2>3, <2>4
  <2>6. Good(k + 1)
    <3> HIDE DEF g
    <3> QED
      BY <2>5, Zenon
  <2> QED
    BY <1>1, <2>6
<1>4. \A k \in 0..n : k \in S
  <2> HIDE DEF S, n
  <2> QED
    BY <1>1, <1>2, <1>3, Induction
<1>5. PICK f : f = [i \in (n + 1 - n)..(n + 1) |-> ScanFrom(f, t, v, i)]
  BY <1>1, <1>4
<1>6. n + 1 - n = 1
  BY <1>1
<1>7. f = [i \in 1..(Len(t) + 1) |-> ScanFrom(f, t, v, i)]
  BY <1>5, <1>6
<1> QED
  BY <1>7 DEF IsScan

(* Replaced is what a scan leaves from the first position on.              *)
LEMMA ReplacedScan ==
    ASSUME NEW t \in Text, NEW v \in Secrets
    PROVE  \E f : IsScan(f, t, v) /\ Replaced(t, v) = f[1]
<1> DEFINE from == CHOOSE f : IsScan(f, t, v)
<1>1. IsScan(from, t, v)
  BY ScanExists
<1>2. Replaced(t, v) = from[1]
  BY DEF Replaced, IsScan, ScanFrom
<1> QED
  BY <1>1, <1>2

(* What each position of a scan leaves, in one place.                      *)
LEMMA ScanAt ==
    ASSUME NEW t \in Text, NEW v \in Secrets, NEW f, IsScan(f, t, v)
    PROVE  /\ Len(t) \in Nat /\ Len(v) \in Nat /\ Len(v) > 0
           /\ f[Len(t) + 1] = <<>>
           /\ \A i \in 1..Len(t) :
                /\ OccursAt(v, t, i) => i + Len(v) \in (i + 1)..(Len(t) + 1) /\ f[i] = <<Mask>> \o f[i + Len(v)]
                /\ ~OccursAt(v, t, i) => f[i] = <<t[i]>> \o f[i + 1]
<1>1. Len(t) \in Nat /\ Len(v) \in Nat /\ Len(v) > 0
  BY SecretLength DEF Text
<1>2. \A i \in 1..(Len(t) + 1) : f[i] = ScanFrom(f, t, v, i)
  BY DEF IsScan
<1>3. f[Len(t) + 1] = <<>>
  <2> DEFINE e == Len(t) + 1
  <2>1. e \in 1..(Len(t) + 1) /\ e > Len(t)
    BY <1>1
  <2>2. f[e] = ScanFrom(f, t, v, e)
    BY <1>2, <2>1
  <2> QED
    BY <2>1, <2>2 DEF ScanFrom
<1>4. ASSUME NEW i \in 1..Len(t)
      PROVE  /\ OccursAt(v, t, i) => i + Len(v) \in (i + 1)..(Len(t) + 1) /\ f[i] = <<Mask>> \o f[i + Len(v)]
             /\ ~OccursAt(v, t, i) => f[i] = <<t[i]>> \o f[i + 1]
  <2>1. OccursAt(v, t, i) => i + Len(v) \in (i + 1)..(Len(t) + 1)
    BY <1>1 DEF OccursAt
  <2>2. f[i] = IF OccursAt(v, t, i) THEN <<Mask>> \o f[i + Len(v)] ELSE <<t[i]>> \o f[i + 1]
    BY <1>1, <1>2 DEF ScanFrom
  <2> QED
    BY <2>1, <2>2
<1> QED
  BY <1>1, <1>3, <1>4

LEMMA ScanType ==
    ASSUME NEW t \in Text, NEW v \in Secrets, NEW f, IsScan(f, t, v)
    PROVE  \A i \in 1..(Len(t) + 1) : f[i] \in Text
<1> DEFINE S == {i \in 1..(Len(t) + 1) : f[i] \in Text}
<1>1. Len(t) + 1 \in S
  <2>1. f[Len(t) + 1] = <<>> /\ Len(t) + 1 \in 1..(Len(t) + 1)
    BY ScanAt
  <2>2. <<>> \in Text
    BY EmptySeq DEF Text
  <2> QED
    BY <2>1, <2>2
<1>2. ASSUME NEW i \in 1..Len(t), \A j \in (i + 1)..(Len(t) + 1) : j \in S
      PROVE  i \in S
  <2>1. PICK c \in Letters \cup {Mask}, j \in (i + 1)..(Len(t) + 1) : f[i] = <<c>> \o f[j]
    <3>1. t[i] \in Letters \cup {Mask} /\ i + 1 \in (i + 1)..(Len(t) + 1)
      BY ScanAt DEF Text
    <3>2. CASE OccursAt(v, t, i)
      <4>1. i + Len(v) \in (i + 1)..(Len(t) + 1) /\ f[i] = <<Mask>> \o f[i + Len(v)]
        BY <3>2, ScanAt
      <4> QED
        BY <4>1
    <3>3. CASE ~OccursAt(v, t, i)
      BY <3>1, <3>3, ScanAt
    <3> QED
      BY <3>2, <3>3
  <2>2. <<c>> \in Text /\ f[j] \in Text
    BY <1>2 DEF Text
  <2>3. f[i] \in Text
    BY <2>1, <2>2, ConcatProperties DEF Text
  <2> QED
    BY <2>3, ScanAt
<1>3. \A i \in 1..(Len(t) + 1) : i \in S
  <2> HIDE DEF S
  <2> QED
    BY <1>1, <1>2, Backwards, ScanAt
<1> QED
  BY <1>3

(* One step of a scan: a symbol, then what a later position leaves.        *)
LEMMA ScanStep ==
    ASSUME NEW t \in Text, NEW v \in Secrets, NEW f, IsScan(f, t, v), NEW i \in 1..Len(t)
    PROVE  \E j \in (i + 1)..(Len(t) + 1) :
              /\ Len(f[i]) = Len(f[j]) + 1
              /\ \A m \in 1..Len(f[j]) : f[i][m + 1] = f[j][m]
              /\ f[i][1] # Mask => j = i + 1 /\ f[i][1] = t[i] /\ ~OccursAt(v, t, i)
<1>1. PICK c \in Letters \cup {Mask}, j \in (i + 1)..(Len(t) + 1) :
          /\ f[i] = <<c>> \o f[j]
          /\ c # Mask => j = i + 1 /\ c = t[i] /\ ~OccursAt(v, t, i)
  <2>1. t[i] \in Letters \cup {Mask} /\ i + 1 \in (i + 1)..(Len(t) + 1)
    BY ScanAt DEF Text
  <2>2. CASE OccursAt(v, t, i)
    <3>1. i + Len(v) \in (i + 1)..(Len(t) + 1) /\ f[i] = <<Mask>> \o f[i + Len(v)]
      BY <2>2, ScanAt
    <3> QED
      BY <3>1
  <2>3. CASE ~OccursAt(v, t, i)
    BY <2>1, <2>3, ScanAt
  <2> QED
    BY <2>2, <2>3
<1>2. <<c>> \in Text /\ f[j] \in Text /\ Len(<<c>>) = 1 /\ <<c>>[1] = c
  BY ScanType, ScanAt DEF Text
<1>3. /\ Len(f[i]) = 1 + Len(f[j])
      /\ \A m \in 1..(1 + Len(f[j])) : f[i][m] = IF m <= 1 THEN <<c>>[m] ELSE f[j][m - 1]
  BY <1>1, <1>2, ConcatProperties DEF Text
<1>4. Len(f[j]) \in Nat
  BY <1>2 DEF Text
<1>5. f[i][1] = c
  <2>1. 1 \in 1..(1 + Len(f[j])) /\ 1 <= 1
    BY <1>4
  <2>2. f[i][1] = IF 1 <= 1 THEN <<c>>[1] ELSE f[j][1 - 1]
    BY <1>3, <2>1, Zenon
  <2> QED
    BY <1>2, <2>2
<1>6. ASSUME NEW m \in 1..Len(f[j]) PROVE f[i][m + 1] = f[j][m]
  <2>1. m + 1 \in 1..(1 + Len(f[j])) /\ ~(m + 1 <= 1) /\ (m + 1) - 1 = m
    BY <1>4
  <2>2. f[i][m + 1] = IF m + 1 <= 1 THEN <<c>>[m + 1] ELSE f[j][(m + 1) - 1]
    BY <1>3, <2>1, Zenon
  <2> QED
    BY <2>1, <2>2
<1>7. Len(f[i]) = Len(f[j]) + 1
  BY <1>3, <1>4
<1> QED
  BY <1>1, <1>5, <1>6, <1>7

(* An occurrence, symbol by symbol.                                        *)
LEMMA OccursSymbols ==
    ASSUME NEW t \in Text, NEW w \in Secrets, NEW k \in 1..Len(t)
    PROVE  OccursAt(w, t, k) <=>
              k + Len(w) - 1 <= Len(t) /\ \A m \in 1..Len(w) : t[k + m - 1] = w[m]
<1>1. Len(t) \in Nat /\ Len(w) \in Nat /\ Len(w) > 0 /\ w \in Text
  BY SecretLength DEF Text
<1> SUFFICES ASSUME k + Len(w) - 1 <= Len(t)
             PROVE  SubSeq(t, k, k + Len(w) - 1) = w <=> \A m \in 1..Len(w) : t[k + m - 1] = w[m]
  BY DEF OccursAt
<1> DEFINE u == SubSeq(t, k, k + Len(w) - 1)
<1>2. \A i \in k..(k + Len(w) - 1) : t[i] \in Letters \cup {Mask}
  BY <1>1 DEF Text
<1>3. k \in Int /\ k + Len(w) - 1 \in Int
  BY <1>1
<1>4. /\ u \in Text
      /\ Len(u) = Len(w)
      /\ \A m \in 1..Len(w) : u[m] = t[k + m - 1]
  <2>1. /\ u \in Text
        /\ Len(u) = IF k <= k + Len(w) - 1 THEN k + Len(w) - 1 - k + 1 ELSE 0
        /\ \A m \in 1..(k + Len(w) - 1 - k + 1) : u[m] = t[k + m - 1]
    <3> HIDE DEF u
    <3> QED
      BY <1>2, <1>3, SubSeqProperties DEF Text, u
  <2>2. k + Len(w) - 1 - k + 1 = Len(w) /\ k <= k + Len(w) - 1
    BY <1>1
  <2> QED
    BY <2>1, <2>2
<1>5. (\A m \in 1..Len(w) : u[m] = w[m]) => u = w
  <2> HIDE DEF u
  <2> QED
    BY <1>1, <1>4, SeqEqual DEF Text
<1> QED
  BY <1>4, <1>5

(* What f[i] leaves from k on is what f leaves from a later position on.   *)
EndsLater(f, t, i, k) ==
    \E p \in i..Len(t) :
        /\ Len(f[p]) = Len(f[i]) - k + 1
        /\ \A m \in 1..Len(f[p]) : f[p][m] = f[i][k + m - 1]

LEMMA ScanSuffix ==
    ASSUME NEW t \in Text, NEW v \in Secrets, NEW f, IsScan(f, t, v)
    PROVE  \A i \in 1..(Len(t) + 1) : \A k \in 1..Len(f[i]) : EndsLater(f, t, i, k)
<1> DEFINE S == {i \in 1..(Len(t) + 1) : \A k \in 1..Len(f[i]) : EndsLater(f, t, i, k)}
<1>1. Len(t) \in Nat
  BY DEF Text
<1>2. Len(t) + 1 \in S
  <2>1. Len(f[Len(t) + 1]) = 0
    BY ScanAt, EmptySeq
  <2> QED
    BY <1>1, <2>1
<1>3. ASSUME NEW i \in 1..Len(t), \A j \in (i + 1)..(Len(t) + 1) : j \in S
      PROVE  i \in S
  <2>1. PICK j \in (i + 1)..(Len(t) + 1) :
            /\ Len(f[i]) = Len(f[j]) + 1
            /\ \A m \in 1..Len(f[j]) : f[i][m + 1] = f[j][m]
            /\ f[i][1] # Mask => j = i + 1 /\ f[i][1] = t[i] /\ ~OccursAt(v, t, i)
    <3> HIDE DEF S
    <3> QED
      BY ScanStep
  <2>2. Len(f[i]) \in Nat /\ Len(f[j]) \in Nat
    BY <1>1, ScanType DEF Text
  <2>3. ASSUME NEW k \in 1..Len(f[i]) PROVE EndsLater(f, t, i, k)
    <3>1. CASE k = 1
      <4>1. i \in i..Len(t) /\ Len(f[i]) = Len(f[i]) - 1 + 1 /\ \A m \in 1..Len(f[i]) : f[i][m] = f[i][1 + m - 1]
        BY <1>1, <2>2
      <4> QED
        BY <3>1, <4>1 DEF EndsLater
    <3>2. CASE k > 1
      <4>1. k - 1 \in 1..Len(f[j])
        BY <2>1, <2>2, <3>2
      <4>2. PICK p \in j..Len(t) :
                /\ Len(f[p]) = Len(f[j]) - (k - 1) + 1
                /\ \A m \in 1..Len(f[p]) : f[p][m] = f[j][(k - 1) + m - 1]
        BY <1>3, <4>1 DEF EndsLater
      <4>3. p \in i..Len(t) /\ Len(f[p]) = Len(f[i]) - k + 1
        BY <1>1, <2>1, <2>2, <4>2
      <4>4. ASSUME NEW m \in 1..Len(f[p]) PROVE f[p][m] = f[i][k + m - 1]
        <5>1. (k - 1) + m - 1 \in 1..Len(f[j])
          BY <2>2, <3>2, <4>2
        <5>2. f[i][((k - 1) + m - 1) + 1] = f[j][(k - 1) + m - 1]
          BY <2>1, <5>1
        <5>3. ((k - 1) + m - 1) + 1 = k + m - 1
          BY <2>2, <4>3
        <5> QED
          BY <4>2, <5>2, <5>3
      <4> QED
        BY <4>3, <4>4 DEF EndsLater
    <3> QED
      BY <2>2, <3>1, <3>2
  <2> QED
    BY <2>3, <1>1
<1>4. \A i \in 1..(Len(t) + 1) : i \in S
  <2> HIDE DEF S
  <2> QED
    BY <1>1, <1>2, <1>3, Backwards
<1> QED
  BY <1>4

(* What is left starts with the text itself, up to the first placeholder.  *)
LEMMA ScanPrefix ==
    ASSUME NEW t \in Text, NEW v \in Secrets, NEW f, IsScan(f, t, v)
    PROVE  \A i \in 1..(Len(t) + 1) : \A m \in 1..Len(f[i]) :
              (\A q \in 1..m : f[i][q] # Mask) => i + m - 1 <= Len(t) /\ f[i][m] = t[i + m - 1]
<1> DEFINE Kept(i, m) ==
              (\A q \in 1..m : f[i][q] # Mask) => i + m - 1 <= Len(t) /\ f[i][m] = t[i + m - 1]
           S == {i \in 1..(Len(t) + 1) : \A m \in 1..Len(f[i]) : Kept(i, m)}
<1>1. Len(t) \in Nat
  BY DEF Text
<1>2. Len(t) + 1 \in S
  <2>1. Len(f[Len(t) + 1]) = 0
    BY ScanAt, EmptySeq
  <2> QED
    BY <1>1, <2>1
<1>3. ASSUME NEW i \in 1..Len(t), \A j \in (i + 1)..(Len(t) + 1) : j \in S
      PROVE  i \in S
  <2>1. PICK j \in (i + 1)..(Len(t) + 1) :
            /\ Len(f[i]) = Len(f[j]) + 1
            /\ \A m \in 1..Len(f[j]) : f[i][m + 1] = f[j][m]
            /\ f[i][1] # Mask => j = i + 1 /\ f[i][1] = t[i]
    BY ScanStep
  <2>2. Len(f[i]) \in Nat /\ Len(f[j]) \in Nat
    BY <1>1, ScanType DEF Text
  <2>3. ASSUME NEW m \in 1..Len(f[i]), \A q \in 1..m : f[i][q] # Mask
        PROVE  i + m - 1 <= Len(t) /\ f[i][m] = t[i + m - 1]
    <3>1. 1 \in 1..m
      BY <2>2
    <3>2. j = i + 1 /\ f[i][1] = t[i]
      BY <2>1, <2>3, <3>1
    <3>3. CASE m = 1
      BY <1>1, <3>2, <3>3
    <3>4. CASE m > 1
      <4>1. m - 1 \in 1..Len(f[j]) /\ (m - 1) + 1 = m /\ j \in S
        BY <1>3, <2>1, <2>2, <3>4
      <4>2. ASSUME NEW q \in 1..(m - 1) PROVE f[j][q] # Mask
        <5>1. q + 1 \in 1..m /\ q \in 1..Len(f[j])
          BY <2>2, <4>1
        <5> QED
          BY <2>1, <2>3, <5>1
      <4>3. j + (m - 1) - 1 <= Len(t) /\ f[j][m - 1] = t[j + (m - 1) - 1]
        BY <4>1, <4>2
      <4>4. j + (m - 1) - 1 = i + m - 1
        BY <2>2, <3>2
      <4>5. f[i][m] = f[j][m - 1]
        BY <2>1, <4>1
      <4> QED
        BY <4>3, <4>4, <4>5
    <3> QED
      BY <2>2, <3>3, <3>4
  <2>4. \A m \in 1..Len(f[i]) : Kept(i, m)
    BY <2>3
  <2>5. i \in 1..(Len(t) + 1)
    BY <1>1
  <2> HIDE DEF Kept
  <2> QED
    BY <2>4, <2>5
<1>4. \A i \in 1..(Len(t) + 1) : i \in S
  <2> HIDE DEF S
  <2> QED
    BY <1>1, <1>2, <1>3, Backwards
<1> QED
  BY <1>4

LEMMA ReplacedType ==
    ASSUME NEW t \in Text, NEW v \in Secrets
    PROVE  Replaced(t, v) \in Text
<1>1. PICK f : IsScan(f, t, v) /\ Replaced(t, v) = f[1]
  BY ReplacedScan
<1>2. 1 \in 1..(Len(t) + 1)
  BY DEF Text
<1> QED
  BY <1>1, <1>2, ScanType

(* What occurs after a replacement occurred before it, somewhere the       *)
(* replaced value did not: a replacement joins nothing to a secret.        *)
LEMMA ReplacedWindow ==
    ASSUME NEW t \in Text, NEW v \in Secrets, NEW w \in Secrets,
           \A m \in 1..Len(w) : w[m] # Mask,
           NEW k \in 1..Len(Replaced(t, v)), OccursAt(w, Replaced(t, v), k)
    PROVE  \E p \in 1..Len(t) : OccursAt(w, t, p) /\ ~OccursAt(v, t, p)
<1>1. PICK f : IsScan(f, t, v) /\ Replaced(t, v) = f[1]
  BY ReplacedScan
<1>2. Len(t) \in Nat /\ Len(w) \in Nat /\ Len(w) > 0 /\ f[1] \in Text /\ Len(f[1]) \in Nat
  <2>1. f[1] \in Text
    BY <1>1, ReplacedType
  <2> QED
    BY <2>1, SecretLength DEF Text
<1>3. PICK p \in 1..Len(t) :
          /\ Len(f[p]) = Len(f[1]) - k + 1
          /\ \A m \in 1..Len(f[p]) : f[p][m] = f[1][k + m - 1]
  <2>1. 1 \in 1..(Len(t) + 1) /\ k \in 1..Len(f[1])
    BY <1>1, <1>2
  <2>2. EndsLater(f, t, 1, k)
    BY <1>1, <2>1, ScanSuffix
  <2> QED
    BY <2>2 DEF EndsLater
<1>4. k + Len(w) - 1 <= Len(f[1]) /\ \A m \in 1..Len(w) : f[1][k + m - 1] = w[m]
  BY <1>1, <1>2, OccursSymbols
<1>5. Len(w) <= Len(f[p])
  BY <1>2, <1>3, <1>4
<1>6. \A m \in 1..Len(w) : f[p][m] = w[m] /\ w[m] # Mask
  <2>2. Len(f[p]) \in Nat
    BY <1>2, <1>3
  <2>3. \A m \in 1..Len(w) : m \in 1..Len(f[p])
    BY <1>2, <1>5, <2>2
  <2> QED
    BY <1>3, <1>4, <2>3, Zenon
<1>7. ASSUME NEW m \in 1..Len(w) PROVE p + m - 1 <= Len(t) /\ f[p][m] = t[p + m - 1]
  <2>1. m \in 1..Len(f[p]) /\ p \in 1..(Len(t) + 1)
    BY <1>2, <1>3, <1>5
  <2>2. \A q \in 1..m : f[p][q] # Mask
    BY <1>2, <1>6
  <2> QED
    BY <1>1, <2>1, <2>2, ScanPrefix
<1>8. OccursAt(w, t, p)
  <2>1. p + Len(w) - 1 <= Len(t)
    <3>1. Len(w) \in 1..Len(w)
      BY <1>2
    <3> QED
      BY <3>1, <1>7
  <2>2. \A m \in 1..Len(w) : t[p + m - 1] = w[m]
    BY <1>6, <1>7
  <2> QED
    BY <2>1, <2>2, OccursSymbols
<1>9. ~OccursAt(v, t, p)
  <2>1. f[p][1] # Mask
    BY <1>2, <1>6
  <2> QED
    BY <1>1, <2>1, ScanStep
<1> QED
  BY <1>8, <1>9

(* A text without the value stays as it is.                                *)
LEMMA ReplacedUnchanged ==
    ASSUME NEW t \in Text, NEW v \in Secrets, \A k \in 1..Len(t) : ~OccursAt(v, t, k)
    PROVE  Replaced(t, v) = t
<1>1. PICK f : IsScan(f, t, v) /\ Replaced(t, v) = f[1]
  BY ReplacedScan
<1> DEFINE n == Len(t)
           S == {i \in 1..(n + 1) : f[i] = SubSeq(t, i, n)}
<1>2. n \in Nat
  BY DEF Text
<1>3. n + 1 \in S
  <2>1. SubSeq(t, n + 1, n) = <<>>
    BY <1>2, SubSeqEmpty
  <2>2. f[n + 1] = <<>>
    BY <1>1, ScanAt
  <2>3. n + 1 \in 1..(n + 1)
    BY <1>2
  <2> QED
    BY <2>1, <2>2, <2>3, Zenon
<1>4. ASSUME NEW i \in 1..n, \A j \in (i + 1)..(n + 1) : j \in S
      PROVE  i \in S
  <2>1. f[i] = <<t[i]>> \o f[i + 1]
    BY <1>1, ScanAt
  <2>2. f[i + 1] = SubSeq(t, i + 1, n)
    BY <1>2, <1>4
  <2>3. SubSeq(t, i, n) = <<t[i]>> \o SubSeq(t, i + 1, n)
    <3>1. n \in i..Len(t)
      BY <1>2
    <3> QED
      BY <3>1, SubSeqRecursiveFirst DEF Text
  <2>4. i \in 1..(n + 1) /\ f[i] = SubSeq(t, i, n)
    BY <1>2, <2>1, <2>2, <2>3
  <2> QED
    BY <2>4, Zenon
<1>5. \A i \in 1..(n + 1) : i \in S
  <2> HIDE DEF S, n
  <2> QED
    BY <1>2, <1>3, <1>4, Backwards
<1>6. f[1] = SubSeq(t, 1, n)
  BY <1>2, <1>5
<1> QED
  BY <1>1, <1>6, SubSeqFull DEF Text

(* A value is replaced by one placeholder in itself.                       *)
LEMMA ReplacedSelf ==
    ASSUME NEW v \in Secrets
    PROVE  Replaced(v, v) = <<Mask>>
<1>1. v \in Text /\ Len(v) \in Nat /\ Len(v) > 0
  BY SecretLength
<1>2. PICK f : IsScan(f, v, v) /\ Replaced(v, v) = f[1]
  BY <1>1, ReplacedScan
<1>3. OccursAt(v, v, 1)
  <2>1. SubSeq(v, 1, Len(v)) = v
    BY <1>1, SubSeqFull DEF Text
  <2>2. 1 + Len(v) - 1 = Len(v)
    BY <1>1
  <2> QED
    BY <1>1, <2>1, <2>2 DEF OccursAt
<1>4. f[1] = <<Mask>> \o f[1 + Len(v)]
  <2>1. 1 \in 1..Len(v)
    BY <1>1
  <2> QED
    BY <1>1, <1>2, <1>3, <2>1, ScanAt
<1>5. f[1 + Len(v)] = <<>>
  <2>1. 1 + Len(v) = Len(v) + 1
    BY <1>1
  <2> QED
    BY <1>1, <1>2, <2>1, ScanAt
<1>6. <<Mask>> \in Seq({Mask})
  OBVIOUS
<1> QED
  BY <1>2, <1>4, <1>5, <1>6, ConcatEmptySeq

(* A value does not occur in another text that is not longer.              *)
LEMMA NotInShorter ==
    ASSUME NEW t \in Text, NEW v \in Secrets, Len(v) >= Len(t), t # v
    PROVE  \A k \in 1..Len(t) : ~OccursAt(v, t, k)
<1> SUFFICES ASSUME NEW k \in 1..Len(t), OccursAt(v, t, k) PROVE FALSE
  OBVIOUS
<1>1. Len(t) \in Nat /\ Len(v) \in Nat
  BY SecretLength DEF Text
<1>2. k = 1 /\ k + Len(v) - 1 = Len(t) /\ SubSeq(t, k, k + Len(v) - 1) = v
  BY <1>1 DEF OccursAt
<1>3. SubSeq(t, 1, Len(t)) = t
  BY SubSeqFull DEF Text
<1> QED
  BY <1>2, <1>3

(* Nor in the placeholder.                                                 *)
LEMMA NotInMask ==
    ASSUME NEW v \in Secrets
    PROVE  \A k \in 1..Len(<<Mask>>) : ~OccursAt(v, <<Mask>>, k)
<1> SUFFICES ASSUME NEW k \in 1..Len(<<Mask>>), OccursAt(v, <<Mask>>, k) PROVE FALSE
  OBVIOUS
<1>1. v \in Text /\ Len(v) \in Nat /\ Len(v) > 0 /\ <<Mask>> \in Text /\ Len(<<Mask>>) = 1
  BY SecretLength DEF Text
<1>2. k = 1 /\ Len(v) = 1
  BY <1>1 DEF OccursAt
<1>3. \A m \in 1..Len(v) : <<Mask>>[k + m - 1] = v[m]
  BY <1>1, OccursSymbols
<1>4. <<Mask>>[1] = v[1]
  <2>1. 1 \in 1..Len(v) /\ k + 1 - 1 = 1
    BY <1>1, <1>2
  <2> QED
    BY <1>3, <2>1
<1>5. \A i \in DOMAIN v : i = 1
  BY <1>2, SecretLength
<1> QED
  BY <1>4, <1>5 DEF Secrets

-----------------------------------------------------------------------------
(* scrubText. *)

(* What scrubText has of t after each of the registered values.            *)
IsLoop(g, t) ==
    g = [i \in 0..Len(secretValues) |-> IF i = 0 THEN t ELSE Replaced(g[i - 1], secretValues[i])]

LEMMA LoopExists ==
    ASSUME NEW t, secretValues \in Seq(Secrets)
    PROVE  \E g : IsLoop(g, t)
<1> DEFINE n == Len(secretValues)
           Good(k) == \E g : g = [i \in 0..k |-> IF i = 0 THEN t ELSE Replaced(g[i - 1], secretValues[i])]
           S == {k \in 0..n : Good(k)}
<1>1. n \in Nat
  OBVIOUS
<1>2. 0 \in S
  <2> DEFINE g == [i \in 0..0 |-> t]
  <2>1. g = [i \in 0..0 |-> IF i = 0 THEN t ELSE Replaced(g[i - 1], secretValues[i])]
    OBVIOUS
  <2>2. Good(0)
    <3> HIDE DEF g
    <3> QED
      BY <2>1, Zenon
  <2> QED
    BY <1>1, <2>2
<1>3. ASSUME NEW k \in 0..(n - 1), k \in S PROVE k + 1 \in S
  <2>1. PICK g : g = [i \in 0..k |-> IF i = 0 THEN t ELSE Replaced(g[i - 1], secretValues[i])]
    BY <1>3
  <2> DEFINE h == [i \in 0..(k + 1) |-> IF i = k + 1 THEN Replaced(g[k], secretValues[k + 1]) ELSE g[i]]
  <2>2. ASSUME NEW i \in 0..(k + 1)
        PROVE  h[i] = IF i = 0 THEN t ELSE Replaced(h[i - 1], secretValues[i])
    <3>1. CASE i = k + 1
      <4>1. h[i - 1] = g[k] /\ i # 0
        BY <3>1
      <4> QED
        BY <3>1, <4>1
    <3>2. CASE i # k + 1
      <4>1. i \in 0..k /\ h[i] = g[i]
        BY <3>2
      <4>2. g[i] = IF i = 0 THEN t ELSE Replaced(g[i - 1], secretValues[i])
        BY <2>1, <4>1
      <4>3. i # 0 => h[i - 1] = g[i - 1]
        BY <4>1
      <4> QED
        BY <4>1, <4>2, <4>3
    <3> QED
      BY <3>1, <3>2
  <2>3. h = [i \in 0..(k + 1) |-> IF i = 0 THEN t ELSE Replaced(h[i - 1], secretValues[i])]
    <3>1. h = [i \in 0..(k + 1) |-> h[i]]
      OBVIOUS
    <3> HIDE DEF h
    <3> QED
      BY <2>2, <3>1
  <2>4. Good(k + 1)
    <3> HIDE DEF h
    <3> QED
      BY <2>3, Zenon
  <2> QED
    BY <1>1, <2>4
<1>4. \A k \in 0..n : k \in S
  <2> HIDE DEF S, n
  <2> QED
    BY <1>1, <1>2, <1>3, Induction
<1>5. Good(n)
  BY <1>1, <1>4
<1> QED
  BY <1>5 DEF IsLoop

Scrubs(g, t) ==
    /\ g[0] = t
    /\ \A i \in 1..Len(secretValues) : g[i] = Replaced(g[i - 1], secretValues[i])
    /\ \A i \in 0..Len(secretValues) : g[i] \in Text
    /\ ScrubText(t) = [i \in DOMAIN g[Len(secretValues)] |->
                          IF g[Len(secretValues)][i] = "j" THEN Mask ELSE g[Len(secretValues)][i]]

LEMMA ScrubLoop ==
    ASSUME NEW t \in Text, secretValues \in Seq(Secrets)
    PROVE  \E g : Scrubs(g, t)
<1> DEFINE n == Len(secretValues)
           g == CHOOSE h : IsLoop(h, t)
<1>1. IsLoop(g, t)
  BY LoopExists
<1>2. ScrubText(t) = [i \in DOMAIN g[n] |-> IF g[n][i] = "j" THEN Mask ELSE g[n][i]]
  BY DEF ScrubText, IsLoop
<1> HIDE DEF g
<1>3. n \in Nat /\ \A i \in 1..n : secretValues[i] \in Secrets
  OBVIOUS
<1>4. g[0] = t
  BY <1>1, <1>3 DEF IsLoop
<1>5. ASSUME NEW i \in 1..n PROVE g[i] = Replaced(g[i - 1], secretValues[i])
  <2>1. i \in 0..n /\ i # 0
    BY <1>3
  <2> QED
    BY <1>1, <2>1 DEF IsLoop
<1>6. \A i \in 0..n : g[i] \in Text
  <2> DEFINE S == {i \in 0..n : g[i] \in Text}
  <2>1. 0 \in S
    BY <1>3, <1>4
  <2>2. ASSUME NEW i \in 0..(n - 1), i \in S PROVE i + 1 \in S
    <3>1. i + 1 \in 1..n /\ (i + 1) - 1 = i
      BY <1>3
    <3>2. g[i + 1] = Replaced(g[i], secretValues[i + 1])
      BY <1>5, <3>1
    <3>3. g[i + 1] \in Text
      BY <1>3, <2>2, <3>1, <3>2, ReplacedType
    <3> QED
      BY <3>1, <3>3
  <2>3. \A i \in 0..n : i \in S
    <3> HIDE DEF S, n
    <3> QED
      BY <1>3, <2>1, <2>2, Induction
  <2> QED
    BY <2>3
<1>7. Scrubs(g, t)
  BY <1>2, <1>4, <1>5, <1>6 DEF Scrubs
<1> QED
  BY <1>7

(* What stands where no credential format was is what the loop left.       *)
LEMMA ScrubbedSymbols ==
    ASSUME NEW t \in Text, secretValues \in Seq(Secrets), NEW g, Scrubs(g, t)
    PROVE  LET last == g[Len(secretValues)] IN
           /\ last \in Text /\ ScrubText(t) \in Text
           /\ Len(ScrubText(t)) = Len(last)
           /\ \A i \in 1..Len(last) :
                /\ last[i] = "j" => ScrubText(t)[i] = Mask
                /\ last[i] # "j" => ScrubText(t)[i] = last[i]
<1> DEFINE last == g[Len(secretValues)]
<1>1. Len(secretValues) \in 0..Len(secretValues)
  OBVIOUS
<1>2. last \in Text
  BY <1>1 DEF Scrubs
<1>3. ScrubText(t) = [i \in DOMAIN last |-> IF last[i] = "j" THEN Mask ELSE last[i]]
  BY DEF Scrubs
<1> HIDE DEF last
<1>4. DOMAIN last = 1..Len(last) /\ Len(last) \in Nat
  BY <1>2 DEF Text
<1>5. ScrubText(t) \in [1..Len(last) -> Letters \cup {Mask}]
  BY <1>2, <1>3, <1>4 DEF Text
<1>6. ScrubText(t) \in Text /\ Len(ScrubText(t)) = Len(last)
  BY <1>4, <1>5 DEF Text
<1>7. \A i \in 1..Len(last) :
          /\ last[i] = "j" => ScrubText(t)[i] = Mask
          /\ last[i] # "j" => ScrubText(t)[i] = last[i]
  BY <1>3, <1>4
<1> QED
  BY <1>2, <1>6, <1>7 DEF last

(* Of a text, HoldsSecret by the lengths.                                  *)
LEMMA HoldsSecretByLength ==
    ASSUME NEW t \in Text, secretValues \in Seq(Secrets)
    PROVE  HoldsSecret(t) <=>
              \/ \E i \in 1..Len(secretValues) : \E k \in 1..Len(t) : OccursAt(secretValues[i], t, k)
              \/ \E k \in 1..Len(t) : t[k] = "j"
<1>1. DOMAIN secretValues = 1..Len(secretValues)
  OBVIOUS
<1>2. DOMAIN t = 1..Len(t)
  BY DEF Text
<1> QED
  BY <1>1, <1>2 DEF HoldsSecret, HasKnownValue, HasFormat

(* What holds no secret stays as it is.                                    *)
LEMMA ScrubUnchanged ==
    ASSUME NEW t \in Text, secretValues \in Seq(Secrets), ~HoldsSecret(t)
    PROVE  ScrubText(t) = t
<1>1. PICK g : Scrubs(g, t)
  BY ScrubLoop
<1> DEFINE n == Len(secretValues)
           S == {i \in 0..n : g[i] = t}
<1>2. n \in Nat /\ \A i \in 1..n : secretValues[i] \in Secrets
  OBVIOUS
<1>3. 0 \in S
  BY <1>1, <1>2 DEF Scrubs
<1>4. ASSUME NEW i \in 0..(n - 1), i \in S PROVE i + 1 \in S
  <2>1. i + 1 \in 1..n /\ (i + 1) - 1 = i
    BY <1>2
  <2>2. g[i + 1] = Replaced(t, secretValues[i + 1])
    BY <1>1, <1>4, <2>1 DEF Scrubs
  <2>3. Replaced(t, secretValues[i + 1]) = t
    BY <1>2, <2>1, HoldsSecretByLength, ReplacedUnchanged
  <2> QED
    BY <2>1, <2>2, <2>3
<1>5. \A i \in 0..n : i \in S
  <2> HIDE DEF S, n
  <2> QED
    BY <1>2, <1>3, <1>4, Induction
<1>6. g[Len(secretValues)] = t
  BY <1>2, <1>5
<1>7. /\ ScrubText(t) \in Text /\ Len(ScrubText(t)) = Len(t)
      /\ \A i \in 1..Len(t) : t[i] # "j" => ScrubText(t)[i] = t[i]
  BY <1>1, <1>6, ScrubbedSymbols
<1>8. \A i \in 1..Len(t) : ScrubText(t)[i] = t[i]
  BY <1>7, HoldsSecretByLength
<1> QED
  BY <1>7, <1>8, SeqEqual DEF Text

(* The placeholder stays.                                                  *)
LEMMA ScrubMask ==
    ASSUME secretValues \in Seq(Secrets)
    PROVE  <<Mask>> \in Text /\ ~HoldsSecret(<<Mask>>) /\ ScrubText(<<Mask>>) = <<Mask>>
<1>1. <<Mask>> \in Text /\ Len(<<Mask>>) = 1 /\ <<Mask>>[1] # "j"
  BY DEF Text, Mask
<1>2. \A i \in 1..Len(secretValues) : secretValues[i] \in Secrets
  OBVIOUS
<1>3. \A i \in 1..Len(secretValues) : \A k \in 1..Len(<<Mask>>) : ~OccursAt(secretValues[i], <<Mask>>, k)
  BY <1>2, NotInMask
<1>4. ~HoldsSecret(<<Mask>>)
  <2> DEFINE t == <<Mask>>
  <2>1. t \in Text /\ \A k \in 1..Len(t) : t[k] # "j"
    BY <1>1
  <2>2. \A i \in 1..Len(secretValues) : \A k \in 1..Len(t) : ~OccursAt(secretValues[i], t, k)
    BY <1>3
  <2> HIDE DEF t
  <2>3. ~HoldsSecret(t)
    BY <2>1, <2>2, HoldsSecretByLength
  <2> QED
    BY <2>3 DEF t
<1> QED
  BY <1>1, <1>4, ScrubUnchanged

LEMMA ScrubType ==
    ASSUME NEW t \in Text, secretValues \in Seq(Secrets)
    PROVE  ScrubText(t) \in Text
BY ScrubLoop, ScrubbedSymbols

LEMMA NoValueHoldsSymbol ==
    ASSUME secretValues \in Seq(Secrets), NEW symbol, NoValueHolds(symbol)
    PROVE  \A i \in 1..Len(secretValues) : \A m \in 1..Len(secretValues[i]) : secretValues[i][m] # symbol
<1> SUFFICES ASSUME NEW i \in 1..Len(secretValues), NEW m \in 1..Len(secretValues[i])
             PROVE  secretValues[i][m] # symbol
  OBVIOUS
<1>1. i \in DOMAIN secretValues /\ secretValues[i] \in Secrets
  OBVIOUS
<1>2. m \in DOMAIN secretValues[i]
  BY <1>1, SecretLength
<1> QED
  BY <1>1, <1>2 DEF NoValueHolds, ToSet

(* Nothing the check looks for is left in a text that was scrubbed.        *)
LEMMA ScrubClean ==
    ASSUME NEW t \in Text, secretValues \in Seq(Secrets), NoValueHolds(Mask)
    PROVE  ~HoldsSecret(ScrubText(t))
<1>1. PICK g : Scrubs(g, t)
  BY ScrubLoop
<1> DEFINE n == Len(secretValues)
           S == {i \in 0..n : \A j \in 1..i : \A k \in 1..Len(g[i]) : ~OccursAt(secretValues[j], g[i], k)}
<1>2. n \in Nat /\ \A i \in 1..n : secretValues[i] \in Secrets
  OBVIOUS
<1>3. 0 \in S
  BY <1>2
<1>4. ASSUME NEW i \in 0..(n - 1), i \in S PROVE i + 1 \in S
  <2>1. i + 1 \in 1..n /\ (i + 1) - 1 = i /\ i \in 0..n
    BY <1>2
  <2>2. g[i + 1] = Replaced(g[i], secretValues[i + 1]) /\ g[i] \in Text
    BY <1>1, <2>1 DEF Scrubs
  <2>3. ASSUME NEW j \in 1..(i + 1), NEW k \in 1..Len(g[i + 1]), OccursAt(secretValues[j], g[i + 1], k)
        PROVE  FALSE
    <3>1. j \in 1..n
      BY <2>1
    <3>2. PICK p \in 1..Len(g[i]) :
              OccursAt(secretValues[j], g[i], p) /\ ~OccursAt(secretValues[i + 1], g[i], p)
      <4> DEFINE v == secretValues[i + 1]
                 w == secretValues[j]
      <4>1. \A m \in 1..Len(w) : w[m] # Mask
        BY <3>1, NoValueHoldsSymbol
      <4>2. v \in Secrets /\ w \in Secrets /\ g[i] \in Text /\ g[i + 1] = Replaced(g[i], v)
        BY <1>2, <2>1, <2>2, <3>1
      <4>3. OccursAt(w, Replaced(g[i], v), k) /\ k \in 1..Len(Replaced(g[i], v))
        BY <2>3, <4>2
      <4> HIDE DEF v, w
      <4>4. \E p \in 1..Len(g[i]) : OccursAt(w, g[i], p) /\ ~OccursAt(v, g[i], p)
        BY <4>1, <4>2, <4>3, ReplacedWindow
      <4> QED
        BY <4>4 DEF v, w
    <3>3. j \in 1..i
      BY <3>2
    <3> QED
      BY <1>4, <3>2, <3>3
  <2> QED
    BY <2>1, <2>3
<1>5. \A i \in 0..n : i \in S
  <2> HIDE DEF S, n
  <2> QED
    BY <1>2, <1>3, <1>4, Induction
<1> DEFINE last == g[n]
           s == ScrubText(t)
<1>6. \A j \in 1..n : \A k \in 1..Len(last) : ~OccursAt(secretValues[j], last, k)
  BY <1>2, <1>5
<1>7. /\ last \in Text /\ s \in Text /\ Len(s) = Len(last)
      /\ \A i \in 1..Len(last) : (last[i] = "j" => s[i] = Mask) /\ (last[i] # "j" => s[i] = last[i])
  BY <1>1, ScrubbedSymbols
<1> HIDE DEF last, s
<1>8. \A k \in 1..Len(s) : s[k] # "j"
  BY <1>7 DEF Mask
<1>9. ASSUME NEW j \in 1..n, NEW k \in 1..Len(s), OccursAt(secretValues[j], s, k) PROVE FALSE
  <2> DEFINE w == secretValues[j]
  <2>1. w \in Secrets /\ Len(w) \in Nat /\ Len(s) \in Nat /\ \A m \in 1..Len(w) : w[m] # Mask
    BY <1>2, <1>7, SecretLength, NoValueHoldsSymbol DEF Text
  <2>2. k + Len(w) - 1 <= Len(s) /\ \A m \in 1..Len(w) : s[k + m - 1] = w[m]
    BY <1>7, <1>9, <2>1, OccursSymbols
  <2> HIDE DEF w
  <2>3. ASSUME NEW m \in 1..Len(w) PROVE last[k + m - 1] = w[m]
    <3>1. k + m - 1 \in 1..Len(last)
      BY <1>7, <2>1, <2>2
    <3>2. s[k + m - 1] = w[m] /\ w[m] # Mask
      BY <2>1, <2>2
    <3> QED
      BY <1>7, <3>1, <3>2
  <2>4. OccursAt(w, last, k)
    BY <1>7, <2>1, <2>2, <2>3, OccursSymbols
  <2> QED
    BY <1>6, <1>7, <2>4 DEF w
<1>10. ~HoldsSecret(s)
  BY <1>7, <1>8, <1>9, HoldsSecretByLength
<1> QED
  BY <1>10 DEF s

-----------------------------------------------------------------------------
(* Replacements beside one another. *)

(* The symbols of two texts, one after the other.                          *)
LEMMA ConcatText ==
    ASSUME NEW x \in Text, NEW y \in Text
    PROVE  /\ x \o y \in Text /\ Len(x) \in Nat /\ Len(y) \in Nat /\ Len(x \o y) = Len(x) + Len(y)
           /\ \A i \in 1..Len(x) : (x \o y)[i] = x[i]
           /\ \A i \in 1..Len(y) : (x \o y)[Len(x) + i] = y[i]
<1>1. Len(x) \in Nat /\ Len(y) \in Nat
  BY DEF Text
<1>2. /\ x \o y \in Text /\ Len(x \o y) = Len(x) + Len(y)
      /\ \A i \in 1..(Len(x) + Len(y)) : (x \o y)[i] = IF i <= Len(x) THEN x[i] ELSE y[i - Len(x)]
  BY ConcatProperties DEF Text
<1>3. ASSUME NEW i \in 1..Len(x) PROVE (x \o y)[i] = x[i]
  <2>1. i \in 1..(Len(x) + Len(y)) /\ i <= Len(x)
    BY <1>1
  <2> QED
    BY <1>2, <2>1, Zenon
<1>4. ASSUME NEW i \in 1..Len(y) PROVE (x \o y)[Len(x) + i] = y[i]
  <2>1. Len(x) + i \in 1..(Len(x) + Len(y)) /\ ~(Len(x) + i <= Len(x)) /\ (Len(x) + i) - Len(x) = i
    BY <1>1
  <2>2. (x \o y)[Len(x) + i] = IF Len(x) + i <= Len(x) THEN x[Len(x) + i] ELSE y[(Len(x) + i) - Len(x)]
    BY <1>2, <2>1, Zenon
  <2> QED
    BY <2>1, <2>2
<1> QED
  BY <1>1, <1>2, <1>3, <1>4

LEMMA ConcatThree ==
    ASSUME NEW x \in Text, NEW y \in Text, NEW z \in Text
    PROVE  (x \o y) \o z = x \o (y \o z)
BY ConcatAssociative DEF Text

(* Where a value occurs in the second of two texts.                        *)
LEMMA OccursBehind ==
    ASSUME NEW x \in Text, NEW y \in Text, NEW w \in Secrets, NEW i \in 1..Len(y)
    PROVE  OccursAt(w, x \o y, Len(x) + i) <=> OccursAt(w, y, i)
<1>1. /\ x \o y \in Text /\ Len(x) \in Nat /\ Len(y) \in Nat /\ Len(x \o y) = Len(x) + Len(y)
      /\ \A k \in 1..Len(y) : (x \o y)[Len(x) + k] = y[k]
  BY ConcatText
<1> DEFINE z == x \o y
<1>2. Len(w) \in Nat /\ Len(w) > 0 /\ z \in Text /\ Len(x) + i \in 1..Len(z)
  BY <1>1, SecretLength
<1> HIDE DEF z
<1>3. OccursAt(w, z, Len(x) + i) <=>
          (Len(x) + i) + Len(w) - 1 <= Len(z) /\ \A m \in 1..Len(w) : z[(Len(x) + i) + m - 1] = w[m]
  BY <1>2, OccursSymbols
<1>4. OccursAt(w, y, i) <=> i + Len(w) - 1 <= Len(y) /\ \A m \in 1..Len(w) : y[i + m - 1] = w[m]
  BY OccursSymbols
<1>5. (Len(x) + i) + Len(w) - 1 <= Len(z) <=> i + Len(w) - 1 <= Len(y)
  BY <1>1, <1>2 DEF z
<1>6. ASSUME NEW m \in 1..Len(w), i + Len(w) - 1 <= Len(y) PROVE z[(Len(x) + i) + m - 1] = y[i + m - 1]
  <2>1. i + m - 1 \in 1..Len(y) /\ (Len(x) + i) + m - 1 = Len(x) + (i + m - 1)
    BY <1>1, <1>2, <1>6
  <2>2. z[Len(x) + (i + m - 1)] = y[i + m - 1]
    BY <1>1, <2>1 DEF z
  <2> QED
    BY <2>1, <2>2
<1>7. OccursAt(w, z, Len(x) + i) <=> OccursAt(w, y, i)
  BY <1>3, <1>4, <1>5, <1>6
<1> QED
  BY <1>7 DEF z

(* And where it occurs within the first.                                   *)
LEMMA OccursInFront ==
    ASSUME NEW x \in Text, NEW y \in Text, NEW w \in Secrets, NEW i \in 1..Len(x)
    PROVE  OccursAt(w, x, i) <=> OccursAt(w, x \o y, i) /\ i + Len(w) - 1 <= Len(x)
<1>1. /\ x \o y \in Text /\ Len(x) \in Nat /\ Len(y) \in Nat /\ Len(x \o y) = Len(x) + Len(y)
      /\ \A k \in 1..Len(x) : (x \o y)[k] = x[k]
  BY ConcatText
<1> DEFINE z == x \o y
<1>2. Len(w) \in Nat /\ Len(w) > 0 /\ z \in Text /\ i \in 1..Len(z)
  BY <1>1, SecretLength
<1> HIDE DEF z
<1>3. OccursAt(w, z, i) <=> i + Len(w) - 1 <= Len(z) /\ \A m \in 1..Len(w) : z[i + m - 1] = w[m]
  BY <1>2, OccursSymbols
<1>4. OccursAt(w, x, i) <=> i + Len(w) - 1 <= Len(x) /\ \A m \in 1..Len(w) : x[i + m - 1] = w[m]
  BY OccursSymbols
<1>5. i + Len(w) - 1 <= Len(x) => i + Len(w) - 1 <= Len(z)
  BY <1>1, <1>2 DEF z
<1>6. ASSUME NEW m \in 1..Len(w), i + Len(w) - 1 <= Len(x) PROVE z[i + m - 1] = x[i + m - 1]
  <2>1. i + m - 1 \in 1..Len(x)
    BY <1>1, <1>2, <1>6
  <2> QED
    BY <1>1, <2>1 DEF z
<1>7. OccursAt(w, x, i) <=> OccursAt(w, z, i) /\ i + Len(w) - 1 <= Len(x)
  BY <1>3, <1>4, <1>5, <1>6
<1> QED
  BY <1>7 DEF z

(* Two texts are scanned apart if the value does not reach from one into   *)
(* the other.                                                              *)
LEMMA ReplacedConcat ==
    ASSUME NEW x \in Text, NEW y \in Text, NEW w \in Secrets,
           \A p \in 1..Len(x) : OccursAt(w, x \o y, p) => p + Len(w) - 1 <= Len(x)
    PROVE  Replaced(x \o y, w) = Replaced(x, w) \o Replaced(y, w)
<1> DEFINE z == x \o y
<1>1. z \in Text /\ Len(x) \in Nat /\ Len(y) \in Nat /\ Len(z) = Len(x) + Len(y) /\ Len(w) \in Nat /\ Len(w) > 0
  BY ConcatText, SecretLength
<1>2. PICK f : IsScan(f, z, w) /\ Replaced(z, w) = f[1]
  BY <1>1, ReplacedScan
<1>3. PICK g : IsScan(g, x, w) /\ Replaced(x, w) = g[1]
  BY ReplacedScan
<1>4. PICK h : IsScan(h, y, w) /\ Replaced(y, w) = h[1]
  BY ReplacedScan
<1>13. \A k \in 1..Len(z) :
          /\ OccursAt(w, z, k) => f[k] = <<Mask>> \o f[k + Len(w)]
          /\ ~OccursAt(w, z, k) => f[k] = <<z[k]>> \o f[k + 1]
  <2>1. z \in Text /\ IsScan(f, z, w)
    BY <1>1, <1>2
  <2> HIDE DEF z
  <2>2. \A k \in 1..Len(z) :
            /\ OccursAt(w, z, k) => k + Len(w) \in (k + 1)..(Len(z) + 1) /\ f[k] = <<Mask>> \o f[k + Len(w)]
            /\ ~OccursAt(w, z, k) => f[k] = <<z[k]>> \o f[k + 1]
    BY <2>1, ScanAt
  <2> QED
    BY <2>2
<1> DEFINE B == {i \in 1..(Len(y) + 1) : f[Len(x) + i] = h[i]}
           A == {i \in 1..(Len(x) + 1) : f[i] = g[i] \o h[1]}
<1>5. Len(y) + 1 \in B
  <2>1. h[Len(y) + 1] = <<>>
    BY <1>4, ScanAt
  <2>2. f[Len(z) + 1] = <<>>
    BY <1>1, <1>2, ScanAt
  <2>3. Len(z) + 1 = Len(x) + (Len(y) + 1) /\ Len(y) + 1 \in 1..(Len(y) + 1)
    BY <1>1
  <2> HIDE DEF z
  <2> QED
    BY <2>1, <2>2, <2>3
<1>6. ASSUME NEW i \in 1..Len(y), \A j \in (i + 1)..(Len(y) + 1) : j \in B PROVE i \in B
  <2> DEFINE k == Len(x) + i
  <2>1. k \in 1..Len(z) /\ i \in 1..(Len(y) + 1) /\ i + 1 \in (i + 1)..(Len(y) + 1)
    BY <1>1
  <2>2. z[k] = y[i] /\ (OccursAt(w, z, k) <=> OccursAt(w, y, i))
    BY ConcatText, OccursBehind
  <2>3. /\ OccursAt(w, z, k) => f[k] = <<Mask>> \o f[k + Len(w)]
        /\ ~OccursAt(w, z, k) => f[k] = <<z[k]>> \o f[k + 1]
    <3> HIDE DEF k, z
    <3> QED
      BY <1>13, <2>1
  <2>4. /\ OccursAt(w, y, i) => i + Len(w) \in (i + 1)..(Len(y) + 1) /\ h[i] = <<Mask>> \o h[i + Len(w)]
        /\ ~OccursAt(w, y, i) => h[i] = <<y[i]>> \o h[i + 1]
    BY <1>4, ScanAt
  <2>5. k + Len(w) = Len(x) + (i + Len(w)) /\ k + 1 = Len(x) + (i + 1)
    BY <1>1
  <2>6. CASE OccursAt(w, y, i)
    <3>1. f[Len(x) + (i + Len(w))] = h[i + Len(w)]
      BY <1>6, <2>4, <2>6
    <3> HIDE DEF z
    <3> QED
      BY <2>1, <2>2, <2>3, <2>4, <2>5, <2>6, <3>1
  <2>7. CASE ~OccursAt(w, y, i)
    <3>1. f[Len(x) + (i + 1)] = h[i + 1]
      BY <1>6, <2>1
    <3> HIDE DEF z
    <3> QED
      BY <2>1, <2>2, <2>3, <2>4, <2>5, <2>7, <3>1
  <2> QED
    BY <2>6, <2>7
<1>7. f[Len(x) + 1] = h[1]
  <2>1. \A i \in 1..(Len(y) + 1) : i \in B
    <3> HIDE DEF B
    <3> QED
      BY <1>1, <1>5, <1>6, Backwards
  <2>2. 1 \in 1..(Len(y) + 1)
    BY <1>1
  <2> QED
    BY <2>1, <2>2
<1>8. h[1] \in Text /\ \A i \in 1..(Len(x) + 1) : g[i] \in Text
  <2>1. 1 \in 1..(Len(y) + 1)
    BY <1>1
  <2> QED
    BY <1>3, <1>4, <2>1, ScanType
<1>9. Len(x) + 1 \in A
  <2>1. g[Len(x) + 1] = <<>> /\ Len(x) + 1 \in 1..(Len(x) + 1)
    BY <1>1, <1>3, ScanAt
  <2>2. <<>> \o h[1] = h[1]
    BY <1>8, ConcatEmptySeq DEF Text
  <2> QED
    BY <1>7, <2>1, <2>2
<1>10. ASSUME NEW i \in 1..Len(x), \A j \in (i + 1)..(Len(x) + 1) : j \in A PROVE i \in A
  <2>1. i \in 1..Len(z) /\ i \in 1..(Len(x) + 1) /\ i + 1 \in (i + 1)..(Len(x) + 1)
    BY <1>1
  <2>2. z[i] = x[i] /\ (OccursAt(w, z, i) <=> OccursAt(w, x, i))
    BY ConcatText, OccursInFront
  <2>3. /\ OccursAt(w, z, i) => f[i] = <<Mask>> \o f[i + Len(w)]
        /\ ~OccursAt(w, z, i) => f[i] = <<z[i]>> \o f[i + 1]
    <3> HIDE DEF z
    <3> QED
      BY <1>13, <2>1
  <2>4. PICK c \in Letters \cup {Mask}, j \in (i + 1)..(Len(x) + 1) : g[i] = <<c>> \o g[j] /\ f[i] = <<c>> \o f[j]
    <3>1. CASE OccursAt(w, x, i)
      <4>1. i + Len(w) \in (i + 1)..(Len(x) + 1) /\ g[i] = <<Mask>> \o g[i + Len(w)]
        BY <1>3, <3>1, ScanAt
      <4>2. f[i] = <<Mask>> \o f[i + Len(w)]
        BY <2>2, <2>3, <3>1
      <4> QED
        BY <4>1, <4>2
    <3>2. CASE ~OccursAt(w, x, i)
      <4>1. g[i] = <<x[i]>> \o g[i + 1]
        BY <1>3, <3>2, ScanAt
      <4>2. f[i] = <<x[i]>> \o f[i + 1]
        BY <2>2, <2>3, <3>2
      <4>3. x[i] \in Letters \cup {Mask}
        BY DEF Text
      <4> QED
        BY <2>1, <4>1, <4>2, <4>3
    <3> QED
      BY <3>1, <3>2
  <2>5. f[j] = g[j] \o h[1] /\ g[j] \in Text /\ <<c>> \in Text
    <3>1. f[j] = g[j] \o h[1]
      BY <1>10
    <3>2. j \in 1..(Len(x) + 1)
      BY <1>1
    <3> QED
      BY <1>8, <3>1, <3>2 DEF Text
  <2>6. (<<c>> \o g[j]) \o h[1] = <<c>> \o (g[j] \o h[1])
    <3>1. <<c>> \in Text
      BY <2>5
    <3>2. g[j] \in Text
      BY <2>5
    <3>3. h[1] \in Text
      BY <1>8
    <3> HIDE DEF A, z
    <3> QED
      BY <3>1, <3>2, <3>3, ConcatThree, Zenon
  <2> QED
    BY <2>1, <2>4, <2>5, <2>6
<1>11. \A i \in 1..(Len(x) + 1) : i \in A
  <2> HIDE DEF A
  <2> QED
    BY <1>1, <1>9, <1>10, Backwards
<1>12. f[1] = g[1] \o h[1]
  <2>1. 1 \in 1..(Len(x) + 1)
    BY <1>1
  <2>2. 1 \in A
    BY <1>11, <2>1
  <2> QED
    BY <2>2
<1> QED
  BY <1>2, <1>3, <1>4, <1>12

(* The end of b, up to a placeholder, is the end of a; and so with fronts. *)
SameEnd(a, b) ==
    \A d \in 1..Len(b) :
        (\A q \in d..Len(b) : b[q] # Mask) => Len(b) - d + 1 <= Len(a) /\ b[d] = a[(Len(a) - Len(b)) + d]

SameFront(a, b) ==
    \A d \in 1..Len(b) : (\A q \in 1..d : b[q] # Mask) => d <= Len(a) /\ b[d] = a[d]

(* A scan that leaves no placeholder leaves all that followed.             *)
LEMMA ScanWhole ==
    ASSUME NEW t \in Text, NEW v \in Secrets, NEW f, IsScan(f, t, v)
    PROVE  \A i \in 1..(Len(t) + 1) : (\A m \in 1..Len(f[i]) : f[i][m] # Mask) => Len(f[i]) = Len(t) + 1 - i
<1> DEFINE Whole(i) == (\A m \in 1..Len(f[i]) : f[i][m] # Mask) => Len(f[i]) = Len(t) + 1 - i
           S == {i \in 1..(Len(t) + 1) : Whole(i)}
<1>1. Len(t) \in Nat
  BY DEF Text
<1>2. Len(t) + 1 \in S
  <2>1. Len(f[Len(t) + 1]) = 0
    BY ScanAt, EmptySeq
  <2> QED
    BY <1>1, <2>1
<1>3. ASSUME NEW i \in 1..Len(t), \A j \in (i + 1)..(Len(t) + 1) : j \in S
      PROVE  i \in S
  <2>1. PICK j \in (i + 1)..(Len(t) + 1) :
            /\ Len(f[i]) = Len(f[j]) + 1
            /\ \A m \in 1..Len(f[j]) : f[i][m + 1] = f[j][m]
            /\ f[i][1] # Mask => j = i + 1 /\ f[i][1] = t[i] /\ ~OccursAt(v, t, i)
    <3> HIDE DEF S
    <3> QED
      BY ScanStep
  <2>2. Len(f[i]) \in Nat /\ Len(f[j]) \in Nat
    BY <1>1, ScanType DEF Text
  <2>3. ASSUME \A m \in 1..Len(f[i]) : f[i][m] # Mask PROVE Len(f[i]) = Len(t) + 1 - i
    <3>1. j = i + 1
      <4>1. 1 \in 1..Len(f[i])
        BY <2>1, <2>2
      <4>2. f[i][1] # Mask
        BY <2>3, <4>1
      <4> QED
        BY <2>1, <4>2
    <3>2. ASSUME NEW m \in 1..Len(f[j]) PROVE f[j][m] # Mask
      <4>1. m + 1 \in 1..Len(f[i])
        BY <2>1, <2>2
      <4> QED
        BY <2>1, <2>3, <4>1
    <3>3. Len(f[j]) = Len(t) + 1 - j
      <4>1. j \in S
        BY <1>3
      <4> QED
        BY <3>2, <4>1
    <3> QED
      BY <1>1, <2>1, <3>1, <3>3
  <2>4. i \in 1..(Len(t) + 1)
    BY <1>1
  <2> QED
    BY <2>3, <2>4
<1>4. \A i \in 1..(Len(t) + 1) : i \in S
  <2> HIDE DEF S
  <2> QED
    BY <1>1, <1>2, <1>3, Backwards
<1> QED
  BY <1>4

LEMMA SameEndStep ==
    ASSUME NEW a \in Text, NEW b \in Text, NEW v \in Secrets, SameEnd(a, b)
    PROVE  SameEnd(a, Replaced(b, v))
<1>1. PICK f : IsScan(f, b, v) /\ Replaced(b, v) = f[1]
  BY ReplacedScan
<1> DEFINE r == f[1]
<1>2. r \in Text /\ Len(r) \in Nat /\ Len(b) \in Nat /\ Len(a) \in Nat
  <2>1. r \in Text
    BY <1>1, ReplacedType
  <2> QED
    BY <2>1 DEF Text
<1> SUFFICES ASSUME NEW d \in 1..Len(r), \A q \in d..Len(r) : r[q] # Mask
             PROVE  Len(r) - d + 1 <= Len(a) /\ r[d] = a[(Len(a) - Len(r)) + d]
  BY <1>1 DEF SameEnd
<1>3. PICK p \in 1..Len(b) :
          /\ Len(f[p]) = Len(r) - d + 1
          /\ \A m \in 1..Len(f[p]) : f[p][m] = r[d + m - 1]
  <2>1. 1 \in 1..(Len(b) + 1)
    BY <1>2
  <2>2. EndsLater(f, b, 1, d)
    BY <1>1, <2>1, ScanSuffix
  <2> QED
    BY <2>2 DEF EndsLater
<1>4. p \in 1..(Len(b) + 1) /\ \A m \in 1..Len(f[p]) : f[p][m] # Mask
  <2>1. ASSUME NEW m \in 1..Len(f[p]) PROVE d + m - 1 \in d..Len(r)
    BY <1>2, <1>3
  <2>2. ASSUME NEW m \in 1..Len(f[p]) PROVE f[p][m] # Mask
    <3>1. f[p][m] = r[d + m - 1]
      BY <1>3
    <3> QED
      BY <2>1, <3>1
  <2>3. p \in 1..(Len(b) + 1)
    BY <1>2
  <2> QED
    BY <2>2, <2>3
<1>5. Len(f[p]) = Len(b) + 1 - p
  BY <1>1, <1>4, ScanWhole
<1>6. \A m \in 1..Len(f[p]) : f[p][m] = b[p + m - 1]
  <2> SUFFICES ASSUME NEW m \in 1..Len(f[p]) PROVE f[p][m] = b[p + m - 1]
    OBVIOUS
  <2>1. Len(f[p]) \in Nat
    BY <1>2, <1>5
  <2>2. \A q \in 1..m : q \in 1..Len(f[p])
    BY <2>1
  <2>3. \A q \in 1..m : f[p][q] # Mask
    BY <1>4, <2>2
  <2> QED
    <3> HIDE DEF r
    <3>1. p + m - 1 <= Len(b) /\ f[p][m] = b[p + m - 1]
      BY <1>1, <1>4, <2>3, ScanPrefix
    <3> QED
      BY <3>1
<1>7. \A q \in p..Len(b) : b[q] # Mask
  <2> SUFFICES ASSUME NEW q \in p..Len(b) PROVE b[q] # Mask
    OBVIOUS
  <2>1. q - p + 1 \in 1..Len(f[p]) /\ p + (q - p + 1) - 1 = q
    BY <1>2, <1>5
  <2> QED
    BY <1>4, <1>6, <2>1
<1>8. Len(b) - p + 1 <= Len(a) /\ b[p] = a[(Len(a) - Len(b)) + p]
  BY <1>7 DEF SameEnd
<1>9. r[d] = b[p]
  <2>1. 1 \in 1..Len(f[p]) /\ d + 1 - 1 = d /\ p + 1 - 1 = p
    BY <1>2, <1>5
  <2>2. f[p][1] = r[d + 1 - 1] /\ f[p][1] = b[p + 1 - 1]
    BY <1>3, <1>6, <2>1
  <2> QED
    BY <2>1, <2>2
<1> HIDE DEF r
<1>10. Len(b) - p = Len(r) - d
  <2>1. Len(r) - d + 1 = Len(b) + 1 - p
    BY <1>3, <1>5
  <2>2. p \in Int /\ d \in Int
    BY <1>2
  <2> QED
    BY <1>2, <2>1, <2>2
<1>11. (Len(a) - Len(b)) + p = (Len(a) - Len(r)) + d
  BY <1>2, <1>10
<1>12. Len(r) - d + 1 <= Len(a)
  BY <1>2, <1>8, <1>10
<1>13. r[d] = a[(Len(a) - Len(r)) + d]
  BY <1>8, <1>9, <1>11
<1> QED
  BY <1>12, <1>13 DEF r

LEMMA SameFrontStep ==
    ASSUME NEW a \in Text, NEW b \in Text, NEW v \in Secrets, SameFront(a, b)
    PROVE  SameFront(a, Replaced(b, v))
<1>1. PICK f : IsScan(f, b, v) /\ Replaced(b, v) = f[1]
  BY ReplacedScan
<1> DEFINE r == f[1]
<1>2. r \in Text /\ Len(r) \in Nat /\ Len(b) \in Nat /\ Len(a) \in Nat
  <2>1. r \in Text
    BY <1>1, ReplacedType
  <2> QED
    BY <2>1 DEF Text
<1> SUFFICES ASSUME NEW d \in 1..Len(r), \A q \in 1..d : r[q] # Mask
             PROVE  d <= Len(a) /\ r[d] = a[d]
  BY <1>1 DEF SameFront
<1>3. ASSUME NEW q \in 1..d PROVE q \in 1..Len(b) /\ r[q] = b[q]
  <2>1. 1 \in 1..(Len(b) + 1) /\ q \in 1..Len(r) /\ 1 + q - 1 = q
    BY <1>2
  <2>2. \A k \in 1..q : r[k] # Mask
    BY <1>2
  <2>3. 1 + q - 1 <= Len(b) /\ r[q] = b[1 + q - 1]
    BY <1>1, <2>1, <2>2, ScanPrefix
  <2> QED
    BY <1>2, <2>1, <2>3
<1>4. d \in 1..d
  BY <1>2
<1>5. d \in 1..Len(b) /\ \A q \in 1..d : b[q] # Mask
  BY <1>3, <1>4
<1> QED
  BY <1>3, <1>4, <1>5 DEF SameFront

(* The symbols of three texts, one after the other.                        *)
AreThree(t, x, y, z) ==
    /\ t \in Text /\ y \o z \in Text
    /\ Len(x) \in Nat /\ Len(y) \in Nat /\ Len(z) \in Nat
    /\ Len(t) = Len(x) + (Len(y) + Len(z))
    /\ \A i \in 1..Len(x) : t[i] = x[i]
    /\ \A i \in 1..Len(y) : t[Len(x) + i] = y[i]
    /\ \A i \in 1..Len(z) : t[Len(x) + (Len(y) + i)] = z[i]

LEMMA ThreeTexts ==
    ASSUME NEW x \in Text, NEW y \in Text, NEW z \in Text
    PROVE  AreThree(x \o (y \o z), x, y, z)
<1> DEFINE u == y \o z
<1>1. /\ u \in Text /\ Len(y) \in Nat /\ Len(z) \in Nat /\ Len(u) = Len(y) + Len(z)
      /\ \A i \in 1..Len(y) : u[i] = y[i]
      /\ \A i \in 1..Len(z) : u[Len(y) + i] = z[i]
  BY ConcatText
<1> HIDE DEF u
<1>2. /\ x \o u \in Text /\ Len(x) \in Nat /\ Len(x \o u) = Len(x) + Len(u)
      /\ \A i \in 1..Len(x) : (x \o u)[i] = x[i]
      /\ \A i \in 1..Len(u) : (x \o u)[Len(x) + i] = u[i]
  BY <1>1, ConcatText
<1>3. ASSUME NEW i \in 1..Len(y) PROVE (x \o u)[Len(x) + i] = y[i]
  BY <1>1, <1>2
<1>4. ASSUME NEW i \in 1..Len(z) PROVE (x \o u)[Len(x) + (Len(y) + i)] = z[i]
  <2>1. Len(y) + i \in 1..Len(u)
    BY <1>1
  <2> QED
    BY <1>1, <1>2, <2>1
<1>5. AreThree(x \o u, x, y, z)
  BY <1>1, <1>2, <1>3, <1>4 DEF AreThree, u
<1> QED
  BY <1>5 DEF u

(* What occurs around a value that still stands occurred there from the    *)
(* start: the scrub so far has touched neither end of it.                  *)
LEMMA OccursFromTheStart ==
    ASSUME NEW a \in Text, NEW b \in Text, NEW A \in Text, NEW B \in Text, SameEnd(A, a), SameFront(B, b),
           NEW v \in Secrets, NEW w \in Secrets, \A m \in 1..Len(w) : w[m] # Mask,
           NEW p \in 1..(Len(a) + Len(v)), p + Len(w) - 1 > Len(a), OccursAt(w, a \o (v \o b), p)
    PROVE  (p - Len(a)) + Len(A) \in 1..Len(A \o (v \o B)) /\ OccursAt(w, A \o (v \o B), (p - Len(a)) + Len(A))
<1> DEFINE x == a \o (v \o b)
           t == A \o (v \o B)
           P == (p - Len(a)) + Len(A)
<1>1. v \in Text /\ Len(v) \in Nat /\ Len(v) > 0 /\ Len(w) \in Nat /\ Len(w) > 0
  BY SecretLength
<1>2. AreThree(x, a, v, b)
  BY <1>1, ThreeTexts
<1>3. AreThree(t, A, v, B)
  BY <1>1, ThreeTexts
<1>4. OccursAt(w, x, p)
  OBVIOUS
<1> HIDE DEF x, t
<1> USE DEF AreThree
<1>5. p \in 1..Len(x)
  BY <1>1, <1>2
<1>6. p + Len(w) - 1 <= Len(x) /\ \A m \in 1..Len(w) : x[p + m - 1] = w[m]
  BY <1>2, <1>4, <1>5, OccursSymbols
<1>7. ASSUME NEW m \in 1..Len(w) PROVE P + m - 1 \in 1..Len(t) /\ t[P + m - 1] = w[m]
  <2> DEFINE k == p + m - 1
  <2>1. k \in 1..Len(x) /\ x[k] = w[m] /\ P + m - 1 = (k - Len(a)) + Len(A)
    <3>1. m \in Nat /\ Len(a) \in Nat /\ Len(A) \in Nat /\ Len(x) \in Nat /\ p \in Nat
      BY <1>1, <1>2, <1>3, <1>5
    <3>2. k \in 1..Len(x)
      BY <1>1, <1>5, <1>6, <3>1
    <3>3. x[k] = w[m]
      BY <1>6
    <3>4. P + m - 1 = (k - Len(a)) + Len(A)
      BY <3>1
    <3> QED
      BY <3>2, <3>3, <3>4
  <2> HIDE DEF k
  <2>2. CASE k <= Len(a)
    <3>1. ASSUME NEW e \in k..Len(a) PROVE a[e] # Mask
      <4>1. e - p + 1 \in 1..Len(w) /\ p + (e - p + 1) - 1 = e /\ e \in 1..Len(a)
        BY <1>1, <1>2, <2>1 DEF k
      <4>2. x[e] = w[e - p + 1] /\ w[e - p + 1] # Mask
        BY <1>6, <4>1
      <4> QED
        BY <1>2, <4>1, <4>2
    <3>2. k \in 1..Len(a)
      BY <1>2, <2>1, <2>2
    <3>3. Len(a) - k + 1 <= Len(A) /\ a[k] = A[(Len(A) - Len(a)) + k]
      BY <3>1, <3>2 DEF SameEnd
    <3>4. (Len(A) - Len(a)) + k = P + m - 1 /\ P + m - 1 \in 1..Len(A)
      <4>1. (Len(A) - Len(a)) + k = (k - Len(a)) + Len(A)
        BY <1>2, <1>3, <3>2
      <4>2. (k - Len(a)) + Len(A) \in 1..Len(A)
        BY <1>2, <1>3, <3>2, <3>3
      <4> QED
        BY <2>1, <4>1, <4>2
    <3>5. t[P + m - 1] = w[m]
      BY <1>2, <1>3, <2>1, <3>2, <3>3, <3>4
    <3> HIDE DEF P
    <3> QED
      BY <1>1, <1>3, <3>4, <3>5
  <2>3. CASE k > Len(a) /\ k <= Len(a) + Len(v)
    <3> DEFINE e == k - Len(a)
    <3>1. e \in 1..Len(v) /\ Len(a) + e = k /\ P + m - 1 = Len(A) + e
      BY <1>1, <1>2, <1>3, <2>1, <2>3
    <3> HIDE DEF e, P
    <3>2. x[k] = v[e] /\ t[Len(A) + e] = v[e]
      BY <1>2, <1>3, <3>1
    <3>3. Len(A) + e \in 1..Len(t)
      BY <1>1, <1>3, <3>1
    <3> QED
      BY <2>1, <3>1, <3>2, <3>3
  <2>4. CASE k > Len(a) + Len(v)
    <3> DEFINE e == (k - Len(a)) - Len(v)
    <3>1. e \in 1..Len(b) /\ Len(a) + (Len(v) + e) = k /\ P + m - 1 = Len(A) + (Len(v) + e)
      BY <1>1, <1>2, <1>3, <2>1, <2>4
    <3>2. ASSUME NEW q \in 1..e PROVE b[q] # Mask
      <4> DEFINE s == (Len(a) + (Len(v) + q)) - p + 1
      <4>1. s \in 1..Len(w) /\ p + s - 1 = Len(a) + (Len(v) + q) /\ q \in 1..Len(b)
        BY <1>1, <1>2, <2>1, <3>1 DEF k
      <4> HIDE DEF s
      <4>2. x[Len(a) + (Len(v) + q)] = w[s] /\ w[s] # Mask
        BY <1>6, <4>1
      <4> QED
        BY <1>2, <4>1, <4>2
    <3> HIDE DEF e, P
    <3>3. e <= Len(B) /\ b[e] = B[e]
      BY <3>1, <3>2 DEF SameFront
    <3>4. e \in 1..Len(B) /\ Len(A) + (Len(v) + e) \in 1..Len(t)
      BY <1>1, <1>3, <3>1, <3>3
    <3>5. x[k] = b[e] /\ t[Len(A) + (Len(v) + e)] = B[e]
      BY <1>2, <1>3, <3>1, <3>4
    <3> QED
      BY <2>1, <3>1, <3>3, <3>4, <3>5
  <2> QED
    BY <1>1, <1>2, <2>1, <2>2, <2>3, <2>4
<1>8. P \in 1..Len(t)
  <2>1. 1 \in 1..Len(w) /\ P + 1 - 1 = P
    BY <1>1, <1>2, <1>3
  <2> HIDE DEF P
  <2> QED
    BY <1>7, <2>1
<1>9. P + Len(w) - 1 <= Len(t)
  <2>1. Len(w) \in 1..Len(w)
    BY <1>1
  <2> HIDE DEF P
  <2>2. P + Len(w) - 1 \in 1..Len(t)
    BY <1>7, <2>1
  <2> QED
    BY <2>2
<1>10. OccursAt(w, t, P)
  <2> HIDE DEF P
  <2> QED
    BY <1>3, <1>7, <1>8, <1>9, OccursSymbols
<1> QED
  BY <1>8, <1>10 DEF t

(* In the text A v B, every occurrence of w lies before v, behind it or    *)
(* within it.                                                              *)
KeepsApart(w, A, v, B) ==
    \A p \in 1..Len(A \o (v \o B)) : OccursAt(w, A \o (v \o B), p) =>
        \/ p + Len(w) <= Len(A) + 1
        \/ p >= Len(A) + 1 + Len(v)
        \/ p >= Len(A) + 1 /\ p + Len(w) <= Len(A) + 1 + Len(v)

(* The three parts of the text a v b are replaced each on its own.         *)
ReplacedApart(w, a, v, b) ==
    Replaced(a \o (v \o b), w) = Replaced(a, w) \o (Replaced(v, w) \o Replaced(b, w))

(* One more value is replaced while v still stands.                        *)
LEMMA ReplacedAround ==
    ASSUME NEW a \in Text, NEW b \in Text, NEW A \in Text, NEW B \in Text, SameEnd(A, a), SameFront(B, b),
           NEW v \in Secrets, NEW w \in Secrets, \A m \in 1..Len(w) : w[m] # Mask,
           KeepsApart(w, A, v, B)
    PROVE  ReplacedApart(w, a, v, b)
<1> USE DEF KeepsApart, ReplacedApart
<1>1. v \in Text /\ Len(v) \in Nat /\ Len(v) > 0 /\ Len(w) \in Nat /\ Len(w) > 0
  BY SecretLength
<1>2. v \o b \in Text /\ Len(a) \in Nat /\ Len(A) \in Nat /\ Len(b) \in Nat
  BY <1>1, ConcatText
<1>3. ASSUME NEW p \in 1..(Len(a) + Len(v)), p + Len(w) - 1 > Len(a), OccursAt(w, a \o (v \o b), p)
      PROVE  p > Len(a) /\ p + Len(w) - 1 <= Len(a) + Len(v)
  <2> DEFINE P == (p - Len(a)) + Len(A)
             t == A \o (v \o B)
  <2>1. P \in 1..Len(t) /\ OccursAt(w, t, P)
    BY <1>3, OccursFromTheStart
  <2>2. \/ P + Len(w) <= Len(A) + 1
        \/ P >= Len(A) + 1 + Len(v)
        \/ P >= Len(A) + 1 /\ P + Len(w) <= Len(A) + 1 + Len(v)
    <3> HIDE DEF P
    <3> QED
      BY <2>1
  <2> HIDE DEF t
  <2> QED
    BY <1>1, <1>2, <1>3, <2>2
<1>4. \A p \in 1..Len(a) : OccursAt(w, a \o (v \o b), p) => p + Len(w) - 1 <= Len(a)
  <2> SUFFICES ASSUME NEW p \in 1..Len(a), OccursAt(w, a \o (v \o b), p), ~(p + Len(w) - 1 <= Len(a)) PROVE FALSE
    OBVIOUS
  <2>1. p \in 1..(Len(a) + Len(v)) /\ p + Len(w) - 1 > Len(a)
    BY <1>1, <1>2
  <2> QED
    BY <1>2, <1>3, <2>1
<1>5. \A p \in 1..Len(v) : OccursAt(w, v \o b, p) => p + Len(w) - 1 <= Len(v)
  <2> SUFFICES ASSUME NEW p \in 1..Len(v), OccursAt(w, v \o b, p) PROVE p + Len(w) - 1 <= Len(v)
    OBVIOUS
  <2> DEFINE u == v \o b
  <2>1. p \in 1..Len(u)
    BY <1>1, ConcatText
  <2>2. OccursAt(w, u, p)
    OBVIOUS
  <2> HIDE DEF u
  <2>3. OccursAt(w, a \o u, Len(a) + p)
    BY <1>2, <2>1, <2>2, OccursBehind DEF u
  <2>4. Len(a) + p \in 1..(Len(a) + Len(v)) /\ (Len(a) + p) + Len(w) - 1 > Len(a)
    BY <1>1, <1>2
  <2>5. (Len(a) + p) + Len(w) - 1 <= Len(a) + Len(v)
    BY <1>3, <2>3, <2>4 DEF u
  <2> QED
    BY <1>1, <1>2, <2>5
<1>6. Replaced(a \o (v \o b), w) = Replaced(a, w) \o Replaced(v \o b, w)
  <2> DEFINE u == v \o b
  <2>1. u \in Text /\ \A p \in 1..Len(a) : OccursAt(w, a \o u, p) => p + Len(w) - 1 <= Len(a)
    BY <1>2, <1>4
  <2> HIDE DEF u
  <2>2. Replaced(a \o u, w) = Replaced(a, w) \o Replaced(u, w)
    BY <2>1, ReplacedConcat
  <2> QED
    BY <2>2 DEF u
<1>7. Replaced(v \o b, w) = Replaced(v, w) \o Replaced(b, w)
  BY <1>1, <1>5, ReplacedConcat
<1> QED
  BY <1>6, <1>7

(* And while the placeholder stands in its place.                          *)
LEMMA ReplacedAroundMask ==
    ASSUME NEW a \in Text, NEW b \in Text, NEW w \in Secrets, \A m \in 1..Len(w) : w[m] # Mask
    PROVE  Replaced(a \o (<<Mask>> \o b), w) = Replaced(a, w) \o (<<Mask>> \o Replaced(b, w))
<1> DEFINE s == <<Mask>>
           u == s \o b
           x == a \o u
<1>1. s \in Text /\ Len(s) = 1 /\ s[1] = Mask /\ Len(w) \in Nat /\ Len(w) > 0
  BY SecretLength DEF Text
<1>2. Replaced(s, w) = s
  <2>1. \A k \in 1..Len(s) : ~OccursAt(w, s, k)
    BY NotInMask
  <2> HIDE DEF s
  <2> QED
    BY <1>1, <2>1, ReplacedUnchanged
<1> HIDE DEF s
<1>3. AreThree(x, a, s, b) /\ u \in Text
  BY <1>1, ThreeTexts, ConcatText
<1>4. Len(u) = Len(s) + Len(b) /\ \A i \in 1..Len(s) : u[i] = s[i]
  BY <1>1, ConcatText
<1> HIDE DEF u
<1> USE DEF AreThree
<1>5. \A p \in 1..Len(a) : OccursAt(w, x, p) => p + Len(w) - 1 <= Len(a)
  <2> SUFFICES ASSUME NEW p \in 1..Len(a), OccursAt(w, x, p), ~(p + Len(w) - 1 <= Len(a)) PROVE FALSE
    OBVIOUS
  <2> DEFINE m == Len(a) + 1 - p + 1
  <2>1. p \in 1..Len(x) /\ m \in 1..Len(w) /\ p + m - 1 = Len(a) + 1
    BY <1>1, <1>3
  <2> HIDE DEF x, m
  <2>2. x[p + m - 1] = w[m]
    BY <1>3, <2>1, OccursSymbols
  <2>3. x[Len(a) + 1] = Mask
    BY <1>1, <1>3
  <2> QED
    BY <2>1, <2>2, <2>3
<1>6. \A p \in 1..Len(s) : OccursAt(w, u, p) => p + Len(w) - 1 <= Len(s)
  <2> SUFFICES ASSUME NEW p \in 1..Len(s), OccursAt(w, u, p) PROVE FALSE
    OBVIOUS
  <2>1. p = 1 /\ p \in 1..Len(u) /\ 1 \in 1..Len(w) /\ p + 1 - 1 = 1
    BY <1>1, <1>3, <1>4
  <2>2. u[p + 1 - 1] = w[1]
    BY <1>3, <2>1, OccursSymbols
  <2>3. u[1] = Mask
    BY <1>1, <1>4
  <2> QED
    BY <2>1, <2>2, <2>3
<1>7. Replaced(a \o u, w) = Replaced(a, w) \o Replaced(u, w)
  BY <1>3, <1>5, ReplacedConcat
<1>8. Replaced(s \o b, w) = Replaced(s, w) \o Replaced(b, w)
  BY <1>1, <1>6, ReplacedConcat DEF u
<1> QED
  BY <1>2, <1>7, <1>8 DEF s, u

-----------------------------------------------------------------------------
(* The registered values. *)

(* Longest first, each once.                                               *)
SecretsOrdered ==
    /\ secretValues \in Seq(Secrets)
    /\ \A i, j \in 1..Len(secretValues) :
        i < j => Len(secretValues[i]) >= Len(secretValues[j]) /\ secretValues[i] # secretValues[j]

(* A text made of a scrubbed front, what stands in the middle, and a       *)
(* scrubbed end.                                                           *)
Around(t, a, m, b, A, B) == t = a \o (m \o b) /\ SameEnd(A, a) /\ SameFront(B, b)

(* In that order no value is reached before one it lies within: one that   *)
(* stands apart in a text is left to its own turn, and what stands on both *)
(* sides of it is scrubbed as if it stood alone.                           *)
LEMMA WholeInText ==
    ASSUME SecretsOrdered, NoValueHolds(Mask), NEW i \in 1..Len(secretValues), NEW v, v = secretValues[i],
           NEW A \in Text, NEW B \in Text, Apart(v, A \o (v \o B), Len(A) + 1)
    PROVE  ScrubText(A \o (v \o B)) = ScrubText(A) \o (<<Mask>> \o ScrubText(B))
<1> DEFINE n == Len(secretValues)
           t == A \o (v \o B)
           s == <<Mask>>
<1>1. /\ secretValues \in Seq(Secrets) /\ n \in Nat /\ i \in 1..n
      /\ \A k \in 1..n : secretValues[k] \in Secrets /\ \A m \in 1..Len(secretValues[k]) : secretValues[k][m] # Mask
  BY NoValueHoldsSymbol DEF SecretsOrdered
<1>2. v \in Secrets /\ v \in Text /\ Len(A) \in Nat /\ Len(B) \in Nat
  BY <1>1, SecretLength DEF Text
<1>3. t \in Text /\ s \in Text /\ Len(s) = 1 /\ s[1] = Mask
  <2>1. t \in Text
    BY <1>2, ThreeTexts DEF AreThree
  <2>2. s \in Text /\ Len(s) = 1 /\ s[1] = Mask
    BY DEF Text
  <2> QED
    BY <2>1, <2>2
<1>4. ASSUME NEW k \in 1..n, NEW p \in 1..Len(t), OccursAt(secretValues[k], t, p)
      PROVE  \/ p + Len(secretValues[k]) <= Len(A) + 1
             \/ p >= Len(A) + 1 + Len(v)
             \/ p >= Len(A) + 1 /\ p + Len(secretValues[k]) <= Len(A) + 1 + Len(v)
  <2>1. k \in DOMAIN secretValues /\ p \in DOMAIN t
    BY <1>1, <1>3 DEF Text
  <2>2. Apart(v, t, Len(A) + 1)
    OBVIOUS
  <2> HIDE DEF t
  <2> QED
    BY <1>4, <2>1, <2>2 DEF Apart
<1>5. PICK gA : Scrubs(gA, A)
  BY <1>1, ScrubLoop
<1>6. PICK gB : Scrubs(gB, B)
  BY <1>1, ScrubLoop
<1>7. PICK g : Scrubs(g, t)
  <2> HIDE DEF t
  <2> QED
    BY <1>1, <1>3, ScrubLoop
<1> DEFINE So(k) == /\ k < i => Around(g[k], gA[k], v, gB[k], A, B)
                    /\ k >= i => Around(g[k], gA[k], s, gB[k], A, B)
           S == {k \in 0..n : So(k)}
<1>8. 0 \in S
  <2>1. gA[0] = A /\ gB[0] = B /\ g[0] = t /\ 0 < i /\ ~(0 >= i)
    BY <1>1, <1>5, <1>6, <1>7 DEF Scrubs
  <2>2. SameEnd(A, A) /\ SameFront(B, B)
    BY <1>2 DEF SameEnd, SameFront
  <2>3. Around(t, A, v, B, A, B)
    BY <2>2 DEF Around
  <2>4. So(0)
    <3> HIDE DEF t, s
    <3> QED
      BY <2>1, <2>3
  <2> HIDE DEF So
  <2> QED
    BY <1>1, <2>4
<1>9. ASSUME NEW k \in 0..(n - 1), k \in S PROVE k + 1 \in S
  <2> DEFINE w == secretValues[k + 1]
             a == gA[k]
             b == gB[k]
  <2>1. k + 1 \in 1..n /\ (k + 1) - 1 = k /\ k \in 0..n /\ k + 1 \in 0..n
    BY <1>1
  <2>2. w \in Secrets /\ \A m \in 1..Len(w) : w[m] # Mask
    BY <1>1, <2>1
  <2>3. /\ gA[k + 1] = Replaced(a, w) /\ gB[k + 1] = Replaced(b, w) /\ g[k + 1] = Replaced(g[k], w)
        /\ a \in Text /\ b \in Text
    BY <1>5, <1>6, <1>7, <2>1 DEF Scrubs
  <2>4. /\ k < i => Around(g[k], a, v, b, A, B)
        /\ k >= i => Around(g[k], a, s, b, A, B)
    BY <1>9
  <2>5. KeepsApart(w, A, v, B)
    BY <1>4, <2>1 DEF KeepsApart
  <2> HIDE DEF w, a, b, s
  <2>6. So(k + 1)
    <3>1. CASE k < i
      <4>1. g[k] = a \o (v \o b) /\ SameEnd(A, a) /\ SameFront(B, b)
        BY <2>4, <3>1 DEF Around
      <4>2. Replaced(a \o (v \o b), w) = Replaced(a, w) \o (Replaced(v, w) \o Replaced(b, w))
        <5>1. a \in Text /\ b \in Text /\ SameEnd(A, a) /\ SameFront(B, b)
          BY <2>3, <4>1
        <5>2. v \in Secrets /\ w \in Secrets
          BY <1>2, <2>2
        <5>3. ReplacedApart(w, a, v, b)
          BY <2>2, <2>5, <5>1, <5>2, ReplacedAround, Zenon
        <5> QED
          BY <5>3 DEF ReplacedApart
      <4>3. SameEnd(A, Replaced(a, w)) /\ SameFront(B, Replaced(b, w))
        BY <2>2, <2>3, <4>1, SameEndStep, SameFrontStep
      <4>4. Around(g[k + 1], gA[k + 1], Replaced(v, w), gB[k + 1], A, B)
        BY <2>3, <4>1, <4>2, <4>3 DEF Around
      <4>5. CASE k + 1 < i
        <5>1. Len(w) >= Len(v) /\ v # w
          BY <1>1, <2>1, <4>5 DEF SecretsOrdered, w
        <5>2. Replaced(v, w) = v
          BY <1>2, <2>2, <5>1, NotInShorter, ReplacedUnchanged
        <5> QED
          BY <1>1, <2>1, <4>4, <4>5, <5>2
      <4>6. CASE k + 1 = i
        <5>1. w = v
          BY <4>6 DEF w
        <5>2. Replaced(v, w) = s
          BY <1>2, <5>1, ReplacedSelf DEF s
        <5> QED
          BY <1>1, <2>1, <4>4, <4>6, <5>2
      <4> QED
        BY <1>1, <2>1, <3>1, <4>5, <4>6
    <3>2. CASE k >= i
      <4>1. g[k] = a \o (s \o b) /\ SameEnd(A, a) /\ SameFront(B, b)
        BY <2>4, <3>2 DEF Around
      <4>2. Replaced(a \o (s \o b), w) = Replaced(a, w) \o (s \o Replaced(b, w))
        BY <2>2, <2>3, ReplacedAroundMask DEF s
      <4>3. SameEnd(A, Replaced(a, w)) /\ SameFront(B, Replaced(b, w))
        BY <2>2, <2>3, <4>1, SameEndStep, SameFrontStep
      <4>4. Around(g[k + 1], gA[k + 1], s, gB[k + 1], A, B)
        BY <2>3, <4>1, <4>2, <4>3 DEF Around
      <4> QED
        BY <1>1, <2>1, <3>2, <4>4
    <3> QED
      BY <1>1, <2>1, <3>1, <3>2
  <2> HIDE DEF So
  <2> QED
    BY <2>1, <2>6
<1>10. \A k \in 0..n : k \in S
  <2> HIDE DEF S, n
  <2> QED
    BY <1>1, <1>8, <1>9, Induction
<1> DEFINE a == gA[n]
           b == gB[n]
           c == g[n]
<1>11. c = a \o (s \o b)
  <2>1. n \in S
    BY <1>1, <1>10
  <2>2. n >= i
    BY <1>1
  <2>3. Around(c, a, s, b, A, B)
    <3> HIDE DEF s, n
    <3> QED
      BY <2>1, <2>2
  <2> QED
    BY <2>3 DEF Around
<1>12. /\ a \in Text /\ ScrubText(A) \in Text /\ Len(ScrubText(A)) = Len(a)
       /\ \A e \in 1..Len(a) :
            /\ a[e] = "j" => ScrubText(A)[e] = Mask
            /\ a[e] # "j" => ScrubText(A)[e] = a[e]
  BY <1>1, <1>5, ScrubbedSymbols
<1>13. /\ b \in Text /\ ScrubText(B) \in Text /\ Len(ScrubText(B)) = Len(b)
       /\ \A e \in 1..Len(b) :
            /\ b[e] = "j" => ScrubText(B)[e] = Mask
            /\ b[e] # "j" => ScrubText(B)[e] = b[e]
  BY <1>1, <1>6, ScrubbedSymbols
<1>14. /\ c \in Text /\ ScrubText(t) \in Text /\ Len(ScrubText(t)) = Len(c)
       /\ \A e \in 1..Len(c) :
            /\ c[e] = "j" => ScrubText(t)[e] = Mask
            /\ c[e] # "j" => ScrubText(t)[e] = c[e]
  <2> HIDE DEF t
  <2> QED
    BY <1>1, <1>3, <1>7, ScrubbedSymbols
<1> HIDE DEF a, b, c, t, s, n
<1> DEFINE x == ScrubText(A)
           y == ScrubText(B)
           z == ScrubText(t)
           r == x \o (s \o y)
<1>15. AreThree(c, a, s, b) /\ AreThree(r, x, s, y)
  <2> HIDE DEF x, y
  <2>1. AreThree(a \o (s \o b), a, s, b)
    BY <1>3, <1>12, <1>13, ThreeTexts
  <2>2. x \in Text /\ y \in Text
    BY <1>12, <1>13 DEF x, y
  <2>3. AreThree(r, x, s, y)
    BY <1>3, <2>2, ThreeTexts
  <2> QED
    BY <1>11, <2>1, <2>3
<1> HIDE DEF r
<1>16. z \in Text /\ r \in Text /\ Len(z) = Len(c) /\ Len(r) = Len(c)
  BY <1>12, <1>13, <1>14, <1>15 DEF AreThree
<1>17. ASSUME NEW e \in 1..Len(c) PROVE z[e] = r[e]
  <2>1. Len(c) = Len(a) + (1 + Len(b)) /\ Len(a) \in Nat /\ Len(b) \in Nat
    BY <1>3, <1>15 DEF AreThree
  <2>2. CASE e <= Len(a)
    <3>1. e \in 1..Len(a) /\ e \in 1..Len(x)
      BY <1>12, <2>1, <2>2
    <3>2. c[e] = a[e] /\ r[e] = x[e]
      BY <1>15, <3>1 DEF AreThree
    <3> QED
      BY <1>12, <1>14, <3>1, <3>2
  <2>3. CASE e = Len(a) + 1
    <3>1. 1 \in 1..Len(s) /\ Len(x) = Len(a)
      BY <1>3, <1>12
    <3>2. c[Len(a) + 1] = s[1] /\ r[Len(x) + 1] = s[1]
      BY <1>15, <3>1 DEF AreThree
    <3>3. c[e] = Mask /\ r[e] = Mask
      BY <1>3, <2>3, <3>1, <3>2
    <3> QED
      BY <1>14, <3>3
  <2>4. CASE e > Len(a) + 1
    <3> DEFINE d == (e - Len(a)) - 1
    <3>1. d \in 1..Len(b) /\ d \in 1..Len(y) /\ e = Len(a) + (1 + d) /\ Len(x) = Len(a)
      BY <1>12, <1>13, <2>1, <2>4
    <3> HIDE DEF d
    <3>2. c[Len(a) + (Len(s) + d)] = b[d] /\ r[Len(x) + (Len(s) + d)] = y[d]
      BY <1>15, <3>1 DEF AreThree
    <3>3. c[e] = b[d] /\ r[e] = y[d]
      BY <1>3, <3>1, <3>2
    <3> QED
      BY <1>13, <1>14, <3>1, <3>3
  <2> QED
    BY <2>1, <2>2, <2>3, <2>4
<1>18. z = r
  <2> HIDE DEF z
  <2> QED
    BY <1>16, <1>17, SeqEqual DEF Text
<1> QED
  BY <1>18 DEF r, s, t

(* A text around an occurrence.                                            *)
LEMMA SplitAt ==
    ASSUME NEW t \in Text, NEW v \in Secrets, NEW k \in 1..Len(t), OccursAt(v, t, k)
    PROVE  LET A == SubSeq(t, 1, k - 1)
               B == SubSeq(t, k + Len(v), Len(t))
           IN A \in Text /\ B \in Text /\ Len(A) = k - 1 /\ t = A \o (v \o B)
<1> DEFINE n == Len(t)
           e == k + Len(v) - 1
           A == SubSeq(t, 1, k - 1)
           B == SubSeq(t, e + 1, n)
<1>1. n \in Nat /\ Len(v) \in Nat /\ Len(v) > 0 /\ e + 1 = k + Len(v) /\ e \in k..n /\ v = SubSeq(t, k, e)
  BY SecretLength DEF OccursAt, Text
<1>2. \A j \in 1..n : t[j] \in Letters \cup {Mask}
  BY DEF Text
<1> HIDE DEF e, n
<1>3. A \in Text /\ Len(A) = k - 1
  <2>1. 1 \in Int /\ k - 1 \in Int /\ \A j \in 1..(k - 1) : t[j] \in Letters \cup {Mask}
    BY <1>1, <1>2 DEF n
  <2>2. A \in Text /\ Len(A) = IF 1 <= k - 1 THEN (k - 1) - 1 + 1 ELSE 0
    BY <2>1, SubSeqProperties DEF Text
  <2> HIDE DEF A
  <2> QED
    BY <2>2
<1>4. B \in Text
  <2>1. e + 1 \in Int /\ n \in Int /\ \A j \in (e + 1)..n : t[j] \in Letters \cup {Mask}
    BY <1>1, <1>2
  <2> QED
    BY <2>1, SubSeqProperties DEF Text
<1>5. v \o B = SubSeq(t, k, n)
  <2>1. k \in 1..(Len(t) + 1) /\ e \in (k - 1)..Len(t) /\ n \in e..Len(t)
    BY <1>1 DEF n
  <2>2. SubSeq(t, k, e) \o SubSeq(t, e + 1, n) = SubSeq(t, k, n)
    BY <2>1, ConcatAdjacentSubSeq DEF Text
  <2> QED
    BY <1>1, <2>2
<1>6. A \o SubSeq(t, k, n) = t
  <2> DEFINE j == k - 1
  <2>1. 1 \in 1..(Len(t) + 1) /\ j \in (1 - 1)..Len(t) /\ n \in j..Len(t) /\ j + 1 = k
    BY <1>1 DEF n
  <2> HIDE DEF j
  <2>2. SubSeq(t, 1, j) \o SubSeq(t, j + 1, n) = SubSeq(t, 1, n)
    BY <2>1, ConcatAdjacentSubSeq DEF Text
  <2>3. SubSeq(t, 1, n) = t
    BY SubSeqFull DEF Text, n
  <2> QED
    BY <2>1, <2>2, <2>3 DEF j
<1> QED
  BY <1>1, <1>3, <1>4, <1>5, <1>6 DEF n

(* So what stands apart in a text is replaced by one placeholder.          *)
LEMMA ScrubbedWhole ==
    ASSUME SecretsOrdered, NoValueHolds(Mask), NEW i \in 1..Len(secretValues), NEW v, v = secretValues[i],
           NEW t \in Text, NEW k \in 1..Len(t), Apart(v, t, k)
    PROVE  ScrubText(t) = ScrubText(SubSeq(t, 1, k - 1)) \o <<Mask>> \o ScrubText(SubSeq(t, k + Len(v), Len(t)))
<1> DEFINE A == SubSeq(t, 1, k - 1)
           B == SubSeq(t, k + Len(v), Len(t))
<1>1. secretValues \in Seq(Secrets) /\ v \in Secrets
  BY DEF SecretsOrdered
<1>2. OccursAt(v, t, k)
  BY DEF Apart
<1>3. A \in Text /\ B \in Text /\ Len(A) = k - 1 /\ t = A \o (v \o B)
  BY <1>1, <1>2, SplitAt
<1> HIDE DEF A, B
<1>4. Apart(v, A \o (v \o B), Len(A) + 1)
  <2>1. Len(A) + 1 = k
    BY <1>3
  <2> QED
    BY <1>3, <2>1
<1>5. ScrubText(A \o (v \o B)) = ScrubText(A) \o (<<Mask>> \o ScrubText(B))
  BY <1>3, <1>4, WholeInText
<1>6. ScrubText(A) \in Text /\ ScrubText(B) \in Text /\ <<Mask>> \in Text
  BY <1>1, <1>3, ScrubType, ScrubMask
<1>7. ScrubText(A) \o (<<Mask>> \o ScrubText(B)) = (ScrubText(A) \o <<Mask>>) \o ScrubText(B)
  BY <1>6, ConcatThree, Zenon
<1> QED
  BY <1>3, <1>5, <1>7 DEF A, B

(* What the sources may hold is registered as it is.                       *)
LEMMA SourceValues ==
    ASSUME source \in Sources
    PROVE  /\ source.secrets \subseteq Text /\ IsFiniteSet(source.secrets)
           /\ \A variables \in {source.env, source.cli} :
                SensitiveValues(variables) \subseteq Text /\ IsFiniteSet(SensitiveValues(variables))
<1> SUFFICES ASSUME NEW variables \in {source.env, source.cli}
             PROVE  SensitiveValues(variables) \subseteq Text /\ IsFiniteSet(SensitiveValues(variables))
  BY SourcesAssumption DEF Text, Symbols
<1>1. variables \subseteq Classes \X Text /\ IsFiniteSet(variables)
  BY SourcesAssumption DEF Text, Symbols
<1> DEFINE Q == {q \in variables : IsKeySensitive(q[1])}
           second == [q \in Q |-> q[2]]
<1>2. IsFiniteSet(Q)
  BY <1>1, FS_Subset
<1>3. second \in Surjection(Q, SensitiveValues(variables))
  BY DEF Surjection, SensitiveValues
<1>4. IsFiniteSet(SensitiveValues(variables))
  <2> HIDE DEF Q, second
  <2> QED
    BY <1>2, <1>3, FS_Surjection
<1>5. SensitiveValues(variables) \subseteq Text
  BY <1>1 DEF SensitiveValues
<1> QED
  BY <1>4, <1>5

(* Registering keeps the order.                                            *)
LEMMA RegisterOrders ==
    ASSUME SecretsOrdered, NEW values \in SUBSET Text, IsFiniteSet(values), AddSecretValues(values)
    PROVE  SecretsOrdered'
<1> DEFINE T == ToSet(secretValues) \cup {v \in values : IsSecretValue(v)}
<1>1. PICK order \in SetToSeqs(T) :
          /\ \A i, j \in DOMAIN order : i < j => Len(order[i]) >= Len(order[j])
          /\ secretValues' = order
  BY DEF AddSecretValues
<1>2. secretValues \in Seq(Secrets) /\ DOMAIN secretValues = 1..Len(secretValues) /\ Len(secretValues) \in Nat
  BY DEF SecretsOrdered
<1>3. IsFiniteSet(ToSet(secretValues))
  <2>1. secretValues \in Surjection(1..Len(secretValues), ToSet(secretValues))
    BY <1>2 DEF Surjection, ToSet
  <2>2. IsFiniteSet(1..Len(secretValues))
    BY <1>2, FS_Interval
  <2> QED
    BY <2>1, <2>2, FS_Surjection
<1>4. IsFiniteSet(T)
  <2>1. IsFiniteSet({v \in values : IsSecretValue(v)})
    BY FS_Subset
  <2> QED
    BY <1>3, <2>1, FS_Union
<1>5. T \subseteq Secrets
  <2>1. ToSet(secretValues) \subseteq Secrets
    BY <1>2 DEF ToSet
  <2>2. ASSUME NEW v \in values, IsSecretValue(v) PROVE v \in Secrets
    <3>1. v \in Text /\ DOMAIN v = 1..Len(v)
      BY DEF Text
    <3>2. \E i \in 1..Len(v) : v[i] # Mask
      BY <2>2, <3>1 DEF IsSecretValue
    <3> QED
      BY <3>1, <3>2 DEF Secrets
  <2> QED
    BY <2>1, <2>2
<1>6. Cardinality(T) \in Nat
  <2> HIDE DEF T
  <2> QED
    BY <1>4, FS_CardinalityType
<1>7. order \in [1..Cardinality(T) -> T] /\ \A i, j \in 1..Cardinality(T) : i # j => order[i] # order[j]
  BY DEF SetToSeqs
<1> HIDE DEF T
<1>8. order \in Seq(Secrets) /\ Len(order) = Cardinality(T) /\ DOMAIN order = 1..Len(order)
  BY <1>5, <1>6, <1>7
<1> QED
  BY <1>1, <1>6, <1>7, <1>8 DEF SecretsOrdered

RedactionInv ==
    /\ cfg \in Configs
    /\ source \in Sources
    /\ SecretsOrdered

LEMMA RedactionInductive == RedactionInv /\ [Next]_vars => RedactionInv'
<1> SUFFICES ASSUME RedactionInv, [Next]_vars PROVE RedactionInv'
  OBVIOUS
<1>1. cfg' = cfg /\ source' = source
  BY DEF Next, AddSecretsFromEnv, AddSecretsFromVars, Redact, CheckForSecrets, Done, vars
<1>2. CASE AddSecretsFromEnv
  <2> DEFINE values == source.secrets \cup SensitiveValues(source.env)
  <2>1. values \subseteq Text /\ IsFiniteSet(values)
    BY SourceValues, FS_Union DEF RedactionInv
  <2>2. AddSecretValues(values)
    BY <1>2 DEF AddSecretsFromEnv
  <2> HIDE DEF values
  <2> QED
    BY <1>1, <2>1, <2>2, RegisterOrders DEF RedactionInv
<1>3. CASE AddSecretsFromVars
  <2> DEFINE values == SensitiveValues(source.cli)
  <2>1. values \subseteq Text /\ IsFiniteSet(values)
    BY SourceValues DEF RedactionInv
  <2>2. AddSecretValues(values)
    BY <1>3 DEF AddSecretsFromVars
  <2> HIDE DEF values
  <2> QED
    BY <1>1, <2>1, <2>2, RegisterOrders DEF RedactionInv
<1>4. CASE UNCHANGED secretValues
  BY <1>1, <1>4 DEF RedactionInv, SecretsOrdered
<1>5. Redact \/ CheckForSecrets \/ Done \/ UNCHANGED vars => UNCHANGED secretValues
  BY DEF Redact, CheckForSecrets, Done, vars
<1> QED
  BY <1>2, <1>3, <1>4, <1>5 DEF Next

LEMMA RedactionInvariant == Spec => []RedactionInv
<1>1. Init => RedactionInv
  BY EmptySeq DEF Init, RedactionInv, SecretsOrdered
<1> QED
  BY <1>1, RedactionInductive, PTL DEF Spec

(* A field without pairs is scrubbed as a text.                            *)
LEMMA TextFieldScrubbed ==
    ASSUME NEW f \in Fields, f.at # "name", f.shape \in {"text", "unparsable"}
    PROVE  RedactField(f).leaves = {Scrubbed(l) : l \in f.leaves}
<1> DEFINE L == {Scrubbed(l) : l \in f.leaves}
<1>1. /\ f \in [at: Surfaces, shape: UNION {Shapes[s] : s \in Surfaces}, leaves: SUBSET Leaves]
      /\ f.shape \in Shapes[f.at]
  BY FieldsAssumption
<1>2. f.at \in Surfaces \ {"requestHeader", "responseHeader", "extracted", "name"}
  BY <1>1 DEF Surfaces, Shapes
<1>3. RedactField(f) = [f EXCEPT !.leaves = L]
  <2>1. ~MasksQuery(f)
    BY DEF MasksQuery
  <2>2. MaskBodyBytes(f) = [f EXCEPT !.leaves = L]
    BY DEF MaskBodyBytes
  <2>3. CASE f.at \in {"url", "error"}
    BY <2>1, <2>3 DEF RedactField
  <2>4. CASE f.at \in {"requestBody", "responseBody"}
    BY <2>2, <2>4 DEF RedactField
  <2>5. CASE f.at = "message"
    BY <2>5 DEF RedactField
  <2> QED
    BY <1>2, <2>3, <2>4, <2>5 DEF Surfaces, Shapes
<1> HIDE DEF L
<1>4. RedactField(f).leaves = L
  BY <1>1, <1>3
<1> QED
  BY <1>4 DEF L

(* Where a registered value stands apart in a text, one placeholder stands *)
(* after the scrub, and what precedes and follows is scrubbed as if it     *)
(* stood alone, whichever other values lie within it, and in whatever order*)
(* they were registered (redactor.go:62-65).                               *)
THEOREM ReplacedWholeCorrect == Spec => []ReplacedWhole
<1>1. Init => ReplacedWhole
  BY DEF Init, ReplacedWhole
<1>2. RedactionInv /\ ReplacedWhole /\ [Next]_vars => ReplacedWhole'
  <2> SUFFICES ASSUME RedactionInv, ReplacedWhole, [Next]_vars PROVE ReplacedWhole'
    OBVIOUS
  <2>1. CASE Redact
    <3>1. result' \in Fields /\ cfg' = cfg /\ secretValues' = secretValues
      BY <2>1 DEF Redact
    <3>2. redacted' = IF cfg.enabled THEN RedactField(result') ELSE result'
      BY <2>1 DEF Redact
    <3> SUFFICES ASSUME cfg.enabled, NoValueHolds(Mask)', result'.at # "name",
                        result'.shape \in {"text", "unparsable"},
                        NEW l \in result'.leaves, NEW i \in DOMAIN secretValues, NEW k \in DOMAIN l.text,
                        Apart(secretValues[i], l.text, k)'
                 PROVE  \E m \in redacted'.leaves :
                            m.text = (ScrubText(SubSeq(l.text, 1, k - 1)) \o <<Mask>>
                                      \o ScrubText(SubSeq(l.text, k + Len(secretValues[i]), Len(l.text))))'
      BY <3>1 DEF ReplacedWhole
    <3>3. NoValueHolds(Mask) /\ Apart(secretValues[i], l.text, k)
      BY <3>1 DEF NoValueHolds, Apart
    <3>4. l.text \in Text /\ DOMAIN l.text = 1..Len(l.text) /\ DOMAIN secretValues = 1..Len(secretValues)
      BY <3>1, FieldsAssumption DEF Leaves, Text, Symbols, RedactionInv, SecretsOrdered
    <3>5. ScrubText(l.text) = ScrubText(SubSeq(l.text, 1, k - 1)) \o <<Mask>>
                              \o ScrubText(SubSeq(l.text, k + Len(secretValues[i]), Len(l.text)))
      BY <3>3, <3>4, ScrubbedWhole DEF RedactionInv
    <3>6. Scrubbed(l) \in redacted'.leaves
      BY <3>1, <3>2, TextFieldScrubbed
    <3>7. Scrubbed(l).text = ScrubText(l.text)
      BY DEF Scrubbed, Rewritten
    <3>8. \A t : ScrubText(t)' = ScrubText(t)
      BY <3>1 DEF ScrubText
    <3> QED
      BY <3>1, <3>5, <3>6, <3>7, <3>8
  <2>2. CASE UNCHANGED vars
    <3>1. UNCHANGED <<cfg, secretValues, result, redacted, step>>
      BY <2>2 DEF vars
    <3>2. NoValueHolds(Mask)' <=> NoValueHolds(Mask)
      BY <3>1 DEF NoValueHolds
    <3>3. \A v, t, k : Apart(v, t, k)' <=> Apart(v, t, k)
      BY <3>1 DEF Apart
    <3>4. \A t : ScrubText(t)' = ScrubText(t)
      BY <3>1 DEF ScrubText
    <3> SUFFICES ASSUME step = "check", cfg.enabled, NoValueHolds(Mask), result.at # "name",
                        result.shape \in {"text", "unparsable"},
                        NEW l \in result.leaves, NEW i \in DOMAIN secretValues, NEW k \in DOMAIN l.text,
                        Apart(secretValues[i], l.text, k)
                 PROVE  \E m \in redacted.leaves :
                            m.text = (ScrubText(SubSeq(l.text, 1, k - 1)) \o <<Mask>>
                                      \o ScrubText(SubSeq(l.text, k + Len(secretValues[i]), Len(l.text))))'
      BY <3>1, <3>2, <3>3 DEF ReplacedWhole
    <3>5. \E m \in redacted.leaves :
              m.text = ScrubText(SubSeq(l.text, 1, k - 1)) \o <<Mask>>
                       \o ScrubText(SubSeq(l.text, k + Len(secretValues[i]), Len(l.text)))
      BY DEF ReplacedWhole
    <3> QED
      BY <3>1, <3>4, <3>5
  <2>3. AddSecretsFromEnv \/ AddSecretsFromVars \/ CheckForSecrets => step' # "check"
    BY DEF AddSecretsFromEnv, AddSecretsFromVars, CheckForSecrets
  <2> QED
    BY <2>1, <2>2, <2>3 DEF Next, Done, ReplacedWhole
<1> QED
  BY <1>1, <1>2, RedactionInvariant, PTL DEF Spec

-----------------------------------------------------------------------------
(* Escapes. *)

LEMMA EscapedTexts ==
    ASSUME NEW t \in Text
    PROVE  /\ Encoded(t) \in Text /\ Len(Encoded(t)) = Len(t)
           /\ \A i \in 1..Len(t) : Encoded(t)[i] = IF t[i] = "q" THEN "%q" ELSE t[i]
           /\ Decoded(t) \in Text /\ Len(Decoded(t)) = Len(t)
           /\ \A i \in 1..Len(t) : Decoded(t)[i] = IF t[i] = "%q" THEN "q" ELSE t[i]
<1>1. DOMAIN t = 1..Len(t) /\ Len(t) \in Nat /\ \A i \in 1..Len(t) : t[i] \in Letters \cup {Mask}
  BY DEF Text
<1>2. "q" \in Letters \cup {Mask} /\ "%q" \in Letters \cup {Mask}
  BY LettersAssumption
<1>3. Encoded(t) \in [1..Len(t) -> Letters \cup {Mask}] /\ Decoded(t) \in [1..Len(t) -> Letters \cup {Mask}]
  BY <1>1, <1>2 DEF Encoded, Decoded
<1>4. Encoded(t) \in Text /\ Len(Encoded(t)) = Len(t) /\ Decoded(t) \in Text /\ Len(Decoded(t)) = Len(t)
  BY <1>1, <1>3 DEF Text
<1>5. \A i \in 1..Len(t) :
          /\ Encoded(t)[i] = IF t[i] = "q" THEN "%q" ELSE t[i]
          /\ Decoded(t)[i] = IF t[i] = "%q" THEN "q" ELSE t[i]
  BY <1>1 DEF Encoded, Decoded
<1> QED
  BY <1>4, <1>5

(* Escaping a text and its unescaped form is the same, and loses nothing.  *)
LEMMA EscapedAgain ==
    ASSUME NEW t \in Text
    PROVE  Encoded(Decoded(t)) = Encoded(t) /\ Decoded(Encoded(t)) = Decoded(t)
<1> DEFINE d == Decoded(t)
           e == Encoded(t)
<1>1. /\ d \in Text /\ Len(d) = Len(t) /\ \A i \in 1..Len(t) : d[i] = IF t[i] = "%q" THEN "q" ELSE t[i]
      /\ e \in Text /\ Len(e) = Len(t) /\ \A i \in 1..Len(t) : e[i] = IF t[i] = "q" THEN "%q" ELSE t[i]
  BY EscapedTexts
<1> HIDE DEF d, e
<1>2. Encoded(d) = e
  <2> DEFINE x == Encoded(d)
  <2>1. x \in Text /\ Len(x) = Len(d) /\ \A i \in 1..Len(d) : x[i] = IF d[i] = "q" THEN "%q" ELSE d[i]
    BY <1>1, EscapedTexts
  <2> HIDE DEF x
  <2>2. \A i \in 1..Len(t) : x[i] = e[i]
    BY <1>1, <2>1
  <2>3. x = e
    BY <1>1, <2>1, <2>2, SeqEqual DEF Text
  <2> QED
    BY <2>3 DEF x
<1>3. Decoded(e) = d
  <2> DEFINE x == Decoded(e)
  <2>1. x \in Text /\ Len(x) = Len(e) /\ \A i \in 1..Len(e) : x[i] = IF e[i] = "%q" THEN "q" ELSE e[i]
    BY <1>1, EscapedTexts
  <2> HIDE DEF x
  <2>2. \A i \in 1..Len(t) : x[i] = d[i]
    BY <1>1, <2>1
  <2>3. x = d
    BY <1>1, <2>1, <2>2, SeqEqual DEF Text
  <2> QED
    BY <2>3 DEF x
<1> QED
  BY <1>2, <1>3 DEF d, e

LEMMA EscapedMask ==
    Encoded(<<Mask>>) = <<Mask>> /\ Decoded(<<Mask>>) = <<Mask>>
BY DEF Encoded, Decoded, Mask

(* Escaping brings no secret out, where none is registered escaped.        *)
LEMMA EncodedHolds ==
    ASSUME NEW t \in Text, secretValues \in Seq(Secrets), NoValueHolds("%q"), HoldsSecret(Encoded(t))
    PROVE  HoldsSecret(t)
<1> DEFINE e == Encoded(t)
<1>1. e \in Text /\ Len(e) = Len(t) /\ \A i \in 1..Len(t) : e[i] = IF t[i] = "q" THEN "%q" ELSE t[i]
  BY EscapedTexts
<1>2. HoldsSecret(e)
  OBVIOUS
<1> HIDE DEF e
<1>3. CASE \E k \in 1..Len(e) : e[k] = "j"
  <2>1. \E k \in 1..Len(t) : t[k] = "j"
    BY <1>1, <1>3
  <2> QED
    BY <2>1, HoldsSecretByLength
<1>4. ASSUME NEW i \in 1..Len(secretValues), NEW k \in 1..Len(e), OccursAt(secretValues[i], e, k)
      PROVE  HoldsSecret(t)
  <2> DEFINE w == secretValues[i]
  <2>1. w \in Secrets /\ Len(w) \in Nat /\ Len(t) \in Nat /\ \A m \in 1..Len(w) : w[m] # "%q"
    BY SecretLength, NoValueHoldsSymbol DEF Text
  <2>2. k + Len(w) - 1 <= Len(e) /\ \A m \in 1..Len(w) : e[k + m - 1] = w[m]
    BY <1>1, <1>4, <2>1, OccursSymbols
  <2> HIDE DEF w
  <2>3. ASSUME NEW m \in 1..Len(w) PROVE t[k + m - 1] = w[m]
    <3>1. k + m - 1 \in 1..Len(t)
      BY <1>1, <2>1, <2>2
    <3>2. e[k + m - 1] = w[m] /\ w[m] # "%q"
      BY <2>1, <2>2
    <3> QED
      BY <1>1, <3>1, <3>2
  <2>4. k \in 1..Len(t) /\ OccursAt(w, t, k)
    BY <1>1, <2>1, <2>2, <2>3, OccursSymbols
  <2> QED
    BY <2>4, HoldsSecretByLength DEF w
<1> QED
  BY <1>1, <1>2, <1>3, <1>4, HoldsSecretByLength

-----------------------------------------------------------------------------
(* Leaves. *)

LEMMA LeafParts ==
    ASSUME NEW l \in Leaves
    PROVE  /\ l.path \in Seq(Keys) /\ Len(l.path) \in Nat /\ DOMAIN l.path = 1..Len(l.path)
           /\ \A i \in 1..Len(l.path) :
                /\ l.path[i] = [class |-> l.path[i].class, text |-> l.path[i].text]
                /\ l.path[i].class \in Classes /\ l.path[i].text \in Text
           /\ l.text \in Text
           /\ l.kind \in {"string", "number", "rest", "malformed"}
           /\ l = [path |-> l.path, text |-> l.text, kind |-> l.kind]
           /\ TextsOf(l) = {l.text} \cup {l.path[i].text : i \in 1..Len(l.path)}
           /\ TextsOf(l) \subseteq Text
<1>1. l.path \in Seq(Keys) /\ l.text \in Text /\ l.kind \in {"string", "number", "rest", "malformed"}
      /\ l = [path |-> l.path, text |-> l.text, kind |-> l.kind]
  BY DEF Leaves, Text, Symbols
<1>2. \A i \in 1..Len(l.path) : l.path[i] \in Keys
  BY <1>1
<1>3. \A i \in 1..Len(l.path) :
          /\ l.path[i] = [class |-> l.path[i].class, text |-> l.path[i].text]
          /\ l.path[i].class \in Classes /\ l.path[i].text \in Text
  BY <1>2 DEF Keys, Text, Symbols
<1>4. DOMAIN l.path = 1..Len(l.path) /\ Len(l.path) \in Nat
  BY <1>1
<1>5. TextsOf(l) = {l.text} \cup {l.path[i].text : i \in 1..Len(l.path)}
  BY <1>4 DEF TextsOf
<1> QED
  BY <1>1, <1>3, <1>4, <1>5

(* Rewritten, by a function.                                               *)
RewrittenBy(l, f) ==
    [path |-> [i \in DOMAIN l.path |-> [class |-> l.path[i].class, text |-> f[l.path[i].text]]],
     text |-> f[l.text],
     kind |-> l.kind]

Scrubber == [t \in Text |-> ScrubText(t)]

Decoder == [t \in Text |-> Decoded(t)]

Encoder == [t \in Text |-> Encoded(t)]

LEMMA RewritersTypes ==
    ASSUME secretValues \in Seq(Secrets)
    PROVE  Scrubber \in [Text -> Text] /\ Decoder \in [Text -> Text] /\ Encoder \in [Text -> Text]
BY ScrubType, EscapedTexts DEF Scrubber, Decoder, Encoder

LEMMA RewrittenByFunction ==
    ASSUME NEW l \in Leaves
    PROVE  /\ Scrubbed(l) = RewrittenBy(l, Scrubber)
           /\ Rewritten(l, Decoded) = RewrittenBy(l, Decoder)
           /\ Rewritten(l, Encoded) = RewrittenBy(l, Encoder)
<1>1. l.text \in Text /\ \A i \in DOMAIN l.path : l.path[i].text \in Text
  BY LeafParts
<1>2. Scrubbed(l) = RewrittenBy(l, Scrubber)
  BY <1>1 DEF Scrubbed, Rewritten, RewrittenBy, Scrubber
<1>3. Rewritten(l, Decoded) = RewrittenBy(l, Decoder)
  BY <1>1 DEF Rewritten, RewrittenBy, Decoder
<1>4. Rewritten(l, Encoded) = RewrittenBy(l, Encoder)
  BY <1>1 DEF Rewritten, RewrittenBy, Encoder
<1> QED
  BY <1>2, <1>3, <1>4

LEMMA RewrittenByType ==
    ASSUME NEW l \in Leaves, NEW f \in [Text -> Text]
    PROVE  /\ RewrittenBy(l, f) \in Leaves
           /\ RewrittenBy(l, f).text = f[l.text]
           /\ RewrittenBy(l, f).kind = l.kind
           /\ Len(RewrittenBy(l, f).path) = Len(l.path)
           /\ \A i \in 1..Len(l.path) :
                /\ RewrittenBy(l, f).path[i].class = l.path[i].class
                /\ RewrittenBy(l, f).path[i].text = f[l.path[i].text]
           /\ TextsOf(RewrittenBy(l, f)) = {f[t] : t \in TextsOf(l)}
<1> DEFINE n == Len(l.path)
           p == [i \in 1..n |-> [class |-> l.path[i].class, text |-> f[l.path[i].text]]]
           m == RewrittenBy(l, f)
<1>1. /\ n \in Nat /\ DOMAIN l.path = 1..n /\ l.text \in Text
      /\ \A i \in 1..n : l.path[i].class \in Classes /\ l.path[i].text \in Text
      /\ l.kind \in {"string", "number", "rest", "malformed"}
      /\ TextsOf(l) = {l.text} \cup {l.path[i].text : i \in 1..n}
  BY LeafParts
<1>2. m = [path |-> p, text |-> f[l.text], kind |-> l.kind]
  BY <1>1 DEF RewrittenBy
<1>3. \A i \in 1..n : p[i] \in Keys /\ p[i].class = l.path[i].class /\ p[i].text = f[l.path[i].text]
  BY <1>1 DEF Keys, Text, Symbols
<1>4. p \in [1..n -> Keys] /\ DOMAIN p = 1..n
  BY <1>3
<1> HIDE DEF p, m, n
<1>5. p \in Seq(Keys) /\ Len(p) = n
  BY <1>1, <1>4
<1>6. m \in Leaves
  BY <1>1, <1>2, <1>5 DEF Leaves, Text, Symbols
<1>7. TextsOf(m) = {f[l.text]} \cup {p[i].text : i \in 1..n}
  BY <1>2, <1>4 DEF TextsOf
<1>8. TextsOf(m) = {f[t] : t \in TextsOf(l)}
  BY <1>1, <1>3, <1>7
<1> QED
  BY <1>2, <1>3, <1>5, <1>6, <1>8 DEF m, n

(* Leaves are equal if they are equal part by part.                        *)
LEMMA LeafEqual ==
    ASSUME NEW l \in Leaves, NEW m \in Leaves, l.text = m.text, l.kind = m.kind, Len(l.path) = Len(m.path),
           \A i \in 1..Len(l.path) : l.path[i].class = m.path[i].class /\ l.path[i].text = m.path[i].text
    PROVE  l = m
<1>1. \A i \in 1..Len(l.path) : l.path[i] = m.path[i]
  BY LeafParts
<1>2. l.path = m.path
  BY <1>1, LeafParts, SeqEqual
<1> QED
  BY <1>2, LeafParts

LEMMA RewrittenTwice ==
    ASSUME NEW l \in Leaves, NEW f \in [Text -> Text], NEW g \in [Text -> Text], NEW h \in [Text -> Text],
           \A t \in TextsOf(l) : g[f[t]] = h[t]
    PROVE  RewrittenBy(RewrittenBy(l, f), g) = RewrittenBy(l, h)
<1> DEFINE a == RewrittenBy(l, f)
           b == RewrittenBy(a, g)
           c == RewrittenBy(l, h)
<1>1. /\ a \in Leaves /\ a.text = f[l.text] /\ a.kind = l.kind /\ Len(a.path) = Len(l.path)
      /\ \A i \in 1..Len(l.path) : a.path[i].class = l.path[i].class /\ a.path[i].text = f[l.path[i].text]
  BY RewrittenByType
<1>2. /\ c \in Leaves /\ c.text = h[l.text] /\ c.kind = l.kind /\ Len(c.path) = Len(l.path)
      /\ \A i \in 1..Len(l.path) : c.path[i].class = l.path[i].class /\ c.path[i].text = h[l.path[i].text]
  BY RewrittenByType
<1> HIDE DEF a, c
<1>3. /\ b \in Leaves /\ b.text = g[a.text] /\ b.kind = a.kind /\ Len(b.path) = Len(a.path)
      /\ \A i \in 1..Len(a.path) : b.path[i].class = a.path[i].class /\ b.path[i].text = g[a.path[i].text]
  BY <1>1, RewrittenByType
<1> HIDE DEF b
<1>4. g[f[l.text]] = h[l.text] /\ \A i \in 1..Len(l.path) : g[f[l.path[i].text]] = h[l.path[i].text]
  <2>1. l.text \in TextsOf(l) /\ \A i \in 1..Len(l.path) : l.path[i].text \in TextsOf(l)
    BY LeafParts
  <2> QED
    BY <2>1
<1>5. ASSUME NEW i \in 1..Len(b.path) PROVE b.path[i].class = c.path[i].class /\ b.path[i].text = c.path[i].text
  <2>1. i \in 1..Len(l.path) /\ i \in 1..Len(a.path)
    BY <1>1, <1>3
  <2>2. b.path[i].class = l.path[i].class /\ b.path[i].text = g[f[l.path[i].text]]
    BY <1>1, <1>3, <2>1
  <2> QED
    BY <1>2, <1>4, <2>1, <2>2
<1>6. b.text = c.text /\ b.kind = c.kind /\ Len(b.path) = Len(c.path)
  BY <1>1, <1>2, <1>3, <1>4
<1>7. b = c
  BY <1>2, <1>3, <1>5, <1>6, LeafEqual
<1> QED
  BY <1>7 DEF a, b, c

LEMMA RewrittenNot ==
    ASSUME NEW l \in Leaves, NEW f \in [Text -> Text], \A t \in TextsOf(l) : f[t] = t
    PROVE  RewrittenBy(l, f) = l
<1> DEFINE m == RewrittenBy(l, f)
<1>1. /\ m \in Leaves /\ m.text = f[l.text] /\ m.kind = l.kind /\ Len(m.path) = Len(l.path)
      /\ \A i \in 1..Len(l.path) : m.path[i].class = l.path[i].class /\ m.path[i].text = f[l.path[i].text]
  BY RewrittenByType
<1> HIDE DEF m
<1>2. f[l.text] = l.text /\ \A i \in 1..Len(l.path) : f[l.path[i].text] = l.path[i].text
  BY LeafParts
<1>3. m = l
  BY <1>1, <1>2, LeafEqual
<1> QED
  BY <1>3 DEF m

(* Replacing the text of a leaf, or that and its kind.                     *)
LEMMA TextReplaced ==
    ASSUME NEW l \in Leaves, NEW t \in Text
    PROVE  /\ [l EXCEPT !.text = t] \in Leaves
           /\ [l EXCEPT !.text = t] = [path |-> l.path, text |-> t, kind |-> l.kind]
<1>1. l = [path |-> l.path, text |-> l.text, kind |-> l.kind]
  BY LeafParts
<1>2. [l EXCEPT !.text = t] = [path |-> l.path, text |-> t, kind |-> l.kind]
  BY <1>1
<1>3. [path |-> l.path, text |-> t, kind |-> l.kind] \in Leaves
  BY DEF Leaves, Text, Symbols
<1> QED
  BY <1>2, <1>3

LEMMA ScrubbedValueLeaf ==
    ASSUME NEW l \in Leaves, secretValues \in Seq(Secrets)
    PROVE  /\ ScrubbedValue(l) \in Leaves
           /\ ScrubbedValue(l) = [path |-> l.path, text |-> ScrubText(l.text), kind |-> l.kind]
           /\ ~HoldsSecret(l.text) => ScrubbedValue(l) = l
<1>1. l.text \in Text /\ l = [path |-> l.path, text |-> l.text, kind |-> l.kind]
  BY LeafParts
<1>2. ScrubText(l.text) \in Text /\ (~HoldsSecret(l.text) => ScrubText(l.text) = l.text)
  BY <1>1, ScrubType, ScrubUnchanged
<1>3. ScrubbedValue(l) = [l EXCEPT !.text = ScrubText(l.text)]
  BY DEF ScrubbedValue
<1> QED
  BY <1>1, <1>2, <1>3, TextReplaced

LEMMA MaskedLeaf ==
    ASSUME NEW l \in Leaves
    PROVE  Masked(l) \in Leaves /\ Masked(l) = [path |-> l.path, text |-> <<Mask>>, kind |-> "string"]
<1> DEFINE t == <<Mask>>
           m == [l EXCEPT !.text = t]
<1>1. t \in Text
  BY DEF Text
<1>2. Masked(l) = [m EXCEPT !.kind = "string"]
  BY DEF Masked
<1> HIDE DEF t
<1>3. m = [path |-> l.path, text |-> t, kind |-> l.kind]
  BY <1>1, TextReplaced
<1> HIDE DEF m
<1>4. Masked(l) = [path |-> l.path, text |-> t, kind |-> "string"]
  BY <1>2, <1>3
<1>5. [path |-> l.path, text |-> t, kind |-> "string"] \in Leaves
  BY <1>1 DEF Leaves, Text, Symbols
<1> QED
  BY <1>4, <1>5 DEF t

-----------------------------------------------------------------------------
(* Paths. *)

(* SensitiveAt is the first sensitive place of a path.                     *)
LEMMA SensitiveAtFirst ==
    ASSUME NEW path \in Seq(Keys)
    PROVE  /\ SensitiveAt(path) \in 0..Len(path)
           /\ SensitiveAt(path) = 0 => \A i \in 1..Len(path) : ~IsKeySensitive(path[i].class)
           /\ SensitiveAt(path) > 0 =>
                /\ IsKeySensitive(path[SensitiveAt(path)].class)
                /\ \A i \in 1..(SensitiveAt(path) - 1) : ~IsKeySensitive(path[i].class)
<1> DEFINE I == {i \in 1..Len(path) : IsKeySensitive(path[i].class)}
<1>1. SensitiveAt(path) = IF I # {} THEN CHOOSE x \in I : \A y \in I : x =< y ELSE 0
  BY DEF SensitiveAt, SelectInSeq, Sensitive, Min
<1>2. Len(path) \in Nat
  OBVIOUS
<1>3. CASE I = {}
  BY <1>1, <1>2, <1>3
<1>4. CASE I # {}
  <2>1. \E x \in I : \A y \in I : x <= y
    <3>1. I \in SUBSET Nat
      OBVIOUS
    <3> HIDE DEF I
    <3> QED
      BY <1>4, <3>1, LeastElement
  <2>2. SensitiveAt(path) \in I /\ \A y \in I : SensitiveAt(path) <= y
    <3> HIDE DEF I
    <3> QED
      BY <1>1, <1>4, <2>1
  <2> QED
    BY <1>2, <2>2
<1> QED
  BY <1>3, <1>4

(* It depends on what the keys match, and not on their texts.              *)
LEMMA SensitiveAtClasses ==
    ASSUME NEW p \in Seq(Keys), NEW q \in Seq(Keys), Len(p) = Len(q),
           \A i \in 1..Len(p) : p[i].class = q[i].class
    PROVE  SensitiveAt(p) = SensitiveAt(q)
<1> DEFINE n == Len(p)
           a == SensitiveAt(p)
           b == SensitiveAt(q)
<1>1. /\ n \in Nat /\ a \in 0..n
      /\ a = 0 => \A i \in 1..n : ~IsKeySensitive(p[i].class)
      /\ a > 0 => IsKeySensitive(p[a].class) /\ \A i \in 1..(a - 1) : ~IsKeySensitive(p[i].class)
  BY SensitiveAtFirst
<1>2. /\ b \in 0..n
      /\ b = 0 => \A i \in 1..n : ~IsKeySensitive(q[i].class)
      /\ b > 0 => IsKeySensitive(q[b].class) /\ \A i \in 1..(b - 1) : ~IsKeySensitive(q[i].class)
  BY SensitiveAtFirst
<1> HIDE DEF a, b, n
<1>3. \A i \in 1..n : p[i].class = q[i].class
  BY DEF n
<1>4. a = b
  BY <1>1, <1>2, <1>3
<1> QED
  BY <1>4 DEF a, b

(* A path that ends at its first sensitive place is sensitive there only.  *)
LEMMA SensitiveAtEnd ==
    ASSUME NEW path \in Seq(Keys), SensitiveAt(path) > 0
    PROVE  LET cut == SubSeq(path, 1, SensitiveAt(path)) IN
           cut \in Seq(Keys) /\ SensitiveAt(cut) = Len(cut) /\ Len(cut) > 0
<1> DEFINE n == SensitiveAt(path)
           cut == SubSeq(path, 1, n)
<1>1. /\ n \in 1..Len(path) /\ IsKeySensitive(path[n].class)
      /\ \A i \in 1..(n - 1) : ~IsKeySensitive(path[i].class)
  BY SensitiveAtFirst
<1> HIDE DEF n
<1>2. n \in Int /\ 1 \in Int /\ \A i \in 1..n : path[i] \in Keys
  BY <1>1
<1>3. /\ cut \in Seq(Keys) /\ Len(cut) = n
      /\ \A i \in 1..n : cut[i] = path[i]
  <2>1. /\ cut \in Seq(Keys) /\ Len(cut) = IF 1 <= n THEN n - 1 + 1 ELSE 0
        /\ \A i \in 1..(n - 1 + 1) : cut[i] = path[1 + i - 1]
    <3> HIDE DEF cut
    <3> QED
      BY <1>2, SubSeqProperties DEF cut
  <2> QED
    BY <1>1, <2>1
<1> HIDE DEF cut
<1>4. SensitiveAt(cut) = n
  <2>1. /\ SensitiveAt(cut) \in 0..n
        /\ SensitiveAt(cut) = 0 => \A i \in 1..n : ~IsKeySensitive(cut[i].class)
        /\ SensitiveAt(cut) > 0 => IsKeySensitive(cut[SensitiveAt(cut)].class)
    BY <1>3, SensitiveAtFirst
  <2>2. IsKeySensitive(cut[n].class) /\ \A i \in 1..(n - 1) : ~IsKeySensitive(cut[i].class)
    BY <1>1, <1>3
  <2> QED
    BY <1>1, <2>1, <2>2
<1> QED
  BY <1>1, <1>3, <1>4 DEF cut, n

LEMMA RewrittenSensitive ==
    ASSUME NEW l \in Leaves, NEW f \in [Text -> Text]
    PROVE  SensitiveAt(RewrittenBy(l, f).path) = SensitiveAt(l.path)
<1> DEFINE m == RewrittenBy(l, f)
<1>1. /\ m \in Leaves /\ Len(m.path) = Len(l.path)
      /\ \A i \in 1..Len(l.path) : m.path[i].class = l.path[i].class
  BY RewrittenByType
<1> HIDE DEF m
<1>2. m.path \in Seq(Keys) /\ l.path \in Seq(Keys)
  BY <1>1, LeafParts
<1>3. SensitiveAt(m.path) = SensitiveAt(l.path)
  BY <1>1, <1>2, SensitiveAtClasses
<1> QED
  BY <1>3 DEF m

-----------------------------------------------------------------------------
(* Texts that pass the check. *)

CleanLeaf(l) == l \in Leaves /\ \A t \in TextsOf(l) : ~HoldsSecret(t)

LEMMA ScrubbedLeaf ==
    ASSUME NEW l \in Leaves, secretValues \in Seq(Secrets)
    PROVE  /\ Scrubbed(l) \in Leaves
           /\ Scrubbed(l).kind = l.kind
           /\ Scrubbed(l).text = ScrubText(l.text)
           /\ Len(Scrubbed(l).path) = Len(l.path)
           /\ \A i \in 1..Len(l.path) : Scrubbed(l).path[i].class = l.path[i].class
           /\ SensitiveAt(Scrubbed(l).path) = SensitiveAt(l.path)
           /\ NoValueHolds(Mask) => CleanLeaf(Scrubbed(l))
           /\ (\A t \in TextsOf(l) : ~HoldsSecret(t)) => Scrubbed(l) = l
<1> DEFINE m == RewrittenBy(l, Scrubber)
<1>1. Scrubbed(l) = m /\ Scrubber \in [Text -> Text] /\ \A t \in Text : Scrubber[t] = ScrubText(t)
  BY RewrittenByFunction, RewritersTypes DEF Scrubber
<1>2. TextsOf(l) \subseteq Text /\ l.text \in Text
  BY LeafParts
<1>3. /\ m \in Leaves /\ m.kind = l.kind /\ m.text = ScrubText(l.text) /\ Len(m.path) = Len(l.path)
      /\ \A i \in 1..Len(l.path) : m.path[i].class = l.path[i].class
      /\ TextsOf(m) = {Scrubber[t] : t \in TextsOf(l)}
  BY <1>1, <1>2, RewrittenByType
<1>4. SensitiveAt(m.path) = SensitiveAt(l.path)
  BY <1>1, RewrittenSensitive
<1>5. NoValueHolds(Mask) => CleanLeaf(m)
  BY <1>1, <1>2, <1>3, ScrubClean DEF CleanLeaf
<1>6. ASSUME \A t \in TextsOf(l) : ~HoldsSecret(t) PROVE m = l
  <2>1. \A t \in TextsOf(l) : Scrubber[t] = t
    BY <1>1, <1>2, <1>6, ScrubUnchanged
  <2> QED
    BY <1>1, <2>1, RewrittenNot
<1> HIDE DEF m
<1> QED
  BY <1>1, <1>3, <1>4, <1>5, <1>6

LEMMA EscapedLeaf ==
    ASSUME NEW l \in Leaves, secretValues \in Seq(Secrets)
    PROVE  /\ Rewritten(l, Decoded) \in Leaves
           /\ Rewritten(l, Decoded).kind = l.kind
           /\ Rewritten(l, Decoded).text = Decoded(l.text)
           /\ Len(Rewritten(l, Decoded).path) = Len(l.path)
           /\ \A i \in 1..Len(l.path) : Rewritten(l, Decoded).path[i].class = l.path[i].class
           /\ SensitiveAt(Rewritten(l, Decoded).path) = SensitiveAt(l.path)
           /\ Rewritten(l, Encoded) \in Leaves
           /\ Rewritten(l, Encoded).kind = l.kind
           /\ Rewritten(l, Encoded).text = Encoded(l.text)
           /\ Len(Rewritten(l, Encoded).path) = Len(l.path)
           /\ \A i \in 1..Len(l.path) : Rewritten(l, Encoded).path[i].class = l.path[i].class
           /\ SensitiveAt(Rewritten(l, Encoded).path) = SensitiveAt(l.path)
<1> DEFINE d == RewrittenBy(l, Decoder)
           e == RewrittenBy(l, Encoder)
<1>1. /\ Rewritten(l, Decoded) = d /\ Rewritten(l, Encoded) = e
      /\ Decoder \in [Text -> Text] /\ Encoder \in [Text -> Text] /\ l.text \in Text
  BY RewrittenByFunction, RewritersTypes, LeafParts
<1>2. Decoder[l.text] = Decoded(l.text) /\ Encoder[l.text] = Encoded(l.text)
  BY <1>1 DEF Decoder, Encoder
<1>3. /\ d \in Leaves /\ d.kind = l.kind /\ d.text = Decoded(l.text) /\ Len(d.path) = Len(l.path)
      /\ \A i \in 1..Len(l.path) : d.path[i].class = l.path[i].class
      /\ SensitiveAt(d.path) = SensitiveAt(l.path)
  BY <1>1, <1>2, RewrittenByType, RewrittenSensitive
<1>4. /\ e \in Leaves /\ e.kind = l.kind /\ e.text = Encoded(l.text) /\ Len(e.path) = Len(l.path)
      /\ \A i \in 1..Len(l.path) : e.path[i].class = l.path[i].class
      /\ SensitiveAt(e.path) = SensitiveAt(l.path)
  BY <1>1, <1>2, RewrittenByType, RewrittenSensitive
<1> HIDE DEF d, e
<1> QED
  BY <1>1, <1>3, <1>4

(* A leaf without a secret in any form, unescaped, escaped and scrubbed.   *)
Harmless(l) == \A t \in TextsOf(l) : ~HoldsSecret(t) /\ ~HoldsSecret(Decoded(t)) /\ ~HoldsSecret(Encoded(t))

LEMMA HarmlessSurvives ==
    ASSUME NEW l \in Leaves, Harmless(l), secretValues \in Seq(Secrets)
    PROVE  /\ ScrubbedValue(Rewritten(l, Decoded)) = Rewritten(l, Decoded)
           /\ Rewritten(Scrubbed(Rewritten(Rewritten(l, Decoded), Encoded)), Decoded) = Rewritten(l, Decoded)
<1> DEFINE d == Rewritten(l, Decoded)
           e == Rewritten(d, Encoded)
           s == Scrubbed(e)
<1>1. /\ Scrubber \in [Text -> Text] /\ \A t \in Text : Scrubber[t] = ScrubText(t)
      /\ Decoder \in [Text -> Text] /\ \A t \in Text : Decoder[t] = Decoded(t)
      /\ Encoder \in [Text -> Text] /\ \A t \in Text : Encoder[t] = Encoded(t)
  BY RewritersTypes DEF Scrubber, Decoder, Encoder
<1>2. TextsOf(l) \subseteq Text /\ l.text \in TextsOf(l)
  BY LeafParts
<1>3. d = RewrittenBy(l, Decoder) /\ d \in Leaves /\ d.text = Decoded(l.text)
  BY EscapedLeaf, RewrittenByFunction
<1>4. ScrubbedValue(d) = d
  <2>1. ~HoldsSecret(d.text)
    BY <1>2, <1>3 DEF Harmless
  <2> HIDE DEF d
  <2> QED
    BY <1>3, <2>1, ScrubbedValueLeaf
<1> HIDE DEF d
<1>5. e = RewrittenBy(l, Encoder)
  <2>1. \A t \in TextsOf(l) : Encoder[Decoder[t]] = Encoder[t]
    BY <1>1, <1>2, EscapedAgain
  <2>2. e = RewrittenBy(d, Encoder)
    BY <1>3, RewrittenByFunction
  <2> HIDE DEF e
  <2> QED
    BY <1>1, <1>3, <2>1, <2>2, RewrittenTwice
<1>6. e \in Leaves
  BY <1>1, <1>5, RewrittenByType
<1> HIDE DEF e
<1>7. s = e
  <2>1. TextsOf(e) = {Encoder[t] : t \in TextsOf(l)}
    BY <1>1, <1>5, RewrittenByType
  <2>2. \A t \in TextsOf(e) : ~HoldsSecret(t)
    BY <1>1, <1>2, <2>1 DEF Harmless
  <2> QED
    BY <1>6, <2>2, ScrubbedLeaf
<1> HIDE DEF s
<1>8. Rewritten(e, Decoded) = d
  <2>1. \A t \in TextsOf(l) : Decoder[Encoder[t]] = Decoder[t]
    BY <1>1, <1>2, EscapedAgain
  <2>2. Rewritten(e, Decoded) = RewrittenBy(e, Decoder)
    BY <1>6, RewrittenByFunction
  <2> QED
    BY <1>1, <1>3, <1>5, <2>1, <2>2, RewrittenTwice
<1> QED
  BY <1>4, <1>7, <1>8 DEF d, e, s

(* A parameter of a query that is written anew.                            *)
LEMMA ParamLeaf ==
    ASSUME NEW l \in Leaves, secretValues \in Seq(Secrets)
    PROVE  /\ MaskParam(l) \in Leaves
           /\ MaskParam(l).kind \in {l.kind, "string"}
           /\ Len(MaskParam(l).path) = Len(l.path)
           /\ \A i \in 1..Len(l.path) : MaskParam(l).path[i].class = l.path[i].class
           /\ IsParam(l) /\ IsQueryParamSensitive(l.path[1].class) => MaskParam(l).text = <<Mask>>
           /\ ~(IsParam(l) /\ IsQueryParamSensitive(l.path[1].class)) /\ Harmless(l)
              => Rewritten(Scrubbed(MaskParam(l)), Decoded) = Rewritten(l, Decoded)
<1> DEFINE d == Rewritten(l, Decoded)
           sensitive == IsQueryParamSensitive(l.path[1].class)
           w == IF sensitive THEN Masked(d) ELSE ScrubbedValue(d)
           m == Rewritten(w, Encoded)
<1>1. MaskParam(l) = IF ~IsParam(l) THEN l ELSE m
  BY DEF MaskParam
<1>2. /\ d \in Leaves /\ d.kind = l.kind /\ Len(d.path) = Len(l.path)
      /\ \A i \in 1..Len(l.path) : d.path[i].class = l.path[i].class
  BY EscapedLeaf
<1>3. Harmless(l) => ScrubbedValue(d) = d /\ Rewritten(Scrubbed(Rewritten(d, Encoded)), Decoded) = d
  BY HarmlessSurvives
<1> HIDE DEF d
<1>4. w \in Leaves /\ w.kind \in {l.kind, "string"} /\ w.path = d.path /\ (sensitive => w.text = <<Mask>>)
  <2>1. Masked(d) \in Leaves /\ Masked(d) = [path |-> d.path, text |-> <<Mask>>, kind |-> "string"]
    BY <1>2, MaskedLeaf
  <2>2. ScrubbedValue(d) \in Leaves /\ ScrubbedValue(d) = [path |-> d.path, text |-> ScrubText(d.text), kind |-> d.kind]
    BY <1>2, ScrubbedValueLeaf
  <2>3. CASE sensitive
    BY <2>1, <2>3
  <2>4. CASE ~sensitive
    BY <1>2, <2>2, <2>4
  <2> QED
    BY <2>3, <2>4
<1>5. Harmless(l) /\ ~sensitive => Rewritten(Scrubbed(m), Decoded) = d
  BY <1>3
<1> HIDE DEF w
<1>6. /\ m \in Leaves /\ m.kind = w.kind /\ m.text = Encoded(w.text) /\ Len(m.path) = Len(w.path)
      /\ \A i \in 1..Len(w.path) : m.path[i].class = w.path[i].class
  BY <1>4, EscapedLeaf
<1> HIDE DEF m
<1>7. CASE ~IsParam(l)
  <2>1. MaskParam(l) = l
    BY <1>1, <1>7
  <2>2. Harmless(l) => Scrubbed(l) = l
    BY ScrubbedLeaf DEF Harmless
  <2> QED
    BY <1>7, <2>1, <2>2
<1>8. CASE IsParam(l)
  <2>1. MaskParam(l) = m
    BY <1>1, <1>8
  <2>2. sensitive => m.text = <<Mask>>
    BY <1>4, <1>6, EscapedMask
  <2>3. /\ Len(m.path) = Len(l.path)
        /\ \A i \in 1..Len(l.path) : m.path[i].class = l.path[i].class
    BY <1>2, <1>4, <1>6
  <2>4. m.kind \in {l.kind, "string"}
    BY <1>4, <1>6
  <2> QED
    BY <1>5, <1>6, <1>8, <2>1, <2>2, <2>3, <2>4 DEF d
<1> QED
  BY <1>7, <1>8

(* A leaf under a sensitive key passes the look for unmasked keys.         *)
MaskedAtKey(l) == SensitiveAt(l.path) = Len(l.path) /\ l.text = <<Mask>> /\ l.kind = "string"

(* A leaf of a JSON body.                                                  *)
LEMMA JSONLeaf ==
    ASSUME NEW l \in Leaves, secretValues \in Seq(Secrets)
    PROVE  /\ NoValueHolds(Mask) => CleanLeaf(MaskJSONLeaf(l))
           /\ MaskJSONLeaf(l).kind \in {l.kind, "string"}
           /\ SensitiveAt(MaskJSONLeaf(l).path) > 0 => MaskedAtKey(MaskJSONLeaf(l))
           /\ SensitiveAt(l.path) = 0 /\ Harmless(l)
              => Rewritten(MaskJSONLeaf(l), Decoded) = Rewritten(l, Decoded)
<1> DEFINE d == Rewritten(l, Decoded)
           cut == SubSeq(d.path, 1, SensitiveAt(d.path))
           w == WalkAndMask(d)
           e == Rewritten(w, Encoded)
           m == MaskJSONLeaf(l)
<1>1. m = Scrubbed(e)
  BY DEF MaskJSONLeaf
<1>2. d \in Leaves /\ d.kind = l.kind /\ SensitiveAt(d.path) = SensitiveAt(l.path)
  BY EscapedLeaf
<1>3. Harmless(l) => ScrubbedValue(d) = d /\ Rewritten(Scrubbed(Rewritten(d, Encoded)), Decoded) = d
  BY HarmlessSurvives
<1> HIDE DEF d
<1>4. d.path \in Seq(Keys) /\ SensitiveAt(d.path) \in Nat
  BY <1>2, LeafParts, SensitiveAtFirst
<1>5. /\ w \in Leaves /\ w.kind \in {l.kind, "string"}
      /\ SensitiveAt(w.path) > 0 => MaskedAtKey(w)
      /\ SensitiveAt(l.path) = 0 /\ Harmless(l) => w = d
  <2>1. CASE SensitiveAt(d.path) > 0
    <3>1. cut \in Seq(Keys) /\ SensitiveAt(cut) = Len(cut)
      BY <1>4, <2>1, SensitiveAtEnd
    <3>2. w = Masked([d EXCEPT !.path = cut])
      BY <2>1 DEF WalkAndMask
    <3> HIDE DEF cut, w
    <3>3. [d EXCEPT !.path = cut] = [path |-> cut, text |-> d.text, kind |-> d.kind]
      BY <1>2, LeafParts
    <3>4. [d EXCEPT !.path = cut] \in Leaves
      BY <1>2, <3>1, <3>3 DEF Leaves
    <3>5. w \in Leaves /\ w = [path |-> cut, text |-> <<Mask>>, kind |-> "string"]
      BY <3>2, <3>3, <3>4, MaskedLeaf
    <3> QED
      BY <1>2, <2>1, <3>1, <3>5 DEF MaskedAtKey
  <2>2. CASE SensitiveAt(d.path) = 0 /\ d.kind = "number"
    <3>1. w = d
      BY <2>2 DEF WalkAndMask
    <3> HIDE DEF w
    <3> QED
      BY <1>2, <2>2, <3>1
  <2>3. CASE SensitiveAt(d.path) = 0 /\ d.kind # "number"
    <3>1. w = ScrubbedValue(d)
      BY <2>3 DEF WalkAndMask
    <3> HIDE DEF w
    <3>2. w \in Leaves /\ w = [path |-> d.path, text |-> ScrubText(d.text), kind |-> d.kind]
      BY <1>2, <3>1, ScrubbedValueLeaf
    <3> QED
      BY <1>2, <1>3, <2>3, <3>1, <3>2
  <2> QED
    BY <1>4, <2>1, <2>2, <2>3
<1> HIDE DEF w
<1>6. SensitiveAt(l.path) = 0 /\ Harmless(l) => Rewritten(Scrubbed(e), Decoded) = d
  BY <1>3, <1>5
<1>7. /\ e \in Leaves /\ e.kind = w.kind /\ e.text = Encoded(w.text) /\ Len(e.path) = Len(w.path)
      /\ SensitiveAt(e.path) = SensitiveAt(w.path)
  BY <1>5, EscapedLeaf
<1> HIDE DEF e, m
<1>8. /\ m.kind = e.kind /\ m.text = ScrubText(e.text) /\ Len(m.path) = Len(e.path)
      /\ SensitiveAt(m.path) = SensitiveAt(e.path)
      /\ NoValueHolds(Mask) => CleanLeaf(m)
  BY <1>1, <1>7, ScrubbedLeaf
<1>9. SensitiveAt(m.path) > 0 => MaskedAtKey(m)
  BY <1>5, <1>7, <1>8, EscapedMask, ScrubMask DEF MaskedAtKey
<1> QED
  BY <1>1, <1>5, <1>6, <1>7, <1>8, <1>9 DEF m, d

-----------------------------------------------------------------------------
(* Fields. *)

Headers == {"requestHeader", "responseHeader"}

Bodies == {"requestBody", "responseBody"}

LEMMA FieldFacts ==
    ASSUME NEW f \in Fields
    PROVE  /\ f = [at |-> f.at, shape |-> f.shape, leaves |-> f.leaves]
           /\ f.at \in {"name", "url", "error", "message", "extracted"} \cup Headers \cup Bodies
           /\ f.leaves \subseteq Leaves
           /\ f.shape \in Shapes[f.at]
           /\ \A l \in f.leaves :
                /\ f.shape \in {"text", "unparsable"} => l.path = <<>>
                /\ f.shape = "pairs" => Len(l.path) = 1
                /\ f.shape \in {"parsed", "form"} => Len(l.path) <= 1
                /\ l.kind \in {"rest", "number"} => f.shape \in {"json", "jsonAndMore"}
                /\ l.kind = "malformed" => f.shape \in {"parsed", "form"}
<1>1. /\ f \in [at: Surfaces, shape: UNION {Shapes[s] : s \in Surfaces}, leaves: SUBSET Leaves]
      /\ f.shape \in Shapes[f.at]
      /\ \A l \in f.leaves :
            /\ f.shape \in {"text", "unparsable"} => l.path = <<>>
            /\ f.shape = "pairs" => Len(l.path) = 1
            /\ f.shape \in {"parsed", "form"} => Len(l.path) <= 1
            /\ l.kind \in {"rest", "number"} => f.shape \in {"json", "jsonAndMore"}
            /\ l.kind = "malformed" => f.shape \in {"parsed", "form"}
  BY FieldsAssumption
<1>2. f.at \in {"name", "url", "error", "message", "extracted"} \cup Headers \cup Bodies
  BY <1>1 DEF Surfaces, Shapes, Headers, Bodies
<1>3. f = [at |-> f.at, shape |-> f.shape, leaves |-> f.leaves] /\ f.leaves \subseteq Leaves
  BY <1>1
<1> QED
  BY <1>1, <1>2, <1>3

LEMMA ShapeFacts ==
    ASSUME NEW f \in Fields
    PROVE  /\ f.at \in {"name", "message"} => f.shape = "text"
           /\ f.at = "url" => f.shape \in {"parsed", "unparsable"}
           /\ f.at = "error" => f.shape \in {"parsed", "text"}
           /\ f.at \in Headers \cup {"extracted"} => f.shape = "pairs"
           /\ f.at \in Bodies => f.shape \in {"json", "jsonAndMore", "form", "text"}
BY FieldFacts DEF Shapes, Headers, Bodies

(* The leaves of a URL before the scrub of its text.                       *)
UrlLeaves(f) == IF MasksQuery(f) THEN MaskQueryParams(f.leaves) ELSE f.leaves

FirstValue(f) == {l \in f.leaves : l.kind # "rest"}

FormIsMasked(f) == f.shape = "form" /\ \E l \in f.leaves : FormChanges(l)

(* Everything of a field but its leaves is kept.                           *)
WithLeaves(r, f, L) == r.at = f.at /\ r.shape = f.shape /\ r.leaves = L

LEMMA LeavesReplaced ==
    ASSUME NEW f \in Fields, NEW L
    PROVE  WithLeaves([f EXCEPT !.leaves = L], f, L)
<1>1. f = [at |-> f.at, shape |-> f.shape, leaves |-> f.leaves]
  BY FieldFacts
<1> QED
  BY <1>1 DEF WithLeaves

LEMMA RedactFieldCases ==
    ASSUME NEW f \in Fields
    PROVE  /\ f.at = "name" => RedactField(f) = f
           /\ f.at \in {"url", "error"} =>
                WithLeaves(RedactField(f), f, {Scrubbed(l) : l \in UrlLeaves(f)})
           /\ f.at \in Headers =>
                WithLeaves(RedactField(f), f,
                           MaskStringMap(f.leaves, {c \in Classes : cfg[f.at] /\ IsHeaderSensitive(c)}))
           /\ f.at = "extracted" =>
                WithLeaves(RedactField(f), f, MaskStringMap(f.leaves, {c \in Classes : IsKeySensitive(c)}))
           /\ f.at \in Bodies /\ cfg[f.at] => RedactField(f) = MaskBodyBytes(f)
           /\ f.at = "message" \/ (f.at \in Bodies /\ ~cfg[f.at]) =>
                WithLeaves(RedactField(f), f, {Scrubbed(l) : l \in f.leaves})
<1>1. f.at = "name" => RedactField(f) = f
  BY DEF RedactField
<1>2. ASSUME f.at \in {"url", "error"}
      PROVE  WithLeaves(RedactField(f), f, {Scrubbed(l) : l \in UrlLeaves(f)})
  <2> DEFINE L == {Scrubbed(l) : l \in UrlLeaves(f)}
  <2>1. RedactField(f) = [f EXCEPT !.leaves = L]
    BY <1>2 DEF RedactField, UrlLeaves
  <2> HIDE DEF L
  <2>2. WithLeaves(RedactField(f), f, L)
    BY <2>1, LeavesReplaced
  <2> QED
    BY <2>2 DEF L
<1>3. ASSUME f.at \in Headers
      PROVE  WithLeaves(RedactField(f), f,
                        MaskStringMap(f.leaves, {c \in Classes : cfg[f.at] /\ IsHeaderSensitive(c)}))
  <2> DEFINE L == MaskStringMap(f.leaves, {c \in Classes : cfg[f.at] /\ IsHeaderSensitive(c)})
  <2>1. RedactField(f) = [f EXCEPT !.leaves = L]
    BY <1>3 DEF RedactField, Headers
  <2> HIDE DEF L
  <2>2. WithLeaves(RedactField(f), f, L)
    BY <2>1, LeavesReplaced
  <2> QED
    BY <2>2 DEF L
<1>4. ASSUME f.at = "extracted"
      PROVE  WithLeaves(RedactField(f), f, MaskStringMap(f.leaves, {c \in Classes : IsKeySensitive(c)}))
  <2> DEFINE L == MaskStringMap(f.leaves, {c \in Classes : IsKeySensitive(c)})
  <2>1. RedactField(f) = [f EXCEPT !.leaves = L]
    BY <1>4 DEF RedactField
  <2> HIDE DEF L
  <2>2. WithLeaves(RedactField(f), f, L)
    BY <2>1, LeavesReplaced
  <2> QED
    BY <2>2 DEF L
<1>5. f.at \in Bodies /\ cfg[f.at] => RedactField(f) = MaskBodyBytes(f)
  BY DEF RedactField, Bodies
<1>6. ASSUME f.at = "message" \/ (f.at \in Bodies /\ ~cfg[f.at])
      PROVE  WithLeaves(RedactField(f), f, {Scrubbed(l) : l \in f.leaves})
  <2> DEFINE L == {Scrubbed(l) : l \in f.leaves}
  <2>1. RedactField(f) = [f EXCEPT !.leaves = L]
    BY <1>6 DEF RedactField, Bodies
  <2> HIDE DEF L
  <2>2. WithLeaves(RedactField(f), f, L)
    BY <2>1, LeavesReplaced
  <2> QED
    BY <2>2 DEF L
<1> QED
  BY <1>1, <1>2, <1>3, <1>4, <1>5, <1>6

LEMMA MaskBodyCases ==
    ASSUME NEW f \in Fields
    PROVE  /\ f.shape \in {"json", "jsonAndMore"} =>
                /\ MaskBodyBytes(f).at = f.at
                /\ MaskBodyBytes(f).leaves = {MaskJSONLeaf(l) : l \in FirstValue(f)}
           /\ FormIsMasked(f) => WithLeaves(MaskBodyBytes(f), f, {MaskFormLeaf(l) : l \in f.leaves})
           /\ ~(f.shape \in {"json", "jsonAndMore"}) /\ ~FormIsMasked(f) =>
                WithLeaves(MaskBodyBytes(f), f, {Scrubbed(l) : l \in f.leaves})
<1>1. ASSUME f.shape \in {"json", "jsonAndMore"}
      PROVE  /\ MaskBodyBytes(f).at = f.at
             /\ MaskBodyBytes(f).leaves = {MaskJSONLeaf(l) : l \in FirstValue(f)}
  <2>1. MaskBodyBytes(f) = MaskJSONBody(f)
    BY <1>1 DEF MaskBodyBytes
  <2>2. MaskJSONBody(f).at = f.at /\ MaskJSONBody(f).leaves = {MaskJSONLeaf(l) : l \in FirstValue(f)}
    BY DEF MaskJSONBody, FirstValue
  <2> QED
    BY <2>1, <2>2
<1>2. ASSUME FormIsMasked(f)
      PROVE  WithLeaves(MaskBodyBytes(f), f, {MaskFormLeaf(l) : l \in f.leaves})
  <2> DEFINE L == {MaskFormLeaf(l) : l \in f.leaves}
  <2>1. MaskBodyBytes(f) = [f EXCEPT !.leaves = L]
    BY <1>2 DEF MaskBodyBytes, FormIsMasked
  <2> HIDE DEF L
  <2>2. WithLeaves(MaskBodyBytes(f), f, L)
    BY <2>1, LeavesReplaced
  <2> QED
    BY <2>2 DEF L
<1>3. ASSUME ~(f.shape \in {"json", "jsonAndMore"}), ~FormIsMasked(f)
      PROVE  WithLeaves(MaskBodyBytes(f), f, {Scrubbed(l) : l \in f.leaves})
  <2> DEFINE L == {Scrubbed(l) : l \in f.leaves}
  <2>1. MaskBodyBytes(f) = [f EXCEPT !.leaves = L]
    BY <1>3 DEF MaskBodyBytes, FormIsMasked
  <2> HIDE DEF L
  <2>2. WithLeaves(MaskBodyBytes(f), f, L)
    BY <2>1, LeavesReplaced
  <2> QED
    BY <2>2 DEF L
<1> QED
  BY <1>1, <1>2, <1>3

-----------------------------------------------------------------------------
(* The check after masking: keys. *)

LEMMA UrlKeysMasked ==
    ASSUME NEW f \in Fields, f.at \in {"url", "error"}, cfg.query, secretValues \in Seq(Secrets)
    PROVE  ~UnmaskedKey(RedactField(f))
<1> DEFINE L == {Scrubbed(l) : l \in UrlLeaves(f)}
           r == RedactField(f)
<1>1. r.at = f.at /\ r.shape = f.shape /\ r.leaves = L
  BY RedactFieldCases DEF WithLeaves
<1> HIDE DEF r
<1>2. f.leaves \subseteq Leaves
  BY FieldFacts
<1>3. ASSUME f.at = "url", f.shape = "parsed", NEW m \in L,
             IsParam(m), m.kind # "malformed", IsQueryParamSensitive(m.path[1].class)
      PROVE  Decoded(m.text) = <<Mask>>
  <2>1. PICK l \in UrlLeaves(f) : m = Scrubbed(l)
    OBVIOUS
  <2>2. UrlLeaves(f) = MaskQueryParams(f.leaves)
    BY <1>3 DEF UrlLeaves, MasksQuery
  <2>3. CASE ~\E k \in f.leaves : ParamChanges(k)
    <3>1. l \in f.leaves /\ l \in Leaves
      BY <1>2, <2>1, <2>2, <2>3 DEF MaskQueryParams
    <3>2. /\ m \in Leaves /\ m.kind = l.kind /\ Len(m.path) = Len(l.path)
          /\ \A i \in 1..Len(l.path) : m.path[i].class = l.path[i].class
      BY <2>1, <3>1, ScrubbedLeaf
    <3>3. IsParam(l) /\ 1 \in 1..Len(l.path)
      BY <1>3, <3>1, <3>2, LeafParts, EmptySeq DEF IsParam
    <3>4. ParamChanges(l)
      BY <1>3, <3>2, <3>3 DEF ParamChanges
    <3> QED
      BY <2>3, <3>1, <3>4
  <2>4. CASE \E k \in f.leaves : ParamChanges(k)
    <3>1. PICK k \in f.leaves : l = MaskParam(k)
      BY <2>1, <2>2, <2>4 DEF MaskQueryParams
    <3>2. /\ k \in Leaves /\ l \in Leaves /\ Len(l.path) = Len(k.path)
          /\ \A i \in 1..Len(k.path) : l.path[i].class = k.path[i].class
          /\ IsParam(k) /\ IsQueryParamSensitive(k.path[1].class) => l.text = <<Mask>>
      BY <1>2, <3>1, ParamLeaf
    <3>3. /\ m \in Leaves /\ m.text = ScrubText(l.text) /\ Len(m.path) = Len(l.path)
          /\ \A i \in 1..Len(l.path) : m.path[i].class = l.path[i].class
      BY <2>1, <3>2, ScrubbedLeaf
    <3>4. IsParam(k) /\ 1 \in 1..Len(k.path)
      BY <1>3, <3>2, <3>3, LeafParts, EmptySeq DEF IsParam
    <3>5. l.text = <<Mask>>
      BY <1>3, <3>2, <3>3, <3>4
    <3>6. m.text = <<Mask>>
      BY <3>3, <3>5, ScrubMask
    <3> QED
      BY <3>6, EscapedMask
  <2> QED
    BY <2>3, <2>4
<1>4. ~UnmaskedKey(r)
  <2>1. r.at = "error" => ~UnmaskedKey(r)
    BY DEF UnmaskedKey
  <2>2. r.at = "url" /\ r.shape # "parsed" => ~UnmaskedKey(r)
    BY DEF UnmaskedKey
  <2>3. r.at = "url" /\ r.shape = "parsed" =>
            (UnmaskedKey(r) <=> \E l \in r.leaves :
                /\ IsParam(l) /\ l.kind # "malformed"
                /\ IsQueryParamSensitive(l.path[1].class) /\ Decoded(l.text) # <<Mask>>)
    BY DEF UnmaskedKey
  <2> HIDE DEF L
  <2> QED
    BY <1>1, <1>3, <2>1, <2>2, <2>3
<1> QED
  BY <1>4 DEF r

(* A header or an extracted variable: its name is kept, its value is not,  *)
(* under a sensitive name or else scrubbed.                                *)
MaskedPair(l, S) == IF l.path[1].class \in S THEN Masked(l) ELSE ScrubbedValue(l)

LEMMA PairLeaf ==
    ASSUME NEW l \in Leaves, NEW S, NEW m, m = MaskedPair(l, S), secretValues \in Seq(Secrets)
    PROVE  /\ m \in Leaves /\ m.path = l.path
           /\ l.path[1].class \in S => m.text = <<Mask>>
           /\ NoValueHolds(Mask) => ~HoldsSecret(m.text)
           /\ l.path[1].class \notin S /\ Harmless(l) => m = l
<1>1. Masked(l) \in Leaves /\ Masked(l) = [path |-> l.path, text |-> <<Mask>>, kind |-> "string"]
  BY MaskedLeaf
<1>2. /\ ScrubbedValue(l) \in Leaves
      /\ ScrubbedValue(l) = [path |-> l.path, text |-> ScrubText(l.text), kind |-> l.kind]
      /\ ~HoldsSecret(l.text) => ScrubbedValue(l) = l
  BY ScrubbedValueLeaf
<1>3. l.text \in Text /\ l.text \in TextsOf(l) /\ ~HoldsSecret(<<Mask>>)
  BY LeafParts, ScrubMask
<1>4. NoValueHolds(Mask) => ~HoldsSecret(ScrubText(l.text))
  BY <1>3, ScrubClean
<1>5. CASE l.path[1].class \in S
  BY <1>1, <1>3, <1>5 DEF MaskedPair
<1>6. CASE l.path[1].class \notin S
  BY <1>2, <1>3, <1>4, <1>6 DEF Harmless, MaskedPair
<1> QED
  BY <1>5, <1>6

(* The names that are sensitive among headers, or extracted variables.     *)
SensitiveNames(f) == {c \in Classes : IF f.at \in Headers THEN IsHeaderSensitive(c) ELSE IsKeySensitive(c)}

LEMMA PairsMasked ==
    ASSUME NEW f \in Fields, f.at \in Headers \cup {"extracted"}, f.at \in Headers => cfg[f.at]
    PROVE  WithLeaves(RedactField(f), f, MaskStringMap(f.leaves, SensitiveNames(f)))
<1>1. CASE f.at \in Headers
  <2>1. SensitiveNames(f) = {c \in Classes : cfg[f.at] /\ IsHeaderSensitive(c)}
    BY <1>1 DEF SensitiveNames
  <2> QED
    BY <1>1, <2>1, RedactFieldCases
<1>2. CASE f.at = "extracted"
  <2>1. SensitiveNames(f) = {c \in Classes : IsKeySensitive(c)}
    BY <1>2 DEF SensitiveNames, Headers
  <2> QED
    BY <1>2, <2>1, RedactFieldCases
<1> QED
  BY <1>1, <1>2

LEMMA PairKeysMasked ==
    ASSUME NEW f \in Fields, f.at \in Headers \cup {"extracted"}, f.at \in Headers => cfg[f.at],
           secretValues \in Seq(Secrets)
    PROVE  ~UnmaskedKey(RedactField(f))
<1> DEFINE L == MaskStringMap(f.leaves, SensitiveNames(f))
           r == RedactField(f)
<1>1. r.at = f.at /\ r.leaves = L
  BY PairsMasked DEF WithLeaves
<1> HIDE DEF L, r
<1>2. f.leaves \subseteq Leaves
  BY FieldFacts
<1>3. \A l \in f.leaves : l.path[1].class \in Classes
  <2> SUFFICES ASSUME NEW l \in f.leaves PROVE l.path[1].class \in Classes
    OBVIOUS
  <2>1. l \in Leaves /\ 1 \in 1..Len(l.path)
    BY <1>2, FieldFacts, ShapeFacts
  <2> QED
    BY <2>1, LeafParts
<1>4. ASSUME NEW m \in L
      PROVE  /\ f.at \in Headers /\ IsHeaderSensitive(m.path[1].class) => m.text = <<Mask>>
             /\ f.at = "extracted" /\ IsKeySensitive(m.path[1].class) => m.text = <<Mask>>
  <2>1. PICK l \in f.leaves : m = MaskedPair(l, SensitiveNames(f))
    BY <1>4 DEF L, MaskStringMap, MaskedPair
  <2>2. m.path = l.path /\ (l.path[1].class \in SensitiveNames(f) => m.text = <<Mask>>)
    BY <1>2, <2>1, PairLeaf
  <2>3. l.path[1].class \in Classes
    BY <1>3
  <2>4. f.at \in Headers /\ IsHeaderSensitive(l.path[1].class) => l.path[1].class \in SensitiveNames(f)
    BY <2>3 DEF SensitiveNames
  <2>5. f.at = "extracted" /\ IsKeySensitive(l.path[1].class) => l.path[1].class \in SensitiveNames(f)
    BY <2>3 DEF SensitiveNames, Headers
  <2> QED
    BY <2>2, <2>4, <2>5
<1>5. ~UnmaskedKey(r)
  <2>1. r.at \in Headers =>
            (UnmaskedKey(r) <=> \E l \in r.leaves : IsHeaderSensitive(l.path[1].class) /\ l.text # <<Mask>>)
    BY DEF UnmaskedKey, Headers
  <2>2. r.at = "extracted" =>
            (UnmaskedKey(r) <=> \E l \in r.leaves : IsKeySensitive(l.path[1].class) /\ l.text # <<Mask>>)
    BY DEF UnmaskedKey, Sensitive
  <2> QED
    BY <1>1, <1>4, <2>1, <2>2
<1> QED
  BY <1>5 DEF r

LEMMA BodyKeysMasked ==
    ASSUME NEW f \in Fields, f.at \in Bodies, cfg[f.at], secretValues \in Seq(Secrets)
    PROVE  ~UnmaskedKey(RedactField(f))
<1> DEFINE r == RedactField(f)
<1>1. r = MaskBodyBytes(f)
  BY RedactFieldCases
<1> HIDE DEF r
<1>2. f.leaves \subseteq Leaves
  BY FieldFacts
<1>3. r.at = f.at
  BY <1>1, MaskBodyCases DEF WithLeaves
<1>4. UnmaskedKey(r) => r.shape = "json" /\ FindUnmaskedKey(r)
  BY <1>3 DEF UnmaskedKey, Bodies
<1>5. CASE f.shape \in {"json", "jsonAndMore"}
  <2>1. r.leaves = {MaskJSONLeaf(l) : l \in FirstValue(f)}
    BY <1>1, <1>5, MaskBodyCases
  <2>2. ASSUME NEW m \in r.leaves PROVE SensitiveAt(m.path) > 0 => MaskedAtKey(m)
    <3>1. PICK l \in f.leaves : m = MaskJSONLeaf(l)
      BY <2>1 DEF FirstValue
    <3> QED
      BY <1>2, <3>1, JSONLeaf
  <2>3. ~FindUnmaskedKey(r)
    BY <2>2 DEF FindUnmaskedKey, MaskedAtKey
  <2> QED
    BY <1>4, <2>3 DEF r
<1>6. CASE ~(f.shape \in {"json", "jsonAndMore"})
  <2>1. r.shape = f.shape
    BY <1>1, <1>6, MaskBodyCases DEF WithLeaves
  <2> QED
    BY <1>4, <1>6, <2>1 DEF r
<1> QED
  BY <1>5, <1>6

-----------------------------------------------------------------------------
(* The check after masking: texts. *)

LEMMA CleanPassesTextCheck ==
    ASSUME NEW f, \A l \in f.leaves : CleanLeaf(l), secretValues \in Seq(Secrets), NoValueHolds("%q")
    PROVE  ~CheckTextForSecrets(f)
<1>1. \A l \in f.leaves : \A t \in TextsOf(l) : t \in Text /\ ~HoldsSecret(t)
  BY LeafParts DEF CleanLeaf
<1>2. \A l \in f.leaves : \A t \in TextsOf(l) : ~HoldsSecret(Encoded(t))
  BY <1>1, EncodedHolds
<1> QED
  BY <1>1, <1>2 DEF CheckTextForSecrets

LEMMA ScrubbedFieldPasses ==
    ASSUME NEW f, NEW r, NEW L \in SUBSET Leaves, WithLeaves(r, f, {Scrubbed(l) : l \in L}),
           secretValues \in Seq(Secrets), NoValueHolds(Mask), NoValueHolds("%q")
    PROVE  ~CheckTextForSecrets(r)
<1>1. \A m \in r.leaves : CleanLeaf(m)
  BY ScrubbedLeaf DEF WithLeaves
<1> QED
  BY <1>1, CleanPassesTextCheck

(* Of a leaf under one key whose text holds nothing, the key is left.      *)
LEMMA KeyLeft ==
    ASSUME NEW m \in Leaves, Len(m.path) = 1, ~HoldsSecret(m.text), secretValues \in Seq(Secrets),
           NoValueHolds("%q")
    PROVE  /\ (\E t \in TextsOf(m) : HoldsSecret(Encoded(t))) <=> HoldsSecret(Encoded(m.path[1].text))
           /\ (\E t \in TextsOf(m) : HoldsSecret(t)) <=> HoldsSecret(m.path[1].text)
<1>1. TextsOf(m) = {m.text, m.path[1].text}
  BY LeafParts
<1>2. ~HoldsSecret(Encoded(m.text))
  BY EncodedHolds, LeafParts
<1> QED
  BY <1>1, <1>2

LEMMA NameLeft ==
    ASSUME NEW f \in Fields, f.at = "name"
    PROVE  CheckTextForSecrets(RedactField(f)) <=> SecretLeft(f)
<1>1. RedactField(f) = f
  BY RedactFieldCases
<1>2. \A l \in f.leaves : TextsOf(l) = {l.text}
  <2>1. f.shape = "text"
    BY ShapeFacts
  <2>2. \A l \in f.leaves : l.path = <<>>
    BY <2>1, FieldFacts
  <2>3. \A l \in f.leaves : DOMAIN l.path = {}
    BY <2>2
  <2> QED
    BY <2>3 DEF TextsOf
<1>3. CheckTextForSecrets(f) <=> \E l \in f.leaves : \E t \in TextsOf(l) : HoldsSecret(Encoded(t))
  <2>1. ~(f.at \in {"requestBody", "responseBody"})
    OBVIOUS
  <2> QED
    BY <2>1, Zenon DEF CheckTextForSecrets
<1>4. SecretLeft(f) <=> \E l \in f.leaves : HoldsSecret(Encoded(l.text))
  <2>1. f.shape # "form"
    BY ShapeFacts
  <2> QED
    BY <2>1 DEF SecretLeft
<1> QED
  BY <1>1, <1>2, <1>3, <1>4

LEMMA PairNamesLeft ==
    ASSUME NEW f \in Fields, f.at \in Headers \cup {"extracted"}, f.at \in Headers => cfg[f.at],
           secretValues \in Seq(Secrets), NoValueHolds(Mask), NoValueHolds("%q")
    PROVE  CheckTextForSecrets(RedactField(f)) <=> SecretLeft(f)
<1> DEFINE S == SensitiveNames(f)
           r == RedactField(f)
<1>1. r.at = f.at /\ r.leaves = {MaskedPair(l, S) : l \in f.leaves}
  BY PairsMasked DEF WithLeaves, MaskStringMap, MaskedPair
<1> HIDE DEF r, S
<1>2. CheckTextForSecrets(r) <=> \E m \in r.leaves : \E t \in TextsOf(m) : HoldsSecret(Encoded(t))
  <2>1. ~(r.at \in {"requestBody", "responseBody"})
    BY <1>1 DEF Headers
  <2> QED
    BY <2>1, Zenon DEF CheckTextForSecrets
<1>3. SecretLeft(f) <=> \E l \in f.leaves : HoldsSecret(Encoded(l.path[1].text))
  <2>1. f.shape # "form" /\ f.at # "name"
    BY ShapeFacts DEF Headers
  <2> QED
    BY <2>1 DEF SecretLeft, Headers
<1>4. ASSUME NEW l \in f.leaves, NEW m, m = MaskedPair(l, S)
      PROVE  (\E t \in TextsOf(m) : HoldsSecret(Encoded(t))) <=> HoldsSecret(Encoded(l.path[1].text))
  <2>1. l \in Leaves /\ Len(l.path) = 1
    BY FieldFacts, ShapeFacts
  <2>2. m \in Leaves /\ m.path = l.path /\ ~HoldsSecret(m.text)
    BY <1>4, <2>1, PairLeaf
  <2> QED
    BY <2>1, <2>2, KeyLeft
<1>5. CheckTextForSecrets(r) <=> SecretLeft(f)
  BY <1>1, <1>2, <1>3, <1>4
<1> QED
  BY <1>5 DEF r

(* A pair of a form that is masked: its key stays as it is.                *)
LEMMA FormLeaf ==
    ASSUME NEW l \in Leaves, IsParam(l), secretValues \in Seq(Secrets)
    PROVE  /\ MaskFormLeaf(l) \in Leaves /\ MaskFormLeaf(l).path = l.path
           /\ NoValueHolds(Mask) => ~HoldsSecret(MaskFormLeaf(l).text)
           /\ ~IsKeySensitive(l.path[1].class) /\ Harmless(l) => MaskFormLeaf(l) = l
<1> DEFINE t == FormValue(l)
<1>1. Masked(l) \in Leaves /\ Masked(l) = [path |-> l.path, text |-> <<Mask>>, kind |-> "string"]
  BY MaskedLeaf
<1>2. /\ l.text \in Text /\ l.text \in TextsOf(l) /\ l = [path |-> l.path, text |-> l.text, kind |-> l.kind]
      /\ <<Mask>> \in Text /\ ~HoldsSecret(<<Mask>>) /\ ScrubText(l.text) \in Text /\ Decoded(l.text) \in Text
  BY LeafParts, ScrubMask, ScrubType, EscapedTexts
<1>3. t \in Text /\ (NoValueHolds(Mask) => ~HoldsSecret(t)) /\ (Harmless(l) => t = l.text)
  <2>1. t \in {<<Mask>>, ScrubText(l.text)}
    BY DEF FormValue
  <2>2. Harmless(l) => ScrubText(Decoded(l.text)) = Decoded(l.text) /\ ScrubText(l.text) = l.text
    BY <1>2, ScrubUnchanged DEF Harmless
  <2>3. Harmless(l) => t = l.text
    BY <2>2 DEF FormValue
  <2>4. NoValueHolds(Mask) => ~HoldsSecret(ScrubText(l.text))
    BY <1>2, ScrubClean
  <2> HIDE DEF t
  <2> QED
    BY <1>2, <2>1, <2>3, <2>4
<1>4. MaskFormLeaf(l) = IF IsKeySensitive(l.path[1].class) THEN Masked(l) ELSE [l EXCEPT !.text = t]
  BY DEF MaskFormLeaf, Sensitive
<1> HIDE DEF t
<1>5. [l EXCEPT !.text = t] \in Leaves /\ [l EXCEPT !.text = t] = [path |-> l.path, text |-> t, kind |-> l.kind]
  BY <1>3, TextReplaced
<1> QED
  BY <1>1, <1>2, <1>3, <1>4, <1>5

LEMMA FormKeysLeft ==
    ASSUME NEW f \in Fields, f.at \in Bodies, cfg[f.at], FormIsMasked(f),
           secretValues \in Seq(Secrets), NoValueHolds(Mask), NoValueHolds("%q")
    PROVE  CheckTextForSecrets(RedactField(f)) <=> SecretLeft(f)
<1> DEFINE r == RedactField(f)
<1>1. r.at = f.at /\ r.leaves = {MaskFormLeaf(l) : l \in f.leaves}
  BY RedactFieldCases, MaskBodyCases DEF WithLeaves
<1> HIDE DEF r
<1>2. CheckTextForSecrets(r) <=>
          \E m \in r.leaves : \E t \in TextsOf(m) : HoldsSecret(Encoded(t)) \/ HoldsSecret(t)
  BY <1>1 DEF CheckTextForSecrets, Bodies
<1>3. SecretLeft(f) <=> \E l \in f.leaves : HoldsSecret(IF IsParam(l) THEN l.path[1].text ELSE l.text)
  BY DEF SecretLeft, Bodies, FormIsMasked
<1>4. ASSUME NEW l \in f.leaves
      PROVE  (\E t \in TextsOf(MaskFormLeaf(l)) : HoldsSecret(Encoded(t)) \/ HoldsSecret(t))
             <=> HoldsSecret(IF IsParam(l) THEN l.path[1].text ELSE l.text)
  <2> DEFINE m == MaskFormLeaf(l)
  <2>1. l \in Leaves /\ Len(l.path) <= 1
    BY FieldFacts DEF FormIsMasked
  <2>2. CASE IsParam(l)
    <3>1. Len(l.path) = 1
      <4>1. l.path \in Seq(Keys) /\ l.path # <<>>
        BY <2>1, <2>2, LeafParts DEF IsParam
      <4> DEFINE n == Len(l.path)
      <4>2. n \in Nat \ {0}
        BY <4>1, EmptySeq
      <4>3. n <= 1
        BY <2>1
      <4>4. n = 1
        <5> HIDE DEF n
        <5> QED
          BY <4>2, <4>3
      <4> QED
        BY <4>4
    <3>2. m \in Leaves /\ m.path = l.path /\ ~HoldsSecret(m.text)
      BY <2>1, <2>2, FormLeaf
    <3> HIDE DEF m
    <3>3. (\E t \in TextsOf(m) : HoldsSecret(t)) <=> HoldsSecret(l.path[1].text)
      BY <3>1, <3>2, KeyLeft
    <3>4. \A t \in TextsOf(m) : HoldsSecret(Encoded(t)) => HoldsSecret(t)
      BY <3>2, LeafParts, EncodedHolds
    <3>5. (\E t \in TextsOf(m) : HoldsSecret(Encoded(t)) \/ HoldsSecret(t)) <=> HoldsSecret(l.path[1].text)
      BY <3>3, <3>4
    <3> QED
      BY <2>2, <3>5 DEF m
  <2>3. CASE ~IsParam(l)
    <3>1. m = l /\ l.path = <<>>
      BY <2>3 DEF MaskFormLeaf, IsParam
    <3>2. TextsOf(l) = {l.text}
      <4>1. DOMAIN l.path = {}
        BY <3>1
      <4> QED
        BY <4>1 DEF TextsOf
    <3>3. HoldsSecret(Encoded(l.text)) => HoldsSecret(l.text)
      BY <2>1, LeafParts, EncodedHolds
    <3> HIDE DEF m
    <3>4. (\E t \in TextsOf(m) : HoldsSecret(Encoded(t)) \/ HoldsSecret(t)) <=> HoldsSecret(l.text)
      BY <3>1, <3>2, <3>3
    <3> QED
      BY <2>3, <3>4 DEF m
  <2> QED
    BY <2>2, <2>3
<1>5. CheckTextForSecrets(r) <=> SecretLeft(f)
  BY <1>1, <1>2, <1>3, <1>4
<1> QED
  BY <1>5 DEF r

LEMMA UrlLeavesType ==
    ASSUME NEW f \in Fields, secretValues \in Seq(Secrets)
    PROVE  UrlLeaves(f) \subseteq Leaves
<1>1. f.leaves \subseteq Leaves
  BY FieldFacts
<1>2. \A l \in f.leaves : MaskParam(l) \in Leaves
  BY <1>1, ParamLeaf
<1> QED
  BY <1>1, <1>2 DEF UrlLeaves, MaskQueryParams

(* With every flag on, the check finds what masking did not look at.       *)
LEMMA CheckFindsLeft ==
    ASSUME NEW f \in Fields, cfg \in Configs, AllOn, secretValues \in Seq(Secrets),
           NoValueHolds(Mask), NoValueHolds("%q")
    PROVE  CheckTextForSecrets(RedactField(f)) \/ UnmaskedKey(RedactField(f)) <=> SecretLeft(f)
<1> DEFINE r == RedactField(f)
<1>1. \A flag \in {"query"} \cup Headers \cup Bodies : cfg[flag]
  <2>1. {"query"} \cup Headers \cup Bodies \subseteq DOMAIN cfg \ {"scopes"}
    BY ConfigsAssumption DEF MaskingConfig, Headers, Bodies
  <2> QED
    BY <2>1 DEF AllOn
<1>2. cfg.query
  <2>1. cfg["query"]
    BY <1>1
  <2> QED
    BY <2>1
<1>3. f.leaves \subseteq Leaves
  BY FieldFacts
<1> HIDE DEF r
<1>4. CASE f.at = "name"
  <2>1. ~UnmaskedKey(r)
    <3>1. r = f
      BY <1>4, RedactFieldCases DEF r
    <3> QED
      BY <1>4, <3>1 DEF UnmaskedKey
  <2> QED
    BY <1>4, <2>1, NameLeft DEF r
<1>5. CASE f.at \in {"url", "error"}
  <2>1. ~UnmaskedKey(r)
    BY <1>2, <1>5, UrlKeysMasked DEF r
  <2>2. ~CheckTextForSecrets(r)
    <3>1. WithLeaves(r, f, {Scrubbed(l) : l \in UrlLeaves(f)}) /\ UrlLeaves(f) \in SUBSET Leaves
      BY <1>5, RedactFieldCases, UrlLeavesType DEF r
    <3> QED
      BY <3>1, ScrubbedFieldPasses
  <2>3. ~SecretLeft(f)
    <3>1. f.shape # "form"
      BY <1>5, ShapeFacts
    <3> QED
      BY <1>5, <3>1 DEF SecretLeft
  <2> QED
    BY <2>1, <2>2, <2>3 DEF r
<1>6. CASE f.at \in Headers \cup {"extracted"}
  BY <1>1, <1>6, PairKeysMasked, PairNamesLeft DEF r
<1>7. CASE f.at = "message"
  <2>1. WithLeaves(r, f, {Scrubbed(l) : l \in f.leaves})
    BY <1>7, RedactFieldCases DEF r
  <2>2. ~CheckTextForSecrets(r)
    BY <1>3, <2>1, ScrubbedFieldPasses
  <2>3. ~UnmaskedKey(r)
    BY <1>7, <2>1 DEF UnmaskedKey, WithLeaves
  <2>4. ~SecretLeft(f)
    <3>1. f.shape # "form"
      BY <1>7, ShapeFacts
    <3> QED
      BY <1>7, <3>1 DEF SecretLeft
  <2> QED
    BY <2>2, <2>3, <2>4 DEF r
<1>8. CASE f.at \in Bodies /\ FormIsMasked(f)
  BY <1>1, <1>8, BodyKeysMasked, FormKeysLeft
<1>9. CASE f.at \in Bodies /\ ~FormIsMasked(f)
  <2>1. ~UnmaskedKey(r)
    BY <1>1, <1>9, BodyKeysMasked DEF r
  <2>2. ~SecretLeft(f)
    BY <1>9 DEF SecretLeft, Bodies, FormIsMasked
  <2>3. r = MaskBodyBytes(f)
    BY <1>1, <1>9, RedactFieldCases DEF r
  <2>4. CASE f.shape \in {"json", "jsonAndMore"}
    <3>1. r.leaves = {MaskJSONLeaf(l) : l \in FirstValue(f)}
      BY <2>3, <2>4, MaskBodyCases
    <3>2. \A m \in r.leaves : CleanLeaf(m)
      BY <1>3, <3>1, JSONLeaf DEF FirstValue
    <3>3. ~CheckTextForSecrets(r)
      BY <3>2, CleanPassesTextCheck
    <3> QED
      BY <2>1, <2>2, <3>3 DEF r
  <2>5. CASE ~(f.shape \in {"json", "jsonAndMore"})
    <3>1. WithLeaves(r, f, {Scrubbed(l) : l \in f.leaves})
      BY <1>9, <2>3, <2>5, MaskBodyCases
    <3>2. ~CheckTextForSecrets(r)
      BY <1>3, <3>1, ScrubbedFieldPasses
    <3> QED
      BY <2>1, <2>2, <3>2 DEF r
  <2> QED
    BY <2>4, <2>5
<1> QED
  BY <1>4, <1>5, <1>6, <1>7, <1>8, <1>9, FieldFacts

(* Once masked, a field waits for the check with what it left in it.       *)
LeftWaits ==
    step = "check" /\ AllOn /\ NoValueHolds(Mask) /\ NoValueHolds("%q") =>
        (CheckTextForSecrets(redacted) \/ UnmaskedKey(redacted) <=> SecretLeft(result))

(* What the check says depends on the configuration and the registered     *)
(* values only, besides the field.                                         *)
LEMMA SameCheck ==
    ASSUME cfg' = cfg, secretValues' = secretValues
    PROVE  /\ AllOn' <=> AllOn
           /\ \A s : NoValueHolds(s)' <=> NoValueHolds(s)
           /\ \A t : ScrubText(t)' = ScrubText(t)
           /\ \A t : HoldsSecret(t)' <=> HoldsSecret(t)
           /\ \A f : CheckTextForSecrets(f)' <=> CheckTextForSecrets(f)
           /\ \A f : UnmaskedKey(f)' <=> UnmaskedKey(f)
           /\ \A f : SecretLeft(f)' <=> SecretLeft(f)
           /\ \A f, l : SensitiveKey(f, l)' <=> SensitiveKey(f, l)
           /\ \A f : MasksQuery(f)' <=> MasksQuery(f)
           /\ \A l : ParamChanges(l)' <=> ParamChanges(l)
<1>1. AllOn' <=> AllOn
  BY DEF AllOn
<1>2. \A s : NoValueHolds(s)' <=> NoValueHolds(s)
  BY DEF NoValueHolds
<1>3. \A t : ScrubText(t)' = ScrubText(t)
  BY DEF ScrubText
<1>4. \A t : HoldsSecret(t)' <=> HoldsSecret(t)
  BY DEF HoldsSecret, HasKnownValue
<1>5. \A c : /\ IsHeaderSensitive(c)' <=> IsHeaderSensitive(c)
             /\ IsKeySensitive(c)' <=> IsKeySensitive(c)
             /\ IsQueryParamSensitive(c)' <=> IsQueryParamSensitive(c)
  BY DEF IsHeaderSensitive, IsKeySensitive, IsQueryParamSensitive, RuledFor
<1>6. \A p : SensitiveAt(p)' = SensitiveAt(p)
  BY <1>5 DEF SensitiveAt, SelectInSeq, Sensitive
<1>7. \A f : CheckTextForSecrets(f)' <=> CheckTextForSecrets(f)
  BY <1>4 DEF CheckTextForSecrets
<1>8. \A f : FindUnmaskedKey(f)' <=> FindUnmaskedKey(f)
  BY <1>6 DEF FindUnmaskedKey
<1>9. \A f : UnmaskedKey(f)' <=> UnmaskedKey(f)
  BY <1>5, <1>8 DEF UnmaskedKey, Sensitive
<1>10. \A l : FormChanges(l)' <=> FormChanges(l)
  BY <1>3, <1>5 DEF FormChanges, FormValue, Sensitive
<1>11. \A f : SecretLeft(f)' <=> SecretLeft(f)
  BY <1>4, <1>10 DEF SecretLeft
<1>12. \A f, l : SensitiveKey(f, l)' <=> SensitiveKey(f, l)
  BY <1>5, <1>6 DEF SensitiveKey
<1>13. \A f : MasksQuery(f)' <=> MasksQuery(f)
  BY DEF MasksQuery
<1>14. \A l : ParamChanges(l)' <=> ParamChanges(l)
  BY <1>3, <1>5 DEF ParamChanges
<1> QED
  BY <1>1, <1>2, <1>3, <1>4, <1>7, <1>9, <1>11, <1>12, <1>13, <1>14

LEMMA LeftWaitsInductive == RedactionInv /\ LeftWaits /\ [Next]_vars => LeftWaits'
<1> SUFFICES ASSUME RedactionInv, LeftWaits, [Next]_vars, step' = "check" PROVE LeftWaits'
  BY DEF LeftWaits
<1>1. CASE Redact
  <2>1. result' \in Fields /\ cfg' = cfg /\ secretValues' = secretValues
    BY <1>1 DEF Redact
  <2>2. redacted' = IF cfg.enabled THEN RedactField(result') ELSE result'
    BY <1>1 DEF Redact
  <2>3. AllOn => cfg.enabled
    <3>1. "enabled" \in DOMAIN cfg \ {"scopes"}
      BY ConfigsAssumption DEF RedactionInv, MaskingConfig
    <3>2. AllOn => cfg["enabled"]
      BY <3>1 DEF AllOn
    <3> QED
      BY <3>2
  <2>4. ASSUME AllOn, NoValueHolds(Mask), NoValueHolds("%q")
        PROVE  CheckTextForSecrets(redacted') \/ UnmaskedKey(redacted') <=> SecretLeft(result')
    <3>1. redacted' = RedactField(result')
      BY <2>2, <2>3, <2>4
    <3> QED
      BY <2>1, <2>4, <3>1, CheckFindsLeft DEF RedactionInv, SecretsOrdered
  <2>5. /\ AllOn' <=> AllOn
        /\ NoValueHolds(Mask)' <=> NoValueHolds(Mask)
        /\ NoValueHolds("%q")' <=> NoValueHolds("%q")
    BY <2>1, SameCheck DEF Mask
  <2>6. /\ CheckTextForSecrets(redacted)' <=> CheckTextForSecrets(redacted')
        /\ UnmaskedKey(redacted)' <=> UnmaskedKey(redacted')
        /\ SecretLeft(result)' <=> SecretLeft(result')
    BY <2>1, SameCheck
  <2> QED
    BY <2>4, <2>5, <2>6 DEF LeftWaits
<1>2. CASE UNCHANGED vars
  <2>1. UNCHANGED <<cfg, secretValues, result, redacted, step>>
    BY <1>2 DEF vars
  <2>2. /\ AllOn' <=> AllOn
        /\ NoValueHolds(Mask)' <=> NoValueHolds(Mask)
        /\ NoValueHolds("%q")' <=> NoValueHolds("%q")
    BY <2>1, SameCheck DEF Mask
  <2>3. /\ CheckTextForSecrets(redacted)' <=> CheckTextForSecrets(redacted)
        /\ UnmaskedKey(redacted)' <=> UnmaskedKey(redacted)
        /\ SecretLeft(result)' <=> SecretLeft(result)
    BY <2>1, SameCheck
  <2> QED
    BY <2>1, <2>2, <2>3 DEF LeftWaits
<1>3. AddSecretsFromEnv \/ AddSecretsFromVars \/ CheckForSecrets => step' # "check"
  BY DEF AddSecretsFromEnv, AddSecretsFromVars, CheckForSecrets
<1> QED
  BY <1>1, <1>2, <1>3 DEF Next, Done

(* With every flag on, the check finds what masking does not look at and   *)
(* nothing else: of keys and values the two halves of the redactor agree   *)
(* on every other surface, scope of a rule and escaped form                *)
(* (redactor.go:413-418), if no registered value holds the placeholder or  *)
(* an escape.                                                              *)
THEOREM MaskedPassesCheckCorrect == Spec => []MaskedPassesCheck
<1> DEFINE Inv == RedactionInv /\ LeftWaits /\ MaskedPassesCheck
<1>1. Init => Inv
  <2>1. Init => RedactionInv
    BY EmptySeq DEF Init, RedactionInv, SecretsOrdered
  <2> QED
    BY <2>1 DEF Init, LeftWaits, MaskedPassesCheck
<1>2. Inv /\ [Next]_vars => Inv'
  <2> SUFFICES ASSUME Inv, [Next]_vars PROVE MaskedPassesCheck'
    BY RedactionInductive, LeftWaitsInductive
  <2>1. CASE CheckForSecrets
    <3>1. /\ step = "check" /\ UNCHANGED <<cfg, secretValues, result, redacted>>
          /\ step' = IF cfg.enabled /\ (CheckTextForSecrets(redacted) \/ UnmaskedKey(redacted))
                     THEN "detected" ELSE "clean"
      BY <2>1 DEF CheckForSecrets
    <3>2. AllOn => cfg.enabled
      <4>1. "enabled" \in DOMAIN cfg \ {"scopes"}
        BY ConfigsAssumption DEF RedactionInv, MaskingConfig
      <4>2. AllOn => cfg["enabled"]
        BY <4>1 DEF AllOn
      <4> QED
        BY <4>2
    <3>3. /\ AllOn' <=> AllOn
          /\ NoValueHolds(Mask)' <=> NoValueHolds(Mask)
          /\ NoValueHolds("%q")' <=> NoValueHolds("%q")
          /\ SecretLeft(result)' <=> SecretLeft(result)
      BY <3>1, SameCheck DEF Mask
    <3> QED
      BY <3>1, <3>2, <3>3 DEF LeftWaits, MaskedPassesCheck
  <2>2. CASE UNCHANGED vars
    <3>1. UNCHANGED <<cfg, secretValues, result, redacted, step>>
      BY <2>2 DEF vars
    <3>2. /\ AllOn' <=> AllOn
          /\ NoValueHolds(Mask)' <=> NoValueHolds(Mask)
          /\ NoValueHolds("%q")' <=> NoValueHolds("%q")
          /\ SecretLeft(result)' <=> SecretLeft(result)
      BY <3>1, SameCheck DEF Mask
    <3> QED
      BY <3>1, <3>2 DEF MaskedPassesCheck
  <2>3. AddSecretsFromEnv \/ AddSecretsFromVars \/ Redact => step' \notin {"clean", "detected"}
    BY DEF AddSecretsFromEnv, AddSecretsFromVars, Redact
  <2> QED
    BY <2>1, <2>2, <2>3 DEF Next, Done, MaskedPassesCheck
<1> QED
  BY <1>1, <1>2, PTL DEF Spec

-----------------------------------------------------------------------------
(* What masking leaves alone. *)

(* A leaf is found again, unescaped, among others.                         *)
FoundAgain(l, L) == \E m \in L : Rewritten(m, Decoded) = Rewritten(l, Decoded)

LEMMA FoundAsItIs ==
    ASSUME NEW l, NEW L, l \in L
    PROVE  FoundAgain(l, L)
BY DEF FoundAgain

LEMMA FoundScrubbed ==
    ASSUME NEW l \in Leaves, Harmless(l), NEW L, l \in L, secretValues \in Seq(Secrets)
    PROVE  FoundAgain(l, {Scrubbed(k) : k \in L})
<1>1. Scrubbed(l) = l
  BY ScrubbedLeaf DEF Harmless
<1>2. l \in {Scrubbed(k) : k \in L}
  BY <1>1
<1> QED
  BY <1>2, FoundAsItIs

LEMMA UrlSurvives ==
    ASSUME NEW f \in Fields, f.at \in {"url", "error"}, secretValues \in Seq(Secrets),
           NEW l \in f.leaves, Harmless(l), ~SensitiveKey(f, l)
    PROVE  /\ ~(l.kind = "malformed" /\ MasksQuery(f) /\ \E k \in f.leaves : ParamChanges(k))
              => FoundAgain(l, RedactField(f).leaves)
           /\ (l.kind = "malformed" /\ MasksQuery(f) /\ \E k \in f.leaves : ParamChanges(k))
              => ~FoundAgain(l, RedactField(f).leaves)
<1> DEFINE L == {Scrubbed(k) : k \in UrlLeaves(f)}
<1>1. l \in Leaves /\ f.leaves \subseteq Leaves
  BY FieldFacts
<1>2. RedactField(f).leaves = L
  BY RedactFieldCases DEF WithLeaves
<1>3. ~(IsParam(l) /\ IsQueryParamSensitive(l.path[1].class))
  <2>1. f.at \notin {"requestHeader", "responseHeader"}
    OBVIOUS
  <2>2. SensitiveKey(f, l) <=> (IsParam(l) /\ IsQueryParamSensitive(l.path[1].class))
    BY <2>1 DEF SensitiveKey
  <2> QED
    BY <2>2
<1>4. CASE ~(MasksQuery(f) /\ \E k \in f.leaves : ParamChanges(k))
  <2>1. UrlLeaves(f) = f.leaves
    BY <1>4 DEF UrlLeaves, MaskQueryParams
  <2>2. FoundAgain(l, {Scrubbed(k) : k \in f.leaves})
    BY <1>1, FoundScrubbed
  <2> QED
    BY <1>2, <1>4, <2>1, <2>2
<1>5. CASE MasksQuery(f) /\ \E k \in f.leaves : ParamChanges(k)
  <2>1. UrlLeaves(f) = {MaskParam(k) : k \in {m \in f.leaves : m.kind # "malformed"}}
    BY <1>5 DEF UrlLeaves, MaskQueryParams
  <2>2. ASSUME l.kind # "malformed" PROVE FoundAgain(l, L)
    <3>1. Scrubbed(MaskParam(l)) \in L
      BY <2>1, <2>2
    <3>2. Rewritten(Scrubbed(MaskParam(l)), Decoded) = Rewritten(l, Decoded)
      BY <1>1, <1>3, ParamLeaf
    <3> HIDE DEF L
    <3> QED
      BY <3>1, <3>2 DEF FoundAgain
  <2>3. ASSUME l.kind = "malformed" PROVE ~FoundAgain(l, L)
    <3>1. ASSUME NEW m \in L PROVE m.kind # "malformed"
      <4>1. PICK k \in f.leaves : k.kind # "malformed" /\ m = Scrubbed(MaskParam(k))
        BY <2>1, <3>1
      <4>2. MaskParam(k) \in Leaves /\ MaskParam(k).kind \in {k.kind, "string"}
        BY <1>1, ParamLeaf
      <4>3. m.kind = MaskParam(k).kind
        BY <4>1, <4>2, ScrubbedLeaf
      <4> QED
        BY <4>1, <4>2, <4>3
    <3>2. \A m : Rewritten(m, Decoded).kind = m.kind
      BY DEF Rewritten
    <3> HIDE DEF L
    <3> QED
      BY <2>3, <3>1, <3>2 DEF FoundAgain
  <2> HIDE DEF L
  <2> QED
    BY <1>2, <1>5, <2>2, <2>3
<1> QED
  BY <1>4, <1>5

LEMMA PairSurvives ==
    ASSUME NEW f \in Fields, f.at \in Headers \cup {"extracted"}, secretValues \in Seq(Secrets),
           NEW l \in f.leaves, Harmless(l), ~SensitiveKey(f, l)
    PROVE  FoundAgain(l, RedactField(f).leaves)
<1>1. l \in Leaves /\ Len(l.path) = 1
  BY FieldFacts, ShapeFacts
<1>2. l.path \in Seq(Keys) /\ 1 \in 1..Len(l.path)
  BY <1>1, LeafParts
<1>3. \E S : l.path[1].class \notin S /\ RedactField(f).leaves = MaskStringMap(f.leaves, S)
  <2>1. CASE f.at \in Headers
    <3>1. ~IsHeaderSensitive(l.path[1].class)
      BY <2>1 DEF SensitiveKey, Headers
    <3> QED
      BY <2>1, <3>1, RedactFieldCases DEF WithLeaves
  <2>2. CASE f.at = "extracted"
    <3>1. SensitiveKey(f, l) <=> SensitiveAt(l.path) > 0
      BY <2>2 DEF SensitiveKey
    <3>2. SensitiveAt(l.path) = 0
      BY <1>2, <3>1, SensitiveAtFirst
    <3>3. ~IsKeySensitive(l.path[1].class)
      BY <1>2, <3>2, SensitiveAtFirst
    <3> QED
      BY <2>2, <3>3, RedactFieldCases DEF WithLeaves
  <2> QED
    BY <2>1, <2>2
<1>4. PICK S : l.path[1].class \notin S /\ RedactField(f).leaves = MaskStringMap(f.leaves, S)
  BY <1>3
<1>5. MaskedPair(l, S) = l
  BY <1>1, <1>4, PairLeaf
<1>6. MaskedPair(l, S) \in RedactField(f).leaves
  BY <1>4 DEF MaskStringMap, MaskedPair
<1> QED
  BY <1>5, <1>6, FoundAsItIs

LEMMA BodySurvives ==
    ASSUME NEW f \in Fields, f.at \in Bodies, cfg[f.at], secretValues \in Seq(Secrets),
           NEW l \in f.leaves, Harmless(l), ~SensitiveKey(f, l)
    PROVE  FoundAgain(l, RedactField(f).leaves) <=> l.kind # "rest"
<1> DEFINE R == RedactField(f).leaves
<1>1. l \in Leaves /\ f.leaves \subseteq Leaves /\ l.path \in Seq(Keys)
  BY FieldFacts, LeafParts
<1>2. RedactField(f) = MaskBodyBytes(f)
  BY RedactFieldCases
<1>3. SensitiveAt(l.path) = 0
  <2>1. SensitiveKey(f, l) <=> SensitiveAt(l.path) > 0
    BY DEF SensitiveKey, Bodies
  <2> QED
    BY <1>1, <2>1, SensitiveAtFirst
<1>4. CASE f.shape \in {"json", "jsonAndMore"}
  <2>1. R = {MaskJSONLeaf(k) : k \in FirstValue(f)}
    BY <1>2, <1>4, MaskBodyCases
  <2> HIDE DEF R
  <2>2. ASSUME l.kind # "rest" PROVE FoundAgain(l, R)
    <3>1. MaskJSONLeaf(l) \in R
      BY <2>1, <2>2 DEF FirstValue
    <3>2. Rewritten(MaskJSONLeaf(l), Decoded) = Rewritten(l, Decoded)
      BY <1>1, <1>3, JSONLeaf
    <3> QED
      BY <3>1, <3>2 DEF FoundAgain
  <2>3. ASSUME l.kind = "rest" PROVE ~FoundAgain(l, R)
    <3>1. ASSUME NEW m \in R PROVE m.kind # "rest"
      <4>1. PICK k \in f.leaves : k.kind # "rest" /\ m = MaskJSONLeaf(k)
        BY <2>1, <3>1 DEF FirstValue
      <4>2. m.kind \in {k.kind, "string"}
        BY <1>1, <4>1, JSONLeaf
      <4> QED
        BY <4>1, <4>2
    <3>2. \A m : Rewritten(m, Decoded).kind = m.kind
      BY DEF Rewritten
    <3> QED
      BY <2>3, <3>1, <3>2 DEF FoundAgain
  <2> QED
    BY <2>2, <2>3 DEF R
<1>5. CASE ~(f.shape \in {"json", "jsonAndMore"})
  <2>1. l.kind # "rest"
    BY <1>5, FieldFacts
  <2>2. CASE FormIsMasked(f)
    <3>1. R = {MaskFormLeaf(k) : k \in f.leaves}
      BY <1>2, <2>2, MaskBodyCases DEF WithLeaves
    <3>2. MaskFormLeaf(l) = l
      <4>1. CASE IsParam(l)
        <5>1. Len(l.path) \in Nat \ {0}
          BY <1>1, <4>1, EmptySeq DEF IsParam
        <5>2. 1 \in 1..Len(l.path)
          BY <5>1
        <5>3. ~IsKeySensitive(l.path[1].class)
          BY <1>1, <1>3, <5>2, SensitiveAtFirst
        <5> QED
          BY <1>1, <4>1, <5>3, FormLeaf
      <4>2. CASE ~IsParam(l)
        BY <4>2 DEF MaskFormLeaf
      <4> QED
        BY <4>1, <4>2
    <3>3. l \in R
      BY <3>1, <3>2
    <3> QED
      BY <2>1, <3>3, FoundAsItIs
  <2>3. CASE ~FormIsMasked(f)
    <3>1. R = {Scrubbed(k) : k \in f.leaves}
      BY <1>2, <1>5, <2>3, MaskBodyCases DEF WithLeaves
    <3>2. FoundAgain(l, {Scrubbed(k) : k \in f.leaves})
      BY <1>1, FoundScrubbed
    <3> QED
      BY <2>1, <3>1, <3>2
  <2> QED
    BY <2>2, <2>3
<1> QED
  BY <1>4, <1>5

LEMMA HarmlessFound ==
    ASSUME NEW f \in Fields, cfg \in Configs, cfg.enabled, secretValues \in Seq(Secrets),
           NEW l \in f.leaves, Harmless(l), ~SensitiveKey(f, l)
    PROVE  FoundAgain(l, RedactField(f).leaves) <=> ~Lost(f, l)
<1>1. l \in Leaves
  BY FieldFacts
<1>2. l.kind = "rest" => f.at \in Bodies
  BY FieldFacts, ShapeFacts
<1>3. l.kind = "malformed" /\ MasksQuery(f) => f.at \in {"url", "error"}
  BY FieldFacts, ShapeFacts DEF MasksQuery
<1>4. Lost(f, l) <=> \/ l.kind = "rest" /\ cfg[f.at]
                     \/ l.kind = "malformed" /\ MasksQuery(f) /\ \E k \in f.leaves : ParamChanges(k)
  BY DEF Lost
<1>5. CASE f.at = "name"
  <2>1. RedactField(f) = f
    BY <1>5, RedactFieldCases
  <2>2. FoundAgain(l, RedactField(f).leaves)
    BY <2>1, FoundAsItIs
  <2>3. f.at \notin Bodies /\ f.at \notin {"url", "error"}
    BY <1>5 DEF Bodies
  <2> QED
    BY <1>2, <1>3, <1>4, <2>2, <2>3
<1>6. CASE f.at \in {"url", "error"}
  <2>1. f.at \notin Bodies
    BY <1>6 DEF Bodies
  <2> QED
    BY <1>2, <1>4, <1>6, <2>1, UrlSurvives
<1>7. CASE f.at \in Headers \cup {"extracted"}
  <2>1. f.at \notin Bodies /\ f.at \notin {"url", "error"}
    BY <1>7 DEF Bodies, Headers
  <2>2. FoundAgain(l, RedactField(f).leaves)
    BY <1>7, PairSurvives
  <2> QED
    BY <1>2, <1>3, <1>4, <2>1, <2>2
<1>8. CASE f.at \in Bodies /\ cfg[f.at]
  <2>1. f.at \notin {"url", "error"}
    BY <1>8 DEF Bodies
  <2>2. FoundAgain(l, RedactField(f).leaves) <=> l.kind # "rest"
    BY <1>8, BodySurvives
  <2> QED
    BY <1>3, <1>4, <1>8, <2>1, <2>2
<1>9. CASE f.at = "message" \/ (f.at \in Bodies /\ ~cfg[f.at])
  <2>1. RedactField(f).leaves = {Scrubbed(k) : k \in f.leaves}
    BY <1>9, RedactFieldCases DEF WithLeaves
  <2>2. FoundAgain(l, {Scrubbed(k) : k \in f.leaves})
    BY <1>1, FoundScrubbed
  <2>3. f.at \notin {"url", "error"} /\ ~(f.at \in Bodies /\ cfg[f.at])
    BY <1>9 DEF Bodies
  <2> QED
    BY <1>2, <1>3, <1>4, <2>1, <2>2, <2>3
<1> QED
  BY <1>5, <1>6, <1>7, <1>8, <1>9, FieldFacts

(* Masking one thing changes nothing beside it: what is under no sensitive *)
(* key and holds no secret, escaped or not, is in the artifact, at most    *)
(* escaped differently, whatever else of the field was masked              *)
(* (redactor.go:282-310, 346-350), except for exactly what is lost: what   *)
(* decoding drops of a JSON body, and the malformed pairs of a query that  *)
(* is written anew.                                                        *)
THEOREM OnlySensitiveChangesCorrect == Spec => []OnlySensitiveChanges
<1>1. Init => OnlySensitiveChanges
  BY DEF Init, OnlySensitiveChanges
<1>2. RedactionInv /\ OnlySensitiveChanges /\ [Next]_vars => OnlySensitiveChanges'
  <2> SUFFICES ASSUME RedactionInv, OnlySensitiveChanges, [Next]_vars, step' = "check"
               PROVE  OnlySensitiveChanges'
    BY DEF OnlySensitiveChanges
  <2>1. CASE Redact
    <3>1. result' \in Fields /\ cfg' = cfg /\ secretValues' = secretValues
      BY <2>1 DEF Redact
    <3>2. redacted' = IF cfg.enabled THEN RedactField(result') ELSE result'
      BY <2>1 DEF Redact
    <3>3. ASSUME NEW l \in result'.leaves, Harmless(l), ~SensitiveKey(result', l)
          PROVE  FoundAgain(l, redacted'.leaves) <=> ~Lost(result', l)
      <4>1. CASE cfg.enabled
        BY <3>1, <3>2, <3>3, <4>1, HarmlessFound DEF RedactionInv, SecretsOrdered
      <4>2. CASE ~cfg.enabled
        <5>1. ~Lost(result', l)
          BY <4>2 DEF Lost
        <5> QED
          BY <3>2, <3>3, <4>2, <5>1, FoundAsItIs
      <4> QED
        BY <4>1, <4>2
    <3>4. ASSUME NEW l, Innocent(result, l)' PROVE Harmless(l) /\ ~SensitiveKey(result', l)
      <4>1. /\ ~SensitiveKey(result, l)'
            /\ \A t \in TextsOf(l) : ~HoldsSecret(t)' /\ ~HoldsSecret(Decoded(t))' /\ ~HoldsSecret(Encoded(t))'
        BY <3>4 DEF Innocent
      <4> QED
        BY <3>1, <4>1, SameCheck DEF Harmless
    <3>5. \A l : Lost(result, l)' <=> Lost(result', l)
      BY <3>1, SameCheck DEF Lost
    <3> QED
      BY <3>3, <3>4, <3>5 DEF OnlySensitiveChanges, FoundAgain
  <2>2. CASE UNCHANGED vars
    <3>1. UNCHANGED <<cfg, secretValues, result, redacted, step>>
      BY <2>2 DEF vars
    <3>2. \A l : Innocent(result, l)' <=> Innocent(result, l)
      BY <3>1, SameCheck DEF Innocent
    <3>3. \A l : Lost(result, l)' <=> Lost(result, l)
      BY <3>1, SameCheck DEF Lost
    <3> QED
      BY <3>1, <3>2, <3>3 DEF OnlySensitiveChanges
  <2>3. AddSecretsFromEnv \/ AddSecretsFromVars \/ CheckForSecrets => step' # "check"
    BY DEF AddSecretsFromEnv, AddSecretsFromVars, CheckForSecrets
  <2> QED
    BY <2>1, <2>2, <2>3 DEF Next, Done
<1> QED
  BY <1>1, <1>2, RedactionInvariant, PTL DEF Spec
==============================================================================
