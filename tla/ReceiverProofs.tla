---------------------------- MODULE ReceiverProofs ----------------------------
(***************************************************************************)
(* Proofs about the bytes on the wire: what the client writes is read back *)
(* as what it meant, for every symbol, token and number that fits, and what *)
(* it keeps of a message is the part that has come of it.                  *)
(***************************************************************************)
EXTENDS Receiver, SequenceTheorems, NaturalsInduction, WellFoundedInduction, TLAPS

-------------------------------------------------------------------------------
(* Induction and recursion.  The hypothesis of an induction is the set of the  *)
(* numbers for which it holds; a recursive function over D is given by the     *)
(* places where it ends, by the next place, which is nearer to an end, and by  *)
(* what is made at a place of the value at the next.                           *)

LEMMA SetInduction ==
  ASSUME NEW T, 0 \in T, \A n \in Nat : n \in T => n + 1 \in T
  PROVE  Nat \subseteq T
<1> SUFFICES ASSUME Nat \ T # {} PROVE FALSE
  OBVIOUS
<1>1. PICK n \in Nat \ T : \A m \in Nat \ T : <<m, n>> \notin OpToRel(<, Nat)
  <2> HIDE DEF OpToRel
  <2>1. Nat \ T \subseteq Nat
    OBVIOUS
  <2> QED
    BY <2>1, NatLessThanWellFounded, WFMin
<1>2. \A m \in Nat \ T : ~(m < n)
  BY <1>1 DEF OpToRel
<1>3. n # 0 /\ n - 1 \in Nat /\ n - 1 < n /\ (n - 1) + 1 = n
  OBVIOUS
<1> QED
  BY <1>2, <1>3

\* Every step comes nearer to an end.
Descends(D, ends, next, measure) ==
  \A d \in D : /\ measure[d] \in Nat
               /\ d \notin ends => next[d] \in D /\ measure[next[d]] < measure[d]

\* f has the values of the recursion at the places P, ...
Follows(f, P, ends, base, next, step) ==
  \A p \in P : f[p] = IF p \in ends THEN base[p] ELSE step[p][f[next[p]]]

\* ... and they are in the set V.
Solves(f, P, V, ends, base, next, step) ==
  \A p \in P : /\ f[p] \in V
               /\ f[p] = IF p \in ends THEN base[p] ELSE step[p][f[next[p]]]

LEMMA RecursionOnce ==
  ASSUME NEW P, NEW Q, NEW V, NEW ends, NEW base, NEW next, NEW step, NEW f,
         P \subseteq Q, \A q \in Q \ ends : next[q] \in P,
         \A q \in Q \cap ends : base[q] \in V,
         \A q \in Q \ ends : step[q] \in [V -> V],
         Solves(f, P, V, ends, base, next, step)
  PROVE  \E g \in [Q -> V] : Solves(g, Q, V, ends, base, next, step)
<1> DEFINE g == [q \in Q |-> IF q \in ends THEN base[q] ELSE step[q][f[next[q]]]]
<1>1. \A p \in P : f[p] \in V /\ f[p] = IF p \in ends THEN base[p] ELSE step[p][f[next[p]]]
  BY DEF Solves
<1>2. \A p \in P : g[p] = f[p]
  BY <1>1
<1>3. \A q \in Q : g[q] = IF q \in ends THEN base[q] ELSE step[q][g[next[q]]]
  BY <1>2
<1>4. \A q \in Q : g[q] \in V
  BY <1>1
<1>5. g \in [Q -> V]
  BY <1>4
<1> QED
  BY <1>3, <1>4, <1>5 DEF Solves

\* A recursion that comes nearer to its end with every step has a function that
\* solves it, ...
LEMMA RecursionExists ==
  ASSUME NEW D, NEW V, NEW ends, NEW base, NEW next, NEW step,
         NEW measure, NEW most \in Nat,
         Descends(D, ends, next, measure), \A d \in D : measure[d] <= most,
         \A d \in D \cap ends : base[d] \in V,
         \A d \in D \ ends : step[d] \in [V -> V]
  PROVE  \E f \in [D -> V] : Solves(f, D, V, ends, base, next, step)
<1> DEFINE Below(n) == {d \in D : measure[d] < n}
           T == {n \in Nat : \E f \in [Below(n) -> V] :
                               Solves(f, Below(n), V, ends, base, next, step)}
<1>1. 0 \in T
  <2>1. Below(0) = {}
    BY DEF Descends
  <2>2. Solves([p \in {} |-> 0], {}, V, ends, base, next, step)
    BY DEF Solves
  <2> QED
    BY <2>1, <2>2
<1>2. \A n \in Nat : n \in T => n + 1 \in T
  <2> SUFFICES ASSUME NEW n \in Nat, n \in T PROVE n + 1 \in T
    OBVIOUS
  <2>1. PICK f : Solves(f, Below(n), V, ends, base, next, step)
    OBVIOUS
  <2>2. Below(n) \subseteq Below(n + 1) /\ Below(n + 1) \subseteq D
    BY DEF Descends
  <2>3. \A q \in Below(n + 1) \ ends : next[q] \in Below(n)
    BY DEF Descends
  <2>4. \E g \in [Below(n + 1) -> V] :
          Solves(g, Below(n + 1), V, ends, base, next, step)
    <3> HIDE DEF Below, T
    <3> QED
      BY <2>1, <2>2, <2>3, RecursionOnce
  <2> HIDE DEF Below
  <2> QED
    BY <2>4
<1>3. most + 1 \in T
  <2> HIDE DEF T
  <2> QED
    BY <1>1, <1>2, SetInduction
<1>4. Below(most + 1) = D
  BY DEF Descends
<1> QED
  BY <1>3, <1>4

\* ... what holds at its ends and is handed on from step to step holds everywhere, ...
LEMMA DescentInduction ==
  ASSUME NEW D, NEW ends, NEW next, NEW measure, NEW S, Descends(D, ends, next, measure),
         \A d \in D : d \in ends => d \in S,
         \A d \in D : d \notin ends /\ next[d] \in D /\ next[d] \in S => d \in S
  PROVE  D \subseteq S
<1> DEFINE T == {n \in Nat : \A d \in D : measure[d] < n => d \in S}
<1>1. 0 \in T
  BY DEF Descends
<1>2. \A n \in Nat : n \in T => n + 1 \in T
  BY DEF Descends
<1>3. Nat \subseteq T
  <2> HIDE DEF T
  <2> QED
    BY <1>1, <1>2, SetInduction
<1>4. \A d \in D : measure[d] + 1 \in T /\ measure[d] < measure[d] + 1
  BY <1>3 DEF Descends
<1> QED
  BY <1>4

\* ... and it has only one solution.
LEMMA RecursionUnique ==
  ASSUME NEW D, NEW ends, NEW base, NEW next, NEW step, NEW measure,
         NEW f, NEW g, Descends(D, ends, next, measure),
         Follows(f, D, ends, base, next, step), Follows(g, D, ends, base, next, step)
  PROVE  \A d \in D : f[d] = g[d]
<1> DEFINE S == {d \in D : f[d] = g[d]}
<1>1. \A d \in D : d \in ends => d \in S
  BY DEF Follows
<1>2. \A d \in D : d \notin ends /\ next[d] \in D /\ next[d] \in S => d \in S
  BY DEF Follows
<1>3. D \subseteq S
  <2> HIDE DEF S
  <2> QED
    BY <1>1, <1>2, DescentInduction
<1> QED
  BY <1>3

-------------------------------------------------------------------------------
(* Varints *)

Bits == 0..(ValueBits + FieldBits)

LEMMA PowerIs ==
  /\ \A n \in Bits : Power[n] \in Nat /\ Power[n] > 0
  /\ \A n \in Bits : Power[n] = IF n = 0 THEN 1 ELSE 2 * Power[n - 1]
<1> DEFINE ends == {0}
           base == [n \in Bits |-> 1]
           next == [n \in Bits |-> n - 1]
           step == [n \in Bits |-> [k \in Nat |-> 2 * k]]
           measure == [n \in Bits |-> n]
           Is(f) == f = [n \in Bits |-> IF n = 0 THEN 1 ELSE 2 * f[n - 1]]
<1>1. ValueBits + FieldBits \in Nat
  BY CodecAssumption
<1>8. Descends(Bits, ends, next, measure)
  BY <1>1 DEF Bits, Descends
<1>2. PICK f \in [Bits -> Nat] : Solves(f, Bits, Nat, ends, base, next, step)
  <2>1. \A d \in Bits : measure[d] <= ValueBits + FieldBits
    BY <1>1 DEF Bits
  <2>3. \A d \in Bits \cap ends : base[d] \in Nat
    OBVIOUS
  <2>4. \A d \in Bits \ ends : step[d] \in [Nat -> Nat]
    OBVIOUS
  <2> HIDE DEF ends, base, next, step, measure
  <2> QED
    BY <1>1, <1>8, <2>1, <2>3, <2>4, RecursionExists
<1>3. \A n \in Bits : f[n] \in Nat /\ f[n] = IF n = 0 THEN 1 ELSE 2 * f[n - 1]
  <2>1. \A n \in Bits \ {0} : n - 1 \in Bits
    BY <1>1 DEF Bits
  <2> QED
    BY <1>2, <2>1 DEF Solves
<1>4. Is(f)
  BY <1>3
<1>5. Is(Power)
  <2>1. Power = CHOOSE h : Is(h)
    BY DEF Power, Bits
  <2> QED
    BY <1>4, <2>1
<1>6. \A n \in Bits : Power[n] = IF n = 0 THEN 1 ELSE 2 * Power[n - 1]
  <2> DEFINE F == [n \in Bits |-> IF n = 0 THEN 1 ELSE 2 * Power[n - 1]]
  <2>1. \A n \in Bits : F[n] = IF n = 0 THEN 1 ELSE 2 * Power[n - 1]
    OBVIOUS
  <2>2. Power = F
    BY <1>5
  <2> QED
    BY <2>1, <2>2
<1>7. \A n \in Bits : Power[n] \in Nat /\ Power[n] > 0
  <2> DEFINE S == {n \in Bits : Power[n] \in Nat /\ Power[n] > 0}
  <2>1. \A n \in Bits : n \in ends => n \in S
    BY <1>6
  <2>2. \A n \in Bits : n \notin ends /\ next[n] \in Bits /\ next[n] \in S => n \in S
    BY <1>6
  <2>3. Bits \subseteq S
    <3> HIDE DEF S, ends, next, measure
    <3> QED
      BY <1>8, <2>1, <2>2, DescentInduction
  <2> QED
    BY <2>3
<1> QED
  BY <1>6, <1>7

LEMMA PowerGrows ==
  /\ \A n \in Bits : n >= 7 => n - 7 \in Bits /\ Power[n] = 128 * Power[n - 7]
  /\ \A n \in Bits : n \in 1..7 => Power[n] <= 128
  /\ ValueBits \in Bits /\ Power[ValueBits] >= 128
  /\ FieldBits \in Bits /\ Power[FieldBits] >= 16
<1>1. ValueBits \in Nat /\ FieldBits \in Nat /\ ValueBits >= 7 /\ FieldBits >= 4
  BY CodecAssumption
<1>2. \A n \in Bits : n > 0 => n - 1 \in Bits /\ Power[n - 1] \in Nat /\ Power[n] = 2 * Power[n - 1]
  BY <1>1, PowerIs DEF Bits
<1>3. 0 \in Bits /\ Power[0] = 1
  BY <1>1, PowerIs DEF Bits
<1>4. \A n \in Bits : n >= 4 => n - 4 \in Bits /\ Power[n] = 16 * Power[n - 4]
  <2> SUFFICES ASSUME NEW n \in Bits, n >= 4 PROVE n - 4 \in Bits /\ Power[n] = 16 * Power[n - 4]
    OBVIOUS
  <2>1. n \in Int
    BY DEF Bits
  <2>2. (n - 1) - 1 = n - 2 /\ (n - 2) - 1 = n - 3 /\ (n - 3) - 1 = n - 4
    BY <2>1
  <2>3. n - 1 \in Bits /\ Power[n - 1] \in Nat /\ Power[n] = 2 * Power[n - 1]
    BY <1>2, <2>1
  <2>4. n - 2 \in Bits /\ Power[n - 2] \in Nat /\ Power[n - 1] = 2 * Power[n - 2]
    BY <1>2, <2>1, <2>2, <2>3
  <2>5. n - 3 \in Bits /\ Power[n - 3] \in Nat /\ Power[n - 2] = 2 * Power[n - 3]
    BY <1>2, <2>1, <2>2, <2>4
  <2>6. n - 4 \in Bits /\ Power[n - 4] \in Nat /\ Power[n - 3] = 2 * Power[n - 4]
    BY <1>2, <2>1, <2>2, <2>5
  <2> QED
    BY <2>3, <2>4, <2>5, <2>6
<1>5. \A n \in Bits : n >= 7 => n - 7 \in Bits /\ Power[n] = 128 * Power[n - 7]
  <2> SUFFICES ASSUME NEW n \in Bits, n >= 7 PROVE n - 7 \in Bits /\ Power[n] = 128 * Power[n - 7]
    OBVIOUS
  <2>1. n \in Int
    BY DEF Bits
  <2>2. (n - 4) - 1 = n - 5 /\ (n - 5) - 1 = n - 6 /\ (n - 6) - 1 = n - 7
    BY <2>1
  <2>3. n - 4 \in Bits /\ Power[n] = 16 * Power[n - 4]
    BY <1>4, <2>1
  <2>4. n - 5 \in Bits /\ Power[n - 5] \in Nat /\ Power[n - 4] = 2 * Power[n - 5]
    BY <1>2, <2>1, <2>2, <2>3
  <2>5. n - 6 \in Bits /\ Power[n - 6] \in Nat /\ Power[n - 5] = 2 * Power[n - 6]
    BY <1>2, <2>1, <2>2, <2>4
  <2>6. n - 7 \in Bits /\ Power[n - 7] \in Nat /\ Power[n - 6] = 2 * Power[n - 7]
    BY <1>2, <2>1, <2>2, <2>5
  <2> QED
    BY <2>3, <2>4, <2>5, <2>6
<1>6. \A n \in Bits : n \in 1..7 => Power[n] <= 128
  <2>1. \A n \in 0..7 : n \in Bits
    BY <1>1 DEF Bits
  <2> DEFINE Doubles(n, m) == Power[m] = 2 * Power[n]
  <2>5. \A m \in 1..7 : Doubles(m - 1, m)
    BY <1>2, <2>1
  <2>6. 1 - 1 = 0 /\ 2 - 1 = 1 /\ 3 - 1 = 2 /\ 4 - 1 = 3 /\ 5 - 1 = 4 /\ 6 - 1 = 5 /\ 7 - 1 = 6
    OBVIOUS
  <2>7. /\ Doubles(0, 1) /\ Doubles(1, 2) /\ Doubles(2, 3) /\ Doubles(3, 4)
        /\ Doubles(4, 5) /\ Doubles(5, 6) /\ Doubles(6, 7)
    <3>1. \A i \in {1, 2, 3, 4, 5, 6, 7} : i \in 1..7
      OBVIOUS
    <3> HIDE DEF Doubles
    <3> QED
      BY <2>5, <2>6, <3>1
  <2>2. Power[1] = 2 /\ Power[2] = 4 /\ Power[3] = 8 /\ Power[4] = 16
    BY <1>3, <2>7
  <2>3. Power[5] = 32 /\ Power[6] = 64 /\ Power[7] = 128
    BY <2>2, <2>7
  <2>4. \A n \in 1..7 : n = 1 \/ n = 2 \/ n = 3 \/ n = 4 \/ n = 5 \/ n = 6 \/ n = 7
    OBVIOUS
  <2> QED
    BY <2>2, <2>3, <2>4
<1>7. ValueBits \in Bits /\ FieldBits \in Bits
  BY <1>1 DEF Bits
<1>8. Power[ValueBits] >= 128
  <2>1. Power[ValueBits] = 128 * Power[ValueBits - 7] /\ ValueBits - 7 \in Bits
    BY <1>1, <1>5, <1>7
  <2>2. Power[ValueBits - 7] \in Nat /\ Power[ValueBits - 7] > 0
    BY <2>1, PowerIs
  <2> QED
    BY <2>1, <2>2
<1>9. Power[FieldBits] >= 16
  <2>1. Power[FieldBits] = 16 * Power[FieldBits - 4] /\ FieldBits - 4 \in Bits
    BY <1>1, <1>4, <1>7
  <2>2. Power[FieldBits - 4] \in Nat /\ Power[FieldBits - 4] > 0
    BY <2>1, PowerIs
  <2> QED
    BY <2>1, <2>2
<1> QED
  BY <1>5, <1>6, <1>7, <1>8, <1>9

\* The bytes of all numbers up to v: see WriteVarint.
VarintBytes(v) ==
  CHOOSE f : f = [n \in 0..v |-> IF n < 128 THEN <<n>> ELSE <<(n % 128) + 128>> \o f[n \div 128]]

LEMMA VarintBytesIs ==
  ASSUME NEW v \in Nat
  PROVE  \A n \in 0..v :
           /\ VarintBytes(v)[n] \in Seq(Byte)
           /\ VarintBytes(v)[n] = IF n < 128 THEN <<n>>
                                  ELSE <<(n % 128) + 128>> \o VarintBytes(v)[n \div 128]
<1> DEFINE D == 0..v
           ends == 0..127
           base == [n \in Nat |-> <<n>>]
           next == [n \in Nat |-> n \div 128]
           step == [n \in Nat |-> [s \in Seq(Byte) |-> <<(n % 128) + 128>> \o s]]
           measure == [n \in Nat |-> n]
           Is(f) == f = [n \in D |-> IF n < 128 THEN <<n>> ELSE <<(n % 128) + 128>> \o f[n \div 128]]
<1>0. D \subseteq Nat
  OBVIOUS
<1>1. \A n \in Nat : n \in ends <=> n < 128
  OBVIOUS
<1>2. \A n \in D \ ends : n \div 128 \in D /\ n \div 128 < n
  OBVIOUS
<1>9. Descends(D, ends, next, measure)
  BY <1>0, <1>2 DEF Descends
<1>3. PICK f \in [D -> Seq(Byte)] : Solves(f, D, Seq(Byte), ends, base, next, step)
  <2>1. \A d \in D : measure[d] <= v
    OBVIOUS
  <2>3. \A d \in D \cap ends : base[d] \in Seq(Byte)
    BY <1>0, <1>1 DEF Byte
  <2>4. \A d \in D \ ends : step[d] \in [Seq(Byte) -> Seq(Byte)]
    <3> SUFFICES ASSUME NEW d \in Nat, NEW s \in Seq(Byte)
                 PROVE  <<(d % 128) + 128>> \o s \in Seq(Byte)
      BY <1>0
    <3>1. (d % 128) + 128 \in Byte
      BY DEF Byte
    <3>2. <<(d % 128) + 128>> \in Seq(Byte)
      BY <3>1
    <3> QED
      BY <3>2, ConcatProperties
  <2> HIDE DEF D, ends, base, next, step, measure
  <2> QED
    BY <1>9, <2>1, <2>3, <2>4, RecursionExists
<1>4. \A n \in D : /\ f[n] \in Seq(Byte)
                   /\ f[n] = IF n < 128 THEN <<n>> ELSE <<(n % 128) + 128>> \o f[n \div 128]
  <2> SUFFICES ASSUME NEW n \in D
               PROVE  /\ f[n] \in Seq(Byte)
                      /\ f[n] = IF n < 128 THEN <<n>> ELSE <<(n % 128) + 128>> \o f[n \div 128]
    OBVIOUS
  <2>1. f[n] \in Seq(Byte) /\ f[n] = IF n \in ends THEN base[n] ELSE step[n][f[next[n]]]
    BY <1>3 DEF Solves
  <2>2. CASE n < 128
    BY <1>0, <1>1, <2>1, <2>2
  <2>3. CASE ~(n < 128)
    <3>1. n \notin ends /\ next[n] = n \div 128 /\ n \div 128 \in D
      BY <1>0, <1>1, <1>2, <2>3
    <3>2. f[n \div 128] \in Seq(Byte)
      BY <1>3, <3>1
    <3> QED
      BY <1>0, <2>1, <2>3, <3>1, <3>2
  <2> QED
    BY <2>2, <2>3
<1>5. Is(f)
  BY <1>4
<1>6. Is(VarintBytes(v))
  <2>1. VarintBytes(v) = CHOOSE h : Is(h)
    BY DEF VarintBytes
  <2> QED
    BY <1>5, <2>1
<1>7. \A n \in D : VarintBytes(v)[n] = IF n < 128 THEN <<n>>
                     ELSE <<(n % 128) + 128>> \o VarintBytes(v)[n \div 128]
  <2> DEFINE F == [n \in D |-> IF n < 128 THEN <<n>>
                     ELSE <<(n % 128) + 128>> \o VarintBytes(v)[n \div 128]]
  <2>1. \A n \in D : F[n] = IF n < 128 THEN <<n>>
                     ELSE <<(n % 128) + 128>> \o VarintBytes(v)[n \div 128]
    OBVIOUS
  <2>2. VarintBytes(v) = F
    BY <1>6
  <2> QED
    BY <2>1, <2>2
<1>8. \A n \in D : VarintBytes(v)[n] \in Seq(Byte)
  <2> DEFINE S == {n \in D : VarintBytes(v)[n] \in Seq(Byte)}
  <2>1. \A n \in D : n \in ends => n \in S
    <3> SUFFICES ASSUME NEW n \in D, n \in ends PROVE VarintBytes(v)[n] \in Seq(Byte)
      OBVIOUS
    <3>1. n \in Byte
      BY DEF Byte
    <3>2. VarintBytes(v)[n] = <<n>>
      BY <1>0, <1>1, <1>7
    <3> QED
      BY <3>1, <3>2
  <2>2. \A n \in D : n \notin ends /\ next[n] \in D /\ next[n] \in S => n \in S
    <3> SUFFICES ASSUME NEW n \in D, n \notin ends, VarintBytes(v)[n \div 128] \in Seq(Byte)
                 PROVE  VarintBytes(v)[n] \in Seq(Byte)
      BY <1>0
    <3>1. <<(n % 128) + 128>> \in Seq(Byte)
      <4>1. (n % 128) + 128 \in Byte
        BY <1>0 DEF Byte
      <4> QED
        BY <4>1
    <3>2. VarintBytes(v)[n] = <<(n % 128) + 128>> \o VarintBytes(v)[n \div 128]
      BY <1>0, <1>1, <1>7
    <3> QED
      BY <3>1, <3>2, ConcatProperties
  <2>3. D \subseteq S
    <3> HIDE DEF D, S, ends, next, measure
    <3> QED
      BY <1>9, <2>1, <2>2, DescentInduction
  <2> QED
    BY <2>3
<1> QED
  BY <1>7, <1>8

\* A varint is its low seven bits and that of the rest.
LEMMA WriteVarintIs ==
  ASSUME NEW v \in Nat
  PROVE  /\ WriteVarint(v) \in Seq(Byte)
         /\ WriteVarint(v) = IF v < 128 THEN <<v>>
                             ELSE <<(v % 128) + 128>> \o WriteVarint(v \div 128)
<1>1. \A w \in Nat : WriteVarint(w) = VarintBytes(w)[w]
  BY DEF WriteVarint, VarintBytes
<1>2. /\ WriteVarint(v) \in Seq(Byte)
      /\ WriteVarint(v) = IF v < 128 THEN <<v>>
                          ELSE <<(v % 128) + 128>> \o VarintBytes(v)[v \div 128]
  <2>1. v \in 0..v
    OBVIOUS
  <2> QED
    BY <1>1, <2>1, VarintBytesIs
<1>3. CASE v < 128
  BY <1>2, <1>3
<1>4. CASE ~(v < 128)
  <2> DEFINE w == v \div 128
             D == 0..w
             ends == 0..127
             base == [n \in Nat |-> <<n>>]
             next == [n \in Nat |-> n \div 128]
             step == [n \in Nat |-> [s \in Seq(Byte) |-> <<(n % 128) + 128>> \o s]]
             measure == [n \in Nat |-> n]
  <2>1. w \in Nat /\ w < v /\ D \subseteq 0..v
    BY <1>4
  <2>2. \A u \in Nat : Follows(VarintBytes(u), 0..u, ends, base, next, step)
    <3> SUFFICES ASSUME NEW u \in Nat, NEW n \in 0..u
                 PROVE  VarintBytes(u)[n] = IF n \in ends THEN base[n]
                                            ELSE step[n][VarintBytes(u)[next[n]]]
      BY DEF Follows
    <3>1. n \in Nat /\ n \div 128 \in 0..u
      OBVIOUS
    <3>2. VarintBytes(u)[n \div 128] \in Seq(Byte)
      BY <3>1, VarintBytesIs
    <3>3. VarintBytes(u)[n] = IF n < 128 THEN <<n>>
                              ELSE <<(n % 128) + 128>> \o VarintBytes(u)[n \div 128]
      BY VarintBytesIs
    <3>4. (n < 128 <=> n \in ends) /\ base[n] = <<n>> /\ next[n] = n \div 128
      BY <3>1
    <3>5. step[n][VarintBytes(u)[n \div 128]]
          = <<(n % 128) + 128>> \o VarintBytes(u)[n \div 128]
      BY <3>1, <3>2
    <3> HIDE DEF ends, base, next, step
    <3> QED
      BY <3>3, <3>4, <3>5
  <2>3. Descends(D, ends, next, measure)
    <3> SUFFICES ASSUME NEW d \in D
                 PROVE  /\ measure[d] \in Nat
                        /\ d \notin ends => next[d] \in D /\ measure[next[d]] < measure[d]
      BY DEF Descends
    <3>1. d \in Nat /\ d <= w
      BY <2>1
    <3>2. d \notin ends => d \div 128 \in Nat /\ d \div 128 < d
      BY <3>1
    <3> QED
      BY <2>1, <3>1, <3>2
  <2>5. \A d \in D : VarintBytes(v)[d] = VarintBytes(w)[d]
    <3>1. Follows(VarintBytes(w), D, ends, base, next, step)
      BY <2>1, <2>2
    <3>2. Follows(VarintBytes(v), D, ends, base, next, step)
      <4>1. Follows(VarintBytes(v), 0..v, ends, base, next, step)
        BY <2>2
      <4> HIDE DEF D, ends, base, next, step
      <4> QED
        BY <2>1, <4>1 DEF Follows
    <3> HIDE DEF D, w, ends, base, next, step, measure
    <3> QED
      BY <2>3, <3>1, <3>2, RecursionUnique
  <2>6. VarintBytes(v)[w] = WriteVarint(w)
    <3>1. w \in D
      BY <2>1
    <3> HIDE DEF D, w
    <3> QED
      BY <1>1, <2>1, <2>5, <3>1
  <2> QED
    BY <1>2, <1>4, <2>6
<1> QED
  BY <1>3, <1>4

\* What the bytes after the i-th are worth, of a varint that has no width.
Sevens(bytes) ==
  CHOOSE f : f = [i \in 0..Len(bytes) |->
    IF i = Len(bytes) THEN 0 ELSE (128 * f[i + 1]) + (bytes[i + 1] % 128)]

LEMMA SevensIs ==
  ASSUME NEW bytes \in Seq(Byte)
  PROVE  /\ VarintValue(bytes) = Sevens(bytes)[0] % Power[ValueBits]
         /\ \A i \in 0..Len(bytes) :
              /\ Sevens(bytes)[i] \in Nat
              /\ Sevens(bytes)[i] = IF i = Len(bytes) THEN 0
                                    ELSE (128 * Sevens(bytes)[i + 1]) + (bytes[i + 1] % 128)
<1> DEFINE n == Len(bytes)
           D == 0..n
           ends == {n}
           base == [i \in D |-> 0]
           next == [i \in D |-> i + 1]
           step == [i \in D |-> [k \in Nat |-> (128 * k) + (bytes[i + 1] % 128)]]
           measure == [i \in D |-> n - i]
           Is(f) == f = [i \in D |-> IF i = n THEN 0 ELSE (128 * f[i + 1]) + (bytes[i + 1] % 128)]
<1>1. n \in Nat /\ \A i \in D \ ends : bytes[i + 1] \in Nat
  <2>1. n \in Nat /\ \A k \in 1..n : bytes[k] \in Nat
    <3>1. n \in Nat /\ \A k \in 1..n : bytes[k] \in Byte
      BY ElementOfSeq
    <3>2. \A k \in Byte : k \in Nat
      BY DEF Byte
    <3> QED
      BY <3>1, <3>2
  <2>2. \A i \in D \ ends : i + 1 \in 1..n
    BY <2>1
  <2> HIDE DEF D, n
  <2> QED
    BY <2>1, <2>2
<1>8. Descends(D, ends, next, measure)
  BY <1>1 DEF Descends
<1>2. PICK f \in [D -> Nat] : Solves(f, D, Nat, ends, base, next, step)
  <2>1. \A d \in D : measure[d] <= n
    BY <1>1
  <2>3. \A d \in D \cap ends : base[d] \in Nat
    OBVIOUS
  <2>4. \A d \in D \ ends : step[d] \in [Nat -> Nat]
    <3> SUFFICES ASSUME NEW d \in D \ ends, NEW k \in Nat
                 PROVE  (128 * k) + (bytes[d + 1] % 128) \in Nat
      OBVIOUS
    <3>1. bytes[d + 1] \in Nat
      BY <1>1
    <3> HIDE DEF D, n
    <3> QED
      BY <3>1
  <2> HIDE DEF D, n, ends, base, next, step, measure
  <2> QED
    BY <1>1, <1>8, <2>1, <2>3, <2>4, RecursionExists
<1>3. \A i \in D : /\ f[i] \in Nat
                   /\ f[i] = IF i = n THEN 0 ELSE (128 * f[i + 1]) + (bytes[i + 1] % 128)
  <2> SUFFICES ASSUME NEW i \in D
               PROVE  /\ f[i] \in Nat
                      /\ f[i] = IF i = n THEN 0 ELSE (128 * f[i + 1]) + (bytes[i + 1] % 128)
    OBVIOUS
  <2>1. f[i] \in Nat /\ f[i] = IF i \in ends THEN base[i] ELSE step[i][f[next[i]]]
    BY <1>2 DEF Solves
  <2>2. i # n => i + 1 \in D
    BY <1>1
  <2>3. i # n => f[i + 1] \in Nat
    BY <1>2, <2>2
  <2> HIDE DEF D, n
  <2> QED
    BY <2>1, <2>3
<1>4. Is(f)
  <2> HIDE DEF D, n
  <2> QED
    BY <1>2, <1>3
<1>5. Is(Sevens(bytes))
  <2>1. Sevens(bytes) = CHOOSE h : Is(h)
    BY DEF Sevens
  <2> HIDE DEF Is
  <2> QED
    BY <1>4, <2>1
<1>6. VarintValue(bytes) = Sevens(bytes)[0] % Power[ValueBits]
  BY DEF VarintValue, Sevens
<1>7. \A i \in D : Sevens(bytes)[i] = IF i = n THEN 0
                     ELSE (128 * Sevens(bytes)[i + 1]) + (bytes[i + 1] % 128)
  <2> DEFINE F == [i \in D |-> IF i = n THEN 0
                     ELSE (128 * Sevens(bytes)[i + 1]) + (bytes[i + 1] % 128)]
  <2>1. \A i \in D : F[i] = IF i = n THEN 0
                     ELSE (128 * Sevens(bytes)[i + 1]) + (bytes[i + 1] % 128)
    OBVIOUS
  <2>2. Sevens(bytes) = F
    BY <1>5
  <2> HIDE DEF D, n, F
  <2> QED
    BY <2>1, <2>2
<1>9. \A i \in D : Sevens(bytes)[i] \in Nat
  <2> DEFINE S == {i \in D : Sevens(bytes)[i] \in Nat}
  <2>1. \A i \in D : i \in ends => i \in S
    <3> HIDE DEF D, n
    <3> QED
      BY <1>7
  <2>2. \A i \in D : i \notin ends /\ next[i] \in D /\ next[i] \in S => i \in S
    <3> SUFFICES ASSUME NEW i \in D \ ends, Sevens(bytes)[i + 1] \in Nat
                 PROVE  Sevens(bytes)[i] \in Nat
      <4> HIDE DEF D, n
      <4> QED
        OBVIOUS
    <3>1. bytes[i + 1] \in Nat
      BY <1>1
    <3> HIDE DEF D, n
    <3> QED
      BY <1>7, <3>1
  <2>3. D \subseteq S
    <3> HIDE DEF D, S, ends, next, measure
    <3> QED
      BY <1>8, <2>1, <2>2, DescentInduction
  <2> QED
    BY <2>3
<1> QED
  BY <1>6, <1>7, <1>9

LEMMA SevensFirst ==
  /\ \A b \in Byte : Sevens(<<b>>)[0] = b % 128
  /\ \A b \in Byte, s \in Seq(Byte) :
       Sevens(<<b>> \o s)[0] = (128 * Sevens(s)[0]) + (b % 128)
<1>1. ASSUME NEW b \in Byte
      PROVE  Sevens(<<b>>)[0] = b % 128
  <2> DEFINE t == <<b>>
  <2>1. t \in Seq(Byte) /\ Len(t) = 1 /\ t[1] = b /\ b \in Nat
    BY DEF Byte
  <2> HIDE DEF t
  <2>2. Sevens(t)[1] = 0
    <3>1. 1 \in 0..Len(t)
      BY <2>1
    <3> QED
      BY <2>1, <3>1, SevensIs
  <2>3. Sevens(t)[0] = (128 * Sevens(t)[0 + 1]) + (t[0 + 1] % 128)
    <3>1. 0 \in 0..Len(t) /\ 0 # Len(t)
      BY <2>1
    <3> QED
      BY <2>1, <3>1, SevensIs
  <2>4. Sevens(t)[0] = b % 128
    BY <2>1, <2>2, <2>3
  <2> QED
    BY <2>4 DEF t
<1>2. ASSUME NEW b \in Byte, NEW s \in Seq(Byte)
      PROVE  Sevens(<<b>> \o s)[0] = (128 * Sevens(s)[0]) + (b % 128)
  <2> DEFINE t == <<b>> \o s
             D == 0..Len(s)
             ends == {Len(s)}
             next == [i \in D |-> i + 1]
             measure == [i \in D |-> Len(s) - i]
             S == {i \in D : Sevens(t)[i + 1] = Sevens(s)[i]}
  <2>1. t \in Seq(Byte) /\ Len(t) = Len(s) + 1 /\ Len(s) \in Nat
    BY ConcatProperties
  <2>2. t[1] = b /\ \A i \in 1..Len(s) : t[i + 1] = s[i]
    <3>1. \A i \in 1..Len(s) : i + 1 \in 1..Len(t) /\ ~(i + 1 <= 1) /\ (i + 1) - 1 = i
      BY <2>1
    <3>2. Len(<<b>>) = 1 /\ <<b>>[1] = b /\ <<b>> \in Seq(Byte)
      OBVIOUS
    <3>3. \A i \in 1..Len(t) : t[i] = IF i <= 1 THEN <<b>>[i] ELSE s[i - 1]
      BY <2>1, <3>2, ConcatProperties
    <3> HIDE DEF t
    <3> QED
      BY <2>1, <3>1, <3>2, <3>3
  <2>3. Descends(D, ends, next, measure)
    BY <2>1 DEF Descends
  <2>4. \A i \in D : i \in ends => i \in S
    <3>1. Sevens(t)[Len(s) + 1] = 0 /\ Sevens(s)[Len(s)] = 0
      <4> HIDE DEF t
      <4> QED
        BY <2>1, SevensIs
    <3> HIDE DEF t
    <3> QED
      BY <3>1
  <2>5. \A i \in D : i \notin ends /\ next[i] \in D /\ next[i] \in S => i \in S
    <3> SUFFICES ASSUME NEW i \in D \ ends, Sevens(t)[(i + 1) + 1] = Sevens(s)[i + 1]
                 PROVE  Sevens(t)[i + 1] = Sevens(s)[i]
      <4> HIDE DEF t
      <4> QED
        OBVIOUS
    <3> HIDE DEF t
    <3>1. i + 1 \in 0..Len(t) /\ i + 1 # Len(t) /\ i + 1 \in 1..Len(s) /\ i # Len(s)
      BY <2>1
    <3>2. t[(i + 1) + 1] = s[i + 1]
      BY <2>2, <3>1
    <3>3. Sevens(t)[i + 1] = (128 * Sevens(t)[(i + 1) + 1]) + (t[(i + 1) + 1] % 128)
      BY <2>1, <3>1, SevensIs
    <3>4. Sevens(s)[i] = (128 * Sevens(s)[i + 1]) + (s[i + 1] % 128)
      BY <3>1, SevensIs
    <3> QED
      BY <3>2, <3>3, <3>4
  <2>6. D \subseteq S
    <3> HIDE DEF D, S, ends, next, measure
    <3> QED
      BY <2>3, <2>4, <2>5, DescentInduction
  <2> HIDE DEF t
  <2>7. 0 \in D /\ 0 \in 0..Len(t) /\ 0 # Len(t)
    BY <2>1
  <2>8. Sevens(t)[0 + 1] = Sevens(s)[0]
    BY <2>6, <2>7
  <2>9. Sevens(t)[0] = (128 * Sevens(t)[0 + 1]) + (t[0 + 1] % 128)
    BY <2>1, <2>7, SevensIs
  <2>10. Sevens(t)[0] = (128 * Sevens(s)[0]) + (b % 128)
    BY <2>2, <2>8, <2>9
  <2> QED
    BY <2>10 DEF t
<1> QED
  BY <1>1, <1>2

\* The bytes w are the varint v: only the last of them says that there are no more.
IsVarint(w, v) ==
  /\ w \in Seq(Byte) /\ Len(w) \in Nat \ {0}
  /\ w[Len(w)] < 128 /\ \A i \in 1..(Len(w) - 1) : w[i] >= 128
  /\ Sevens(w)[0] = v

\* As many bytes are written as a reader of n bits looks at.
Short(w, v) == \A n \in Bits : n >= 1 /\ v < Power[n] => 7 * (Len(w) - 1) < n

LEMMA VarintOfOne ==
  ASSUME NEW v \in Nat, v < 128
  PROVE  WriteVarint(v) = <<v>> /\ IsVarint(<<v>>, v) /\ Short(<<v>>, v)
<1>1. v \in Byte /\ v % 128 = v
  BY DEF Byte
<1>2. WriteVarint(v) = <<v>>
  BY WriteVarintIs
<1>3. Len(<<v>>) = 1 /\ <<v>>[1] = v /\ <<v>> \in Seq(Byte)
  BY <1>1
<1>4. Sevens(<<v>>)[0] = v
  BY <1>1, SevensFirst
<1>5. \A n \in Bits : n \in Int
  BY CodecAssumption DEF Bits
<1> QED
  BY <1>2, <1>3, <1>4, <1>5 DEF IsVarint, Short

LEMMA VarintOfMore ==
  ASSUME NEW v \in Nat, v >= 128, NEW w,
         IsVarint(w, v \div 128), Short(w, v \div 128)
  PROVE  /\ IsVarint(<<(v % 128) + 128>> \o w, v)
         /\ Short(<<(v % 128) + 128>> \o w, v)
<1> DEFINE b == (v % 128) + 128
           t == <<b>> \o w
<1>1. b \in Byte /\ b >= 128 /\ b % 128 = v % 128
  BY DEF Byte
<1>2. w \in Seq(Byte) /\ Len(w) \in Nat \ {0}
  BY DEF IsVarint
<1>3. <<b>> \in Seq(Byte) /\ Len(<<b>>) = 1 /\ <<b>>[1] = b
  BY <1>1
<1>4. t \in Seq(Byte) /\ Len(t) = Len(w) + 1
  BY <1>2, <1>3, ConcatProperties
<1>5. t[1] = b /\ \A i \in 2..Len(t) : t[i] = w[i - 1]
  <2> HIDE DEF b
  <2>1. \A i \in 1..Len(t) : t[i] = IF i <= 1 THEN <<b>>[i] ELSE w[i - 1]
    BY <1>2, <1>3, <1>4, ConcatProperties
  <2> HIDE DEF t
  <2> QED
    BY <1>2, <1>3, <1>4, <2>1
<1>6. Sevens(t)[0] = v
  <2>1. Sevens(t)[0] = (128 * Sevens(w)[0]) + (b % 128)
    <3> HIDE DEF b
    <3> QED
      BY <1>1, <1>2, SevensFirst
  <2>2. Sevens(w)[0] = v \div 128
    BY DEF IsVarint
  <2> HIDE DEF t, b
  <2> QED
    BY <1>1, <2>1, <2>2
<1>7. t[Len(t)] < 128 /\ \A i \in 1..(Len(t) - 1) : t[i] >= 128
  <2>1. w[Len(w)] < 128 /\ \A i \in 1..(Len(w) - 1) : w[i] >= 128
    BY DEF IsVarint
  <2> HIDE DEF t, b
  <2>2. t[Len(t)] = w[Len(w)]
    BY <1>2, <1>4, <1>5
  <2>3. ASSUME NEW i \in 1..(Len(t) - 1) PROVE t[i] >= 128
    <3>1. CASE i = 1
      BY <1>1, <1>5, <3>1
    <3>2. CASE i # 1
      <4>1. i \in 2..Len(t) /\ i - 1 \in 1..(Len(w) - 1)
        BY <1>2, <1>4, <3>2
      <4> QED
        BY <1>5, <2>1, <4>1
    <3> QED
      BY <3>1, <3>2
  <2> QED
    BY <2>1, <2>2, <2>3
<1>8. Short(t, v)
  <2> SUFFICES ASSUME NEW n \in Bits, n >= 1, v < Power[n] PROVE 7 * (Len(t) - 1) < n
    BY DEF Short
  <2>1. n \in Nat /\ Power[n] \in Nat
    BY PowerIs, CodecAssumption DEF Bits
  <2>2. n \notin 1..7
    BY <2>1, PowerGrows
  <2>3. n >= 8
    BY <2>1, <2>2
  <2>4. n - 7 \in Bits /\ Power[n] = 128 * Power[n - 7] /\ Power[n - 7] \in Nat
    BY <2>1, <2>3, PowerGrows, PowerIs
  <2>5. v \div 128 < Power[n - 7]
    BY <2>1, <2>4
  <2>6. 7 * (Len(w) - 1) < n - 7
    BY <2>1, <2>3, <2>4, <2>5 DEF Short
  <2> HIDE DEF t
  <2> QED
    BY <1>2, <1>4, <2>1, <2>6
<1> QED
  BY <1>2, <1>4, <1>6, <1>7, <1>8 DEF IsVarint

LEMMA VarintIsWritten ==
  ASSUME NEW v \in Nat
  PROVE  IsVarint(WriteVarint(v), v) /\ Short(WriteVarint(v), v)
<1> DEFINE ends == 0..127
           next == [n \in Nat |-> n \div 128]
           measure == [n \in Nat |-> n]
           S == {n \in Nat : IsVarint(WriteVarint(n), n) /\ Short(WriteVarint(n), n)}
<1>1. Descends(Nat, ends, next, measure)
  <2> SUFFICES ASSUME NEW n \in Nat
               PROVE  /\ n \in Nat
                      /\ n \notin 0..127 => n \div 128 \in Nat /\ n \div 128 < n
    BY DEF Descends
  <2> QED
    OBVIOUS
<1>2. \A n \in Nat : n \in ends => n \in S
  <2> SUFFICES ASSUME NEW n \in Nat, n < 128
               PROVE  IsVarint(WriteVarint(n), n) /\ Short(WriteVarint(n), n)
    OBVIOUS
  <2> QED
    BY VarintOfOne
<1>3. \A n \in Nat : n \notin ends /\ next[n] \in Nat /\ next[n] \in S => n \in S
  <2> SUFFICES ASSUME NEW n \in Nat, n >= 128,
                      IsVarint(WriteVarint(n \div 128), n \div 128),
                      Short(WriteVarint(n \div 128), n \div 128)
               PROVE  IsVarint(WriteVarint(n), n) /\ Short(WriteVarint(n), n)
    OBVIOUS
  <2>1. WriteVarint(n) = <<(n % 128) + 128>> \o WriteVarint(n \div 128)
    BY WriteVarintIs
  <2> QED
    BY <2>1, VarintOfMore
<1>4. Nat \subseteq S
  <2> HIDE DEF ends, next, measure, S
  <2> QED
    BY <1>1, <1>2, <1>3, DescentInduction
<1> QED
  BY <1>4

-------------------------------------------------------------------------------
(* Reading what was written *)

\* The bytes w stand in data, from the one after the c-th on.
At(data, c, w) ==
  /\ data \in Seq(Byte) /\ w \in Seq(Byte) /\ c \in Nat /\ c + Len(w) <= Len(data)
  /\ \A i \in 1..Len(w) : data[c + i] = w[i]

LEMMA AtParts ==
  ASSUME NEW data, NEW c, NEW u \in Seq(Byte), NEW w \in Seq(Byte), At(data, c, u \o w)
  PROVE  At(data, c, u) /\ At(data, c + Len(u), w)
<1> DEFINE t == u \o w
<1>1. /\ t \in Seq(Byte) /\ Len(t) = Len(u) + Len(w)
      /\ \A i \in 1..(Len(u) + Len(w)) : t[i] = IF i <= Len(u) THEN u[i] ELSE w[i - Len(u)]
  BY ConcatProperties
<1>2. /\ data \in Seq(Byte) /\ c \in Nat /\ c + Len(t) <= Len(data)
      /\ \A i \in 1..Len(t) : data[c + i] = t[i]
  BY DEF At
<1> HIDE DEF t
<1>3. Len(u) \in Nat /\ Len(w) \in Nat /\ Len(data) \in Nat
  BY <1>2
<1>4. \A i \in 1..Len(u) : data[c + i] = u[i]
  BY <1>1, <1>2, <1>3
<1>5. ASSUME NEW i \in 1..Len(w) PROVE data[(c + Len(u)) + i] = w[i]
  <2>1. Len(u) + i \in 1..Len(t) /\ ~(Len(u) + i <= Len(u)) /\ (Len(u) + i) - Len(u) = i
    BY <1>1, <1>3
  <2>2. c + (Len(u) + i) = (c + Len(u)) + i
    BY <1>2, <1>3
  <2>3. data[c + (Len(u) + i)] = t[Len(u) + i] /\ t[Len(u) + i] = w[i]
    BY <1>1, <1>2, <2>1
  <2> QED
    BY <2>2, <2>3
<1>6. c + Len(u) <= Len(data) /\ (c + Len(u)) + Len(w) <= Len(data) /\ c + Len(u) \in Nat
  BY <1>1, <1>2, <1>3
<1> QED
  BY <1>2, <1>4, <1>5, <1>6 DEF At

LEMMA AtIsSubSeq ==
  ASSUME NEW data, NEW c, NEW w, At(data, c, w)
  PROVE  SubSeq(data, c + 1, c + Len(w)) = w
<1> DEFINE t == SubSeq(data, c + 1, c + Len(w))
<1>1. /\ data \in Seq(Byte) /\ w \in Seq(Byte) /\ c \in Nat /\ c + Len(w) <= Len(data)
      /\ \A i \in 1..Len(w) : data[c + i] = w[i]
  BY DEF At
<1>2. Len(w) \in Nat /\ Len(data) \in Nat /\ c + 1 \in Int /\ c + Len(w) \in Int
  BY <1>1
<1>3. \A i \in (c + 1)..(c + Len(w)) : data[i] \in Byte
  <2>1. \A i \in (c + 1)..(c + Len(w)) : i \in 1..Len(data)
    BY <1>1, <1>2
  <2> QED
    BY <1>1, <2>1, ElementOfSeq
<1>4. /\ t \in Seq(Byte)
      /\ Len(t) = IF c + 1 <= c + Len(w) THEN (c + Len(w)) - (c + 1) + 1 ELSE 0
      /\ \A i \in 1..((c + Len(w)) - (c + 1) + 1) : t[i] = data[(c + 1) + i - 1]
  BY <1>2, <1>3, SubSeqProperties
<1> HIDE DEF t
<1>5. Len(t) = Len(w)
  BY <1>1, <1>2, <1>4
<1>6. ASSUME NEW i \in 1..Len(t) PROVE t[i] = w[i]
  <2>1. i \in 1..((c + Len(w)) - (c + 1) + 1) /\ (c + 1) + i - 1 = c + i /\ i \in 1..Len(w)
    BY <1>1, <1>2, <1>5
  <2> QED
    BY <1>1, <1>4, <2>1
<1>7. t = w
  BY <1>1, <1>4, <1>5, <1>6, SeqEqual
<1> QED
  BY <1>7 DEF t

LEMMA LeastOfOne ==
  ASSUME NEW e \in Nat
  PROVE  Min({e}) = e /\ Max({e}) = e
<1>1. \E x \in {e} : \A y \in {e} : x <= y
  OBVIOUS
<1>2. \E x \in {e} : \A y \in {e} : x >= y
  OBVIOUS
<1> QED
  BY <1>1, <1>2 DEF Min, Max

LEMMA ReadVarintBack ==
  ASSUME NEW data, NEW c, NEW w, NEW v \in Nat, v < Power[ValueBits],
         At(data, c, w), IsVarint(w, v), Short(w, v)
  PROVE  ReadVarint(data, c) = Read(c + Len(w), v)
<1> DEFINE end == c + Len(w)
<1>1. /\ data \in Seq(Byte) /\ c \in Nat /\ c + Len(w) <= Len(data) /\ Len(data) \in Nat
      /\ \A i \in 1..Len(w) : data[c + i] = w[i]
  BY DEF At
<1>2. /\ w \in Seq(Byte) /\ Len(w) \in Nat \ {0} /\ Sevens(w)[0] = v
      /\ w[Len(w)] < 128 /\ \A i \in 1..(Len(w) - 1) : w[i] >= 128
  BY DEF IsVarint
<1>3. 7 * (Len(w) - 1) < ValueBits /\ ValueBits \in Nat
  <2>1. ValueBits \in Bits /\ ValueBits >= 1 /\ ValueBits \in Nat
    BY PowerGrows, CodecAssumption
  <2> QED
    BY <2>1 DEF Short
<1>4. data[end] < 128 /\ \A i \in (c + 1)..(end - 1) : data[i] >= 128
  <2>1. data[end] = w[Len(w)]
    BY <1>1, <1>2
  <2>2. ASSUME NEW i \in (c + 1)..(end - 1) PROVE data[i] >= 128
    <3>1. i - c \in 1..(Len(w) - 1) /\ i - c \in 1..Len(w) /\ c + (i - c) = i
      BY <1>1, <1>2
    <3> QED
      BY <1>1, <1>2, <3>1
  <2> QED
    BY <1>2, <2>1, <2>2
<1>5. end \in VarintEnds(data, c)
  <2>1. end \in (c + 1)..Len(data) /\ end - c - 1 = Len(w) - 1
    BY <1>1, <1>2
  <2> HIDE DEF end
  <2> QED
    BY <1>3, <1>4, <2>1 DEF VarintEnds
<1>6. \A e \in VarintEnds(data, c) : e = end
  <2> SUFFICES ASSUME NEW e \in VarintEnds(data, c) PROVE e = end
    OBVIOUS
  <2>1. /\ e \in (c + 1)..Len(data) /\ data[e] < 128
        /\ \A j \in (c + 1)..(e - 1) : data[j] >= 128
    BY DEF VarintEnds
  <2>2. end \in Nat /\ end >= c + 1 /\ e \in Nat
    BY <1>1, <1>2, <2>1
  <2>3. /\ \A j \in (c + 1)..Len(data) : data[j] \in Nat
        /\ end \in (c + 1)..Len(data)
    <3>1. \A j \in (c + 1)..Len(data) : j \in 1..Len(data)
      BY <1>1
    <3>2. \A j \in (c + 1)..Len(data) : data[j] \in Byte
      BY <1>1, <3>1, ElementOfSeq
    <3>3. \A j \in (c + 1)..Len(data) : data[j] \in Nat
      <4>1. \A b \in Byte : b \in Nat
        BY DEF Byte
      <4> QED
        BY <3>2, <4>1
    <3>4. end \in (c + 1)..Len(data)
      BY <1>1, <1>2
    <3> QED
      BY <3>3, <3>4
  <2> HIDE DEF end
  <2>4. ~(e < end)
    <3>1. e < end => e \in (c + 1)..(end - 1)
      BY <1>1, <2>1, <2>2
    <3> QED
      BY <1>4, <2>1, <2>3, <3>1
  <2>5. ~(end < e)
    <3>1. end < e => end \in (c + 1)..(e - 1)
      BY <1>1, <2>1, <2>2
    <3> QED
      BY <1>4, <2>1, <2>3, <3>1
  <2> QED
    BY <2>2, <2>4, <2>5
<1>7. VarintEnds(data, c) = {end} /\ end \in Nat
  <2>1. end \in Nat
    BY <1>1, <1>2
  <2> HIDE DEF end
  <2> QED
    BY <1>5, <1>6, <2>1
<1>8. Min(VarintEnds(data, c)) = end /\ VarintEnds(data, c) # {}
  BY <1>7, LeastOfOne
<1>9. SubSeq(data, c + 1, end) = w
  BY AtIsSubSeq
<1>10. VarintValue(w) = v
  <2>1. VarintValue(w) = v % Power[ValueBits]
    BY <1>2, SevensIs
  <2>2. Power[ValueBits] \in Nat /\ Power[ValueBits] > 0
    BY PowerIs, PowerGrows
  <2> QED
    BY <2>1, <2>2
<1> HIDE DEF end
<1>11. ReadVarint(data, c) = Read(end, v)
  BY <1>8, <1>9, <1>10 DEF ReadVarint
<1> QED
  BY <1>11 DEF end

\* What a field of either wire type is written as.
LEMMA WritesAre ==
  ASSUME NEW field \in Nat
  PROVE  /\ \A wire \in {Varint, Delimited} :
              WriteKey(field, wire) \in Seq(Byte) /\ Len(WriteKey(field, wire)) \in Nat \ {0}
         /\ \A text \in Seq(Byte) :
              /\ WriteVarint(Len(text)) \in Seq(Byte)
              /\ WriteVarint(Len(text)) \o text \in Seq(Byte)
              /\ WriteString(field, text)
                   = WriteKey(field, Delimited) \o (WriteVarint(Len(text)) \o text)
              /\ WriteString(field, text) \in Seq(Byte)
              /\ Len(WriteString(field, text)) = Len(WriteKey(field, Delimited))
                                                 + (Len(WriteVarint(Len(text))) + Len(text))
         /\ \A n \in Nat :
              /\ WriteVarint(n) \in Seq(Byte)
              /\ WriteNumber(field, n) = WriteKey(field, Varint) \o WriteVarint(n)
              /\ WriteNumber(field, n) \in Seq(Byte)
              /\ Len(WriteNumber(field, n)) = Len(WriteKey(field, Varint)) + Len(WriteVarint(n))
<1>1. \A n \in Nat : WriteVarint(n) \in Seq(Byte) /\ Len(WriteVarint(n)) \in Nat \ {0}
  BY VarintIsWritten DEF IsVarint
<1>2. \A wire \in {Varint, Delimited} :
        WriteKey(field, wire) \in Seq(Byte) /\ Len(WriteKey(field, wire)) \in Nat \ {0}
  <2>1. \A wire \in {Varint, Delimited} : (8 * field) + wire \in Nat
    BY DEF Varint, Delimited
  <2> QED
    BY <1>1, <2>1 DEF WriteKey
<1>3. ASSUME NEW text \in Seq(Byte)
      PROVE  /\ WriteVarint(Len(text)) \in Seq(Byte)
             /\ WriteVarint(Len(text)) \o text \in Seq(Byte)
             /\ WriteString(field, text)
                  = WriteKey(field, Delimited) \o (WriteVarint(Len(text)) \o text)
             /\ WriteString(field, text) \in Seq(Byte)
             /\ Len(WriteString(field, text)) = Len(WriteKey(field, Delimited))
                                                + (Len(WriteVarint(Len(text))) + Len(text))
  <2> DEFINE key == WriteKey(field, Delimited)
             length == WriteVarint(Len(text))
  <2>1. key \in Seq(Byte) /\ length \in Seq(Byte)
    BY <1>1, <1>2
  <2>2. WriteString(field, text) = (key \o length) \o text
    BY DEF WriteString
  <2> HIDE DEF key, length
  <2>3. /\ length \o text \in Seq(Byte) /\ Len(length \o text) = Len(length) + Len(text)
        /\ (key \o length) \o text = key \o (length \o text)
    BY <2>1, ConcatAssociative, ConcatProperties
  <2>4. /\ key \o (length \o text) \in Seq(Byte)
        /\ Len(key \o (length \o text)) = Len(key) + (Len(length) + Len(text))
    BY <2>1, <2>3, ConcatProperties
  <2> QED
    BY <2>1, <2>2, <2>3, <2>4 DEF key, length
<1>4. ASSUME NEW n \in Nat
      PROVE  /\ WriteVarint(n) \in Seq(Byte)
             /\ WriteNumber(field, n) = WriteKey(field, Varint) \o WriteVarint(n)
             /\ WriteNumber(field, n) \in Seq(Byte)
             /\ Len(WriteNumber(field, n)) = Len(WriteKey(field, Varint)) + Len(WriteVarint(n))
  BY <1>1, <1>2, ConcatProperties DEF WriteNumber
<1> QED
  BY <1>2, <1>3, <1>4

\* The field has a number, and the number fits.
Numbered(field) ==
  field \in Nat \ {0} /\ field < Power[FieldBits] /\ (8 * field) + 2 < Power[ValueBits]

LEMMA ReadKeyBack ==
  ASSUME NEW data, NEW c, NEW field \in Nat, field < Power[FieldBits],
         NEW wire \in 0..7, (8 * field) + wire < Power[ValueBits],
         At(data, c, WriteKey(field, wire))
  PROVE  LET key == ReadVarint(data, c)
         IN  /\ key = Read(c + Len(WriteKey(field, wire)), (8 * field) + wire)
             /\ FieldNumber(key) = field /\ WireType(key) = wire
<1> DEFINE n == (8 * field) + wire
<1>1. Power[FieldBits] \in Nat /\ Power[ValueBits] \in Nat
  BY PowerIs, PowerGrows
<1>2. n \in Nat /\ n < Power[ValueBits] /\ n \div 8 = field /\ n % 8 = wire
  OBVIOUS
<1>3. field % Power[FieldBits] = field
  BY <1>1
<1>4. ReadVarint(data, c) = Read(c + Len(WriteKey(field, wire)), n)
  <2>1. At(data, c, WriteVarint(n))
    BY DEF WriteKey
  <2> HIDE DEF n
  <2>2. IsVarint(WriteVarint(n), n) /\ Short(WriteVarint(n), n)
    BY <1>2, VarintIsWritten
  <2>3. ReadVarint(data, c) = Read(c + Len(WriteVarint(n)), n)
    BY <1>2, <2>1, <2>2, ReadVarintBack
  <2> QED
    BY <2>3 DEF WriteKey, n
<1> HIDE DEF n
<1> QED
  BY <1>2, <1>3, <1>4 DEF FieldNumber, WireType, Read, n

LEMMA ReadNumberBack ==
  ASSUME NEW data, NEW c, NEW field, Numbered(field), NEW v \in Nat, v < Power[ValueBits],
         At(data, c, WriteNumber(field, v))
  PROVE  ReadField(data, c) = Read(c + Len(WriteNumber(field, v)),
                                   [field |-> field, wire |-> Varint, value |-> v])
<1> DEFINE keyBytes == WriteKey(field, Varint)
           key == ReadVarint(data, c)
<1>1. field \in Nat /\ field # 0
  BY DEF Numbered
<1>2. /\ keyBytes \in Seq(Byte) /\ WriteVarint(v) \in Seq(Byte)
      /\ Len(WriteNumber(field, v)) = Len(keyBytes) + Len(WriteVarint(v))
      /\ Len(keyBytes) \in Nat /\ Len(WriteVarint(v)) \in Nat
      /\ WriteNumber(field, v) = keyBytes \o WriteVarint(v)
  <2>1. /\ keyBytes \in Seq(Byte) /\ WriteVarint(v) \in Seq(Byte)
        /\ Len(WriteNumber(field, v)) = Len(keyBytes) + Len(WriteVarint(v))
        /\ WriteNumber(field, v) = keyBytes \o WriteVarint(v)
    BY <1>1, WritesAre
  <2> HIDE DEF keyBytes
  <2> QED
    BY <2>1
<1>3. At(data, c, keyBytes) /\ At(data, c + Len(keyBytes), WriteVarint(v)) /\ c \in Nat
  <2>1. At(data, c, keyBytes \o WriteVarint(v))
    BY <1>2
  <2> HIDE DEF keyBytes
  <2>2. At(data, c, keyBytes) /\ At(data, c + Len(keyBytes), WriteVarint(v))
    BY <1>2, <2>1, AtParts
  <2>3. c \in Nat
    BY <2>1 DEF At
  <2> QED
    BY <2>2, <2>3
<1>4. /\ key.ok /\ key.cursor = c + Len(keyBytes)
      /\ FieldNumber(key) = field /\ WireType(key) = Varint
  <2>1. field < Power[FieldBits] /\ Varint \in 0..7 /\ (8 * field) + Varint < Power[ValueBits]
    BY <1>1, PowerGrows, PowerIs DEF Numbered, Varint, Delimited
  <2> QED
    BY <1>1, <1>3, <2>1, ReadKeyBack DEF Read
<1>5. ReadVarint(data, c + Len(keyBytes)) = Read((c + Len(keyBytes)) + Len(WriteVarint(v)), v)
  <2>1. IsVarint(WriteVarint(v), v) /\ Short(WriteVarint(v), v)
    BY VarintIsWritten
  <2> HIDE DEF keyBytes
  <2> QED
    BY <1>3, <2>1, ReadVarintBack
<1>6. (c + Len(keyBytes)) + Len(WriteVarint(v)) = c + Len(WriteNumber(field, v))
  BY <1>2, <1>3
<1> HIDE DEF keyBytes, key
<1>7. ReadValue(data, key.cursor, WireType(key)) = Read(c + Len(WriteNumber(field, v)), v)
  BY <1>4, <1>5, <1>6 DEF ReadValue, Varint, Delimited
<1>8. FieldAfter(data, key) = WithKey(key, Read(c + Len(WriteNumber(field, v)), v))
  BY <1>1, <1>4, <1>7 DEF FieldAfter
<1>9. FieldAfter(data, key) = Read(c + Len(WriteNumber(field, v)),
                                   [field |-> field, wire |-> Varint, value |-> v])
  BY <1>4, <1>8 DEF WithKey, Read
<1> QED
  BY <1>9 DEF ReadField, key

LEMMA ReadTextBack ==
  ASSUME NEW data, NEW c, NEW field, Numbered(field),
         NEW text \in Seq(Byte), Len(text) < Power[ValueBits],
         At(data, c, WriteString(field, text))
  PROVE  ReadField(data, c) = Read(c + Len(WriteString(field, text)),
                                   [field |-> field, wire |-> Delimited, value |-> text])
<1> DEFINE keyBytes == WriteKey(field, Delimited)
           length == WriteVarint(Len(text))
           key == ReadVarint(data, c)
           end == c + Len(WriteString(field, text))
<1>1. field \in Nat /\ field # 0 /\ Len(text) \in Nat
  BY DEF Numbered
<1>2. /\ keyBytes \in Seq(Byte) /\ length \in Seq(Byte) /\ length \o text \in Seq(Byte)
      /\ Len(WriteString(field, text)) = Len(keyBytes) + (Len(length) + Len(text))
      /\ Len(keyBytes) \in Nat /\ Len(length) \in Nat
      /\ WriteString(field, text) = keyBytes \o (length \o text)
  <2>1. /\ keyBytes \in Seq(Byte) /\ length \in Seq(Byte) /\ length \o text \in Seq(Byte)
        /\ Len(WriteString(field, text)) = Len(keyBytes) + (Len(length) + Len(text))
        /\ WriteString(field, text) = keyBytes \o (length \o text)
    BY <1>1, WritesAre
  <2> HIDE DEF keyBytes, length
  <2> QED
    BY <2>1
<1>3. /\ At(data, c, keyBytes) /\ At(data, c + Len(keyBytes), length) /\ c \in Nat
      /\ At(data, (c + Len(keyBytes)) + Len(length), text)
  <2>1. At(data, c, keyBytes \o (length \o text))
    BY <1>2
  <2> HIDE DEF keyBytes, length
  <2>2. At(data, c, keyBytes) /\ At(data, c + Len(keyBytes), length \o text)
    BY <1>2, <2>1, AtParts
  <2>3. At(data, c + Len(keyBytes), length) /\ At(data, (c + Len(keyBytes)) + Len(length), text)
    BY <1>2, <2>2, AtParts
  <2>4. c \in Nat
    BY <2>1 DEF At
  <2> QED
    BY <2>2, <2>3, <2>4
<1>4. /\ key.ok /\ key.cursor = c + Len(keyBytes)
      /\ FieldNumber(key) = field /\ WireType(key) = Delimited
  <2>1. field < Power[FieldBits] /\ Delimited \in 0..7 /\ (8 * field) + Delimited < Power[ValueBits]
    BY <1>1, PowerGrows, PowerIs DEF Numbered, Varint, Delimited
  <2> QED
    BY <1>1, <1>3, <2>1, ReadKeyBack DEF Read
<1>5. ReadVarint(data, c + Len(keyBytes)) = Read((c + Len(keyBytes)) + Len(length), Len(text))
  <2>1. IsVarint(length, Len(text)) /\ Short(length, Len(text))
    BY <1>1, VarintIsWritten
  <2> HIDE DEF keyBytes, length
  <2> QED
    BY <1>1, <1>3, <2>1, ReadVarintBack
<1>6. /\ ((c + Len(keyBytes)) + Len(length)) + Len(text) = end
      /\ end <= Len(data) /\ end \in Nat /\ Len(data) \in Nat
  <2>1. ((c + Len(keyBytes)) + Len(length)) + Len(text) <= Len(data) /\ Len(data) \in Nat
    BY <1>3 DEF At
  <2> QED
    BY <1>1, <1>2, <1>3, <2>1
<1>7. SubSeq(data, ((c + Len(keyBytes)) + Len(length)) + 1, end) = text
  BY <1>3, <1>6, AtIsSubSeq
<1> HIDE DEF keyBytes, key, length, end
<1>8. ReadDelimited(data, key.cursor) = Read(end, text)
  <2> DEFINE read == Read((c + Len(keyBytes)) + Len(length), Len(text))
  <2>1. /\ read.ok /\ read.cursor = (c + Len(keyBytes)) + Len(length)
        /\ read.value = Len(text)
    BY DEF Read
  <2>2. ReadDelimited(data, key.cursor) = TextAfter(data, read)
    BY <1>4, <1>5 DEF ReadDelimited
  <2> HIDE DEF read
  <2>3. ~(read.cursor + read.value > Len(data)) /\ read.cursor + read.value = end
    BY <1>6, <2>1
  <2> QED
    BY <1>7, <2>1, <2>2, <2>3 DEF TextAfter
<1>9. ReadValue(data, key.cursor, WireType(key)) = Read(end, text)
  BY <1>4, <1>8 DEF ReadValue, Varint, Delimited
<1>10. FieldAfter(data, key) = WithKey(key, Read(end, text))
  BY <1>1, <1>4, <1>9 DEF FieldAfter
<1>11. FieldAfter(data, key) = Read(end, [field |-> field, wire |-> Delimited, value |-> text])
  BY <1>4, <1>10 DEF WithKey, Read
<1> QED
  BY <1>11 DEF ReadField, key, end

-------------------------------------------------------------------------------
(* The fields of a payload *)

LEMMA LeastExists ==
  ASSUME NEW S \in SUBSET Nat, S # {}
  PROVE  Min(S) \in S /\ \A s \in S : Min(S) <= s
<1>1. PICK n \in S : \A m \in S : <<m, n>> \notin OpToRel(<, Nat)
  <2> HIDE DEF OpToRel
  <2> QED
    BY NatLessThanWellFounded, WFMin
<1>2. \A m \in S : ~(m < n)
  BY <1>1 DEF OpToRel
<1>3. \A m \in S : n <= m
  BY <1>2
<1> QED
  BY <1>3 DEF Min

\* What is read ends beyond the cursor, and within the data.
LEMMA ReadVarintType ==
  ASSUME NEW data \in Seq(Byte), NEW c \in 0..Len(data), ReadVarint(data, c).ok
  PROVE  /\ ReadVarint(data, c).cursor \in (c + 1)..Len(data)
         /\ ReadVarint(data, c).value \in Nat
<1> DEFINE ends == VarintEnds(data, c)
           end == Min(ends)
           bytes == SubSeq(data, c + 1, end)
<1>1. Len(data) \in Nat /\ c \in Nat
  OBVIOUS
<1>2. ends # {}
  BY DEF ReadVarint, Unread
<1>3. ends \subseteq (c + 1)..Len(data)
  BY DEF VarintEnds
<1>4. ends \in SUBSET Nat
  BY <1>1, <1>3
<1>5. end \in (c + 1)..Len(data)
  <2> HIDE DEF ends
  <2> QED
    BY <1>2, <1>3, <1>4, LeastExists
<1>6. bytes \in Seq(Byte)
  <2> HIDE DEF ends, end
  <2>1. \A i \in (c + 1)..end : i \in 1..Len(data)
    BY <1>1, <1>5
  <2>2. \A i \in (c + 1)..end : data[i] \in Byte
    BY <2>1, ElementOfSeq
  <2>3. c + 1 \in Int /\ end \in Int
    BY <1>1, <1>5
  <2> QED
    BY <2>2, <2>3, SubSeqProperties
<1>7. VarintValue(bytes) \in Nat
  <2> HIDE DEF bytes
  <2>1. 0 \in 0..Len(bytes)
    BY <1>6
  <2>2. Sevens(bytes)[0] \in Nat /\ VarintValue(bytes) = Sevens(bytes)[0] % Power[ValueBits]
    BY <1>6, <2>1, SevensIs
  <2>3. Power[ValueBits] \in Nat /\ Power[ValueBits] > 0
    BY PowerIs, PowerGrows
  <2> QED
    BY <2>2, <2>3
<1>8. ReadVarint(data, c) = Read(end, VarintValue(bytes))
  BY <1>2 DEF ReadVarint
<1> HIDE DEF ends, end, bytes
<1> QED
  BY <1>5, <1>7, <1>8 DEF Read

LEMMA TextAfterType ==
  ASSUME NEW data \in Seq(Byte), NEW c \in 0..Len(data), NEW length,
         length.ok => length.cursor \in (c + 1)..Len(data) /\ length.value \in Nat,
         TextAfter(data, length).ok
  PROVE  /\ TextAfter(data, length).cursor \in (c + 1)..Len(data)
         /\ TextAfter(data, length).value \in Seq(Byte)
<1> DEFINE end == length.cursor + length.value
<1>1. length.ok /\ ~(end > Len(data))
  BY DEF TextAfter, Unread
<1>2. TextAfter(data, length) = Read(end, SubSeq(data, length.cursor + 1, end))
  BY <1>1 DEF TextAfter
<1>3. Len(data) \in Nat /\ c \in Nat /\ length.cursor \in (c + 1)..Len(data) /\ length.value \in Nat
  BY <1>1
<1>4. end \in (c + 1)..Len(data) /\ length.cursor + 1 \in Int /\ end \in Int
  BY <1>1, <1>3
<1> HIDE DEF end
<1>5. SubSeq(data, length.cursor + 1, end) \in Seq(Byte)
  <2>1. \A i \in (length.cursor + 1)..end : i \in 1..Len(data)
    BY <1>3, <1>4
  <2>2. \A i \in (length.cursor + 1)..end : data[i] \in Byte
    BY <2>1, ElementOfSeq
  <2> QED
    BY <1>4, <2>2, SubSeqProperties
<1> QED
  BY <1>2, <1>4, <1>5 DEF Read

LEMMA ReadFieldType ==
  ASSUME NEW data \in Seq(Byte), NEW c \in 0..Len(data), ReadField(data, c).ok
  PROVE  /\ ReadField(data, c).cursor \in (c + 1)..Len(data)
         /\ ReadField(data, c).value \in FieldRead
<1> DEFINE key == ReadVarint(data, c)
           read == ReadValue(data, key.cursor, WireType(key))
<1>1. ReadField(data, c) = FieldAfter(data, key)
  BY DEF ReadField
<1>2. key.ok
  <2> HIDE DEF key
  <2> QED
    BY <1>1 DEF FieldAfter, Unread
<1>3. key.cursor \in (c + 1)..Len(data) /\ key.value \in Nat
  BY <1>2, ReadVarintType
<1> HIDE DEF key
<1>4. FieldAfter(data, key) = WithKey(key, read) /\ read.ok
  BY <1>1, <1>2 DEF FieldAfter, WithKey, Unread
<1>5. /\ FieldAfter(data, key).cursor = read.cursor
      /\ FieldAfter(data, key).value =
           [field |-> FieldNumber(key), wire |-> WireType(key), value |-> read.value]
  <2> HIDE DEF read
  <2> QED
    BY <1>4 DEF WithKey, Read
<1>6. FieldNumber(key) \in Nat /\ WireType(key) \in Nat
  <2>1. Power[FieldBits] \in Nat /\ Power[FieldBits] > 0
    BY PowerIs, PowerGrows
  <2>2. key.value \div 8 \in Nat /\ key.value % 8 \in Nat
    BY <1>3
  <2> QED
    BY <2>1, <2>2 DEF FieldNumber, WireType
<1>7. Len(data) \in Nat /\ c \in Nat /\ key.cursor \in 0..Len(data)
  BY <1>3
<1>8. \A d \in (key.cursor + 1)..Len(data) : d \in (c + 1)..Len(data)
  BY <1>3, <1>7
<1>9. read.cursor \in (c + 1)..Len(data) /\ read.value \in Nat \cup Seq(Byte)
  <2>1. CASE WireType(key) = Varint
    <3>1. read = ReadVarint(data, key.cursor)
      BY <2>1 DEF ReadValue, Varint, Delimited
    <3>2. read.cursor \in (key.cursor + 1)..Len(data) /\ read.value \in Nat
      BY <1>4, <1>7, <3>1, ReadVarintType
    <3> HIDE DEF read
    <3> QED
      BY <1>8, <3>2
  <2>2. CASE WireType(key) = Delimited
    <3> DEFINE length == ReadVarint(data, key.cursor)
    <3>1. read = TextAfter(data, length)
      BY <2>2 DEF ReadValue, ReadDelimited, Varint, Delimited
    <3>2. length.ok => length.cursor \in (key.cursor + 1)..Len(data) /\ length.value \in Nat
      BY <1>7, ReadVarintType
    <3> HIDE DEF read, length
    <3>3. read.cursor \in (key.cursor + 1)..Len(data) /\ read.value \in Seq(Byte)
      BY <1>4, <1>7, <3>1, <3>2, TextAfterType
    <3> QED
      BY <1>8, <3>3
  <2>3. CASE WireType(key) # Varint /\ WireType(key) # Delimited
    BY <1>4, <2>3 DEF ReadValue, Unread
  <2> QED
    BY <2>1, <2>2, <2>3
<1>10. Seq(Byte) \subseteq Seq(Nat)
  <2>1. Byte \subseteq Nat
    BY DEF Byte
  <2> QED
    BY <2>1, SeqMonotonic
<1> HIDE DEF read
<1> QED
  BY <1>1, <1>5, <1>6, <1>9, <1>10 DEF FieldRead

\* The fields after the cursor.
FieldsFrom(data) ==
  CHOOSE f : f = [c \in 0..Len(data) |->
    IF c = Len(data) THEN <<>>
    ELSE IF ReadField(data, c).ok
         THEN Prepend(ReadField(data, c).value, f[ReadField(data, c).cursor])
         ELSE None]

FieldLists == {None} \cup Seq(FieldRead)

LEMMA PrependIs ==
  ASSUME NEW first \in FieldRead, NEW rest \in FieldLists
  PROVE  /\ Prepend(first, rest) \in FieldLists
         /\ rest # None => Prepend(first, rest) = <<first>> \o rest
<1>1. first # None
  BY NoneAssumption
<1>2. CASE rest = None
  BY <1>2 DEF Prepend, FieldLists
<1>3. CASE rest # None
  <2>1. rest \in Seq(FieldRead) /\ <<first>> \in Seq(FieldRead)
    BY <1>3 DEF FieldLists
  <2>2. Prepend(first, rest) = <<first>> \o rest
    BY <1>1, <1>3 DEF Prepend
  <2>3. <<first>> \o rest \in Seq(FieldRead)
    BY <2>1, ConcatProperties
  <2> QED
    BY <2>2, <2>3 DEF FieldLists
<1> QED
  BY <1>2, <1>3

LEMMA FieldsFromIs ==
  ASSUME NEW data \in Seq(Byte)
  PROVE  \A c \in 0..Len(data) :
           /\ FieldsFrom(data)[c] \in FieldLists
           /\ FieldsFrom(data)[c] =
                IF c = Len(data) THEN <<>>
                ELSE IF ReadField(data, c).ok
                     THEN Prepend(ReadField(data, c).value,
                                  FieldsFrom(data)[ReadField(data, c).cursor])
                     ELSE None
<1> DEFINE n == Len(data)
           D == 0..n
           read == [c \in D |-> ReadField(data, c)]
           ends == {c \in D : c = n \/ ~read[c].ok}
           base == [c \in D |-> IF c = n THEN <<>> ELSE None]
           next == [c \in D |-> read[c].cursor]
           step == [c \in D |-> [rest \in FieldLists |-> Prepend(read[c].value, rest)]]
           measure == [c \in D |-> n - c]
           Body(f, c) == IF c = n THEN <<>>
                         ELSE IF read[c].ok THEN Prepend(read[c].value, f[read[c].cursor]) ELSE None
           Is(f) == f = [c \in D |-> Body(f, c)]
<1>0. n \in Nat
  OBVIOUS
<1>1. \A c \in D : read[c] = ReadField(data, c)
  OBVIOUS
<1>2. \A c \in D : read[c].ok => read[c].cursor \in (c + 1)..n /\ read[c].value \in FieldRead
  BY ReadFieldType
<1> HIDE DEF read
<1>3. \A c \in D : c \notin ends => read[c].ok /\ c # n
  OBVIOUS
<1>4. Descends(D, ends, next, measure)
  <2> SUFFICES ASSUME NEW c \in D
               PROVE  /\ measure[c] \in Nat
                      /\ c \notin ends => next[c] \in D /\ measure[next[c]] < measure[c]
    BY DEF Descends
  <2>1. measure[c] \in Nat
    BY <1>0
  <2>2. ASSUME c \notin ends PROVE next[c] \in D /\ measure[next[c]] < measure[c]
    <3>1. read[c].cursor \in (c + 1)..n
      BY <1>2, <1>3, <2>2
    <3>2. read[c].cursor \in D /\ n - read[c].cursor < n - c
      BY <1>0, <3>1
    <3> QED
      BY <3>2
  <2> QED
    BY <2>1, <2>2
<1>5. PICK f \in [D -> FieldLists] : Solves(f, D, FieldLists, ends, base, next, step)
  <2>1. \A d \in D : measure[d] <= n
    BY <1>0
  <2>2. \A d \in D \cap ends : base[d] \in FieldLists
    BY EmptySeq DEF FieldLists
  <2>3. \A d \in D \ ends : step[d] \in [FieldLists -> FieldLists]
    <3> SUFFICES ASSUME NEW d \in D, d \notin ends, NEW rest \in FieldLists
                 PROVE  Prepend(read[d].value, rest) \in FieldLists
      OBVIOUS
    <3>1. read[d].value \in FieldRead
      BY <1>2, <1>3
    <3> HIDE DEF D, ends, n
    <3> QED
      BY <3>1, PrependIs
  <2> HIDE DEF D, n, ends, base, next, step, measure
  <2> QED
    BY <1>0, <1>4, <2>1, <2>2, <2>3, RecursionExists
<1>6. \A c \in D : f[c] = Body(f, c)
  <2> SUFFICES ASSUME NEW c \in D PROVE f[c] = Body(f, c)
    OBVIOUS
  <2>1. f[c] = IF c \in ends THEN base[c] ELSE step[c][f[next[c]]]
    BY <1>5 DEF Solves
  <2>2. CASE c \in ends
    BY <2>1, <2>2
  <2>3. CASE c \notin ends
    <3>1. next[c] \in D /\ next[c] = read[c].cursor
      BY <1>4, <2>3 DEF Descends
    <3>2. f[next[c]] \in FieldLists
      BY <1>5, <3>1
    <3>3. f[c] = Prepend(read[c].value, f[next[c]])
      BY <2>1, <2>3, <3>2
    <3> QED
      BY <1>3, <2>3, <3>1, <3>3
  <2> QED
    BY <2>2, <2>3
<1>7. Is(f)
  <2> HIDE DEF D, n, Body
  <2> QED
    BY <1>5, <1>6
<1>8. Is(FieldsFrom(data))
  <2>1. FieldsFrom(data) = CHOOSE h : Is(h)
    BY DEF FieldsFrom, read
  <2> HIDE DEF Is
  <2> QED
    BY <1>7, <2>1
<1>9. \A c \in D : FieldsFrom(data)[c] = Body(FieldsFrom(data), c)
  <2> DEFINE F == [c \in D |-> Body(FieldsFrom(data), c)]
  <2>1. \A c \in D : F[c] = Body(FieldsFrom(data), c)
    OBVIOUS
  <2>2. FieldsFrom(data) = F
    BY <1>8
  <2> HIDE DEF D, n, F, Body
  <2> QED
    BY <2>1, <2>2
<1>10. \A c \in D : FieldsFrom(data)[c] \in FieldLists
  <2> DEFINE S == {c \in D : FieldsFrom(data)[c] \in FieldLists}
  <2>1. \A c \in D : c \in ends => c \in S
    <3>1. \A c \in D : c \in ends => Body(FieldsFrom(data), c) \in {<<>>, None}
      OBVIOUS
    <3>2. <<>> \in FieldLists /\ None \in FieldLists
      BY EmptySeq DEF FieldLists
    <3> HIDE DEF D, n, ends, Body
    <3> QED
      BY <1>9, <3>1, <3>2
  <2>2. \A c \in D : c \notin ends /\ next[c] \in D /\ next[c] \in S => c \in S
    <3> SUFFICES ASSUME NEW c \in D, c \notin ends, FieldsFrom(data)[read[c].cursor] \in FieldLists
                 PROVE  FieldsFrom(data)[c] \in FieldLists
      OBVIOUS
    <3>1. FieldsFrom(data)[c] = Prepend(read[c].value, FieldsFrom(data)[read[c].cursor])
      BY <1>3, <1>9
    <3>2. read[c].value \in FieldRead
      BY <1>2, <1>3
    <3> HIDE DEF D, ends, n
    <3> QED
      BY <3>1, <3>2, PrependIs
  <2>3. D \subseteq S
    <3> HIDE DEF D, S, ends, next, measure
    <3> QED
      BY <1>4, <2>1, <2>2, DescentInduction
  <2> QED
    BY <2>3
<1> QED
  BY <1>1, <1>9, <1>10

LEMMA FieldsAre ==
  ASSUME NEW data
  PROVE  Fields(data) = FieldsFrom(data)[0]
BY DEF Fields, FieldsFrom

-------------------------------------------------------------------------------
(* The texts of symbols *)

\* A text that is written in capitals and has no blanks.
Plain(text) ==
  /\ text \in Seq(Byte) /\ text # <<>>
  /\ \A i \in 1..Len(text) : text[i] \in Letters \cup Digits \cup {Dot, Dash}

LEMMA GreatestIs ==
  ASSUME NEW S \in SUBSET Nat, NEW m \in S, \A s \in S : s <= m
  PROVE  Max(S) = m
<1> DEFINE c == CHOOSE x \in S : \A y \in S : x >= y
<1>1. \A y \in S : m >= y
  OBVIOUS
<1>2. c \in S /\ c >= m
  BY <1>1
<1> HIDE DEF c
<1>3. c <= m /\ c \in Nat /\ m \in Nat
  BY <1>2
<1>4. c = m
  BY <1>2, <1>3
<1> QED
  BY <1>4 DEF Max, c

LEMMA LeastIs ==
  ASSUME NEW S \in SUBSET Nat, NEW m \in S, \A s \in S : m <= s
  PROVE  Min(S) = m
<1> DEFINE c == CHOOSE x \in S : \A y \in S : x <= y
<1>1. c \in S /\ c <= m
  OBVIOUS
<1> HIDE DEF c
<1>2. m <= c /\ c \in Nat /\ m \in Nat
  BY <1>1
<1>3. c = m
  BY <1>1, <1>2
<1> QED
  BY <1>3 DEF Min, c

LEMMA PlainText ==
  ASSUME NEW text, Plain(text)
  PROVE  Trim(text) = text /\ Upper(text) = text
<1> DEFINE n == Len(text)
           inner == {i \in DOMAIN text : text[i] \notin Space}
<1>1. text \in Seq(Byte) /\ n \in Nat \ {0} /\ DOMAIN text = 1..n
  BY LenProperties, EmptySeq DEF Plain
<1>2. \A i \in 1..n : text[i] \notin Space /\ text[i] \notin 97..122
  <2> SUFFICES ASSUME NEW i \in 1..n PROVE text[i] \notin Space /\ text[i] \notin 97..122
    OBVIOUS
  <2>1. text[i] \in Letters \cup Digits \cup {Dot, Dash}
    BY DEF Plain
  <2>2. \A b \in Letters \cup Digits \cup {Dot, Dash} : b \notin Space /\ b \notin 97..122
    BY DEF Space, Letters, Digits, Dot, Dash
  <2> QED
    BY <2>1, <2>2
<1>3. inner = 1..n
  BY <1>1, <1>2
<1>4. Min(inner) = 1 /\ Max(inner) = n /\ inner # {}
  <2>1. 1..n \in SUBSET Nat /\ 1 \in 1..n /\ n \in 1..n
    BY <1>1
  <2>2. \A i \in 1..n : 1 <= i /\ i <= n
    BY <1>1
  <2> HIDE DEF inner, n
  <2> QED
    BY <1>3, <2>1, <2>2, GreatestIs, LeastIs
<1>5. Trim(text) = text
  <2>1. SubSeq(text, 1, n) = text
    BY <1>1, SubSeqFull
  <2> HIDE DEF n
  <2> QED
    BY <1>4, <2>1 DEF Trim
<1>6. Upper(text) = text
  <2>1. Upper(text) = [i \in 1..n |-> text[i]]
    <3> HIDE DEF n
    <3> QED
      BY <1>1, <1>2 DEF Upper
  <2> QED
    BY <1>1, <2>1
<1> QED
  BY <1>5, <1>6

LEMMA RegionTexts ==
  ASSUME NEW region \in DOMAIN RegionText
  PROVE  LET text == RegionText[region]
         IN  /\ Plain(text) /\ Len(text) = 2
             /\ text[1] \in Letters /\ text[2] \in Letters
             /\ ParseRegion(text) = region
<1> DEFINE text == RegionText[region]
<1>1. DOMAIN RegionText = {"Us", "Hk", "Shanghai", "Shenzhen"}
  BY DEF RegionText
<1>2. /\ RegionText["Us"] = <<85, 83>> /\ RegionText["Hk"] = <<72, 75>>
      /\ RegionText["Shanghai"] = <<83, 72>> /\ RegionText["Shenzhen"] = <<83, 90>>
  BY DEF RegionText
<1>3. text \in {<<85, 83>>, <<72, 75>>, <<83, 72>>, <<83, 90>>}
  BY <1>1, <1>2
<1>4. text \in Seq(Byte) /\ Len(text) = 2 /\ text[1] \in 65..90 /\ text[2] \in 65..90
  <2> HIDE DEF text
  <2>1. CASE text = <<85, 83>>
    BY <2>1 DEF Byte
  <2>2. CASE text = <<72, 75>>
    BY <2>2 DEF Byte
  <2>3. CASE text = <<83, 72>>
    BY <2>3 DEF Byte
  <2>4. CASE text = <<83, 90>>
    BY <2>4 DEF Byte
  <2> QED
    BY <1>3, <2>1, <2>2, <2>3, <2>4
<1> HIDE DEF text
<1>5. Plain(text)
  <2>1. \A i \in 1..2 : i = 1 \/ i = 2
    OBVIOUS
  <2>2. text # <<>>
    BY <1>4
  <2> QED
    BY <1>4, <2>1, <2>2 DEF Plain, Letters
<1>6. ParseRegion(text) = region
  <2> DEFINE named == {r \in DOMAIN RegionText : RegionText[r] = Upper(Trim(text))}
  <2>1. Upper(Trim(text)) = text
    BY <1>5, PlainText
  <2>2. \A r \in DOMAIN RegionText : RegionText[r] = RegionText[region] => r = region
    <3>1. /\ <<85, 83>> # <<72, 75>> /\ <<85, 83>> # <<83, 72>> /\ <<85, 83>> # <<83, 90>>
          /\ <<72, 75>> # <<83, 72>> /\ <<72, 75>> # <<83, 90>> /\ <<83, 72>> # <<83, 90>>
      OBVIOUS
    <3> QED
      BY <1>1, <1>2, <3>1
  <2>3. named = {region}
    BY <2>1, <2>2 DEF text
  <2> HIDE DEF named
  <2>4. (CHOOSE r \in named : TRUE) = region /\ named # {}
    BY <2>3
  <2> QED
    BY <2>4 DEF ParseRegion, named
<1> QED
  BY <1>4, <1>5, <1>6 DEF text, Letters

\* The text of a symbol has at most 19 bytes and names the symbol.
LEMMA SymbolTextNames ==
  ASSUME NEW s \in Symbols
  PROVE  /\ SymbolText(s) \in Seq(Byte) /\ Len(SymbolText(s)) <= 19
         /\ ParseSymbol(SymbolText(s)) = s
<1> DEFINE t == s.ticker
           r == RegionText[s.region]
           n == Len(t)
           text == SymbolText(s)
           dots == {i \in DOMAIN text : text[i] = Dot}
<1>1. /\ s = [ticker |-> t, region |-> s.region]
      /\ s.region \in DOMAIN RegionText
      /\ t \in Seq(Byte) /\ ValidTicker(t) /\ Upper(t) = t
  BY SymbolsAssumption
<1>2. /\ Plain(r) /\ Len(r) = 2 /\ r[1] \in Letters /\ r[2] \in Letters
      /\ ParseRegion(r) = s.region
  BY <1>1, RegionTexts
<1>3. n \in 1..16 /\ Plain(t)
  <2>1. n \in 1..16 /\ Range(t) \subseteq Letters \cup Digits \cup {Dot, Dash}
    BY <1>1 DEF ValidTicker
  <2>2. \A i \in 1..n : t[i] \in Range(t)
    BY <1>1 DEF Range
  <2>3. t # <<>>
    <3>1. 0 \notin 1..16
      OBVIOUS
    <3>2. t = <<>> => n = 0
      OBVIOUS
    <3> QED
      BY <2>1, <3>1, <3>2
  <2> HIDE DEF t
  <2> QED
    BY <1>1, <2>1, <2>2, <2>3 DEF Plain
<1>4. s.region # None
  BY <1>1, NoneAssumption
<1> HIDE DEF r, t
<1>5. /\ text \in Seq(Byte) /\ Len(text) = n + 3 /\ DOMAIN text = 1..(n + 3)
      /\ \A i \in 1..n : text[i] = t[i]
      /\ text[n + 1] = Dot /\ text[n + 2] = r[1] /\ text[n + 3] = r[2]
  <2> DEFINE u == t \o <<Dot>>
  <2>0. t \in Seq(Byte) /\ r \in Seq(Byte) /\ n \in Nat /\ n >= 1 /\ text = u \o r
    BY <1>1, <1>2, <1>3 DEF Plain, SymbolText, t, r
  <2>1. <<Dot>> \in Seq(Byte) /\ Len(<<Dot>>) = 1 /\ <<Dot>>[1] = Dot
    BY DEF Dot, Byte
  <2>2. /\ u \in Seq(Byte) /\ Len(u) = n + 1
        /\ \A i \in 1..(n + 1) : u[i] = IF i <= n THEN t[i] ELSE <<Dot>>[i - n]
    BY <2>0, <2>1, ConcatProperties
  <2> HIDE DEF u, text
  <2>3. u[n + 1] = Dot /\ \A i \in 1..n : u[i] = t[i]
    <3>1. n + 1 \in 1..(n + 1) /\ ~(n + 1 <= n) /\ (n + 1) - n = 1
      BY <2>0
    <3> QED
      BY <2>0, <2>1, <2>2, <3>1
  <2>4. /\ text \in Seq(Byte) /\ Len(text) = (n + 1) + 2
        /\ \A i \in 1..((n + 1) + 2) : text[i] = IF i <= n + 1 THEN u[i] ELSE r[i - (n + 1)]
    <3>1. /\ u \o r \in Seq(Byte) /\ Len(u \o r) = Len(u) + Len(r)
          /\ \A i \in 1..(Len(u) + Len(r)) :
               (u \o r)[i] = IF i <= Len(u) THEN u[i] ELSE r[i - Len(u)]
      BY <2>0, <2>2, ConcatProperties
    <3>2. Len(u) = n + 1 /\ Len(r) = 2
      BY <1>2, <2>2
    <3> QED
      BY <2>0, <3>1, <3>2
  <2>5. (n + 1) + 2 = n + 3 /\ (n + 2) - (n + 1) = 1 /\ (n + 3) - (n + 1) = 2
    BY <2>0
  <2>6. text[n + 2] = r[1] /\ text[n + 3] = r[2]
    BY <2>0, <2>4, <2>5
  <2>7. text[n + 1] = u[n + 1] /\ \A i \in 1..n : text[i] = u[i]
    BY <2>0, <2>4, <2>5
  <2> QED
    BY <2>3, <2>4, <2>5, <2>6, <2>7, LenProperties
<1> HIDE DEF text, n
<1>6. n \in Nat /\ n >= 1 /\ n <= 16
  BY <1>3
<1>7. \A i \in 1..(n + 3) : i \in 1..n \/ i = n + 1 \/ i = n + 2 \/ i = n + 3
  BY <1>6
<1>8. Plain(text)
  <2>1. \A i \in 1..n : t[i] \in Letters \cup Digits \cup {Dot, Dash}
    BY <1>3 DEF Plain, n
  <2>2. text # <<>>
    BY <1>5, <1>6
  <2> QED
    BY <1>2, <1>5, <1>7, <2>1, <2>2 DEF Plain
<1>9. Trim(text) = text /\ Upper(text) = text
  BY <1>8, PlainText
<1>10. Max(dots) = n + 1 /\ dots # {}
  <2>1. n + 1 \in dots
    BY <1>5, <1>6
  <2>2. dots \in SUBSET Nat
    BY <1>5, <1>6
  <2>3. \A i \in dots : i <= n + 1
    <3> SUFFICES ASSUME NEW i \in dots PROVE i <= n + 1
      OBVIOUS
    <3>1. i \in 1..(n + 3) /\ text[i] = Dot
      BY <1>5
    <3>2. i # n + 2 /\ i # n + 3
      <4>1. Dot \notin Letters
        BY DEF Dot, Letters
      <4> QED
        BY <1>2, <1>5, <3>1, <4>1
    <3> QED
      BY <1>6, <1>7, <3>1, <3>2
  <2> HIDE DEF dots
  <2> QED
    BY <2>1, <2>2, <2>3, GreatestIs
<1>11. SubSeq(text, 1, (n + 1) - 1) = t
  <2> DEFINE u == SubSeq(text, 1, n)
  <2>1. (n + 1) - 1 = n /\ n \in Int /\ 1 \in Int /\ Len(t) = n /\ t \in Seq(Byte) /\ n - 1 + 1 = n
    BY <1>1, <1>6 DEF n, t
  <2>2. \A i \in 1..n : text[i] \in Byte
    BY <1>5, <1>6, ElementOfSeq
  <2>3. /\ u \in Seq(Byte) /\ Len(u) = (IF 1 <= n THEN n - 1 + 1 ELSE 0)
        /\ \A i \in 1..(n - 1 + 1) : u[i] = text[1 + i - 1]
    BY <2>1, <2>2, SubSeqProperties
  <2> HIDE DEF u
  <2>4. Len(u) = n /\ \A i \in 1..n : u[i] = t[i]
    <3>1. \A i \in 1..n : 1 + i - 1 = i
      OBVIOUS
    <3> QED
      BY <1>5, <1>6, <2>1, <2>3, <3>1
  <2>5. u = t
    BY <2>1, <2>3, <2>4, SeqEqual
  <2> QED
    BY <2>1, <2>5 DEF u
<1>12. SubSeq(text, (n + 1) + 1, Len(text)) = r
  <2> DEFINE u == SubSeq(text, n + 2, n + 3)
  <2>1. /\ (n + 1) + 1 = n + 2 /\ n + 2 \in Int /\ n + 3 \in Int /\ n + 2 <= n + 3
        /\ (n + 3) - (n + 2) + 1 = 2 /\ (n + 2) + 1 - 1 = n + 2 /\ (n + 2) + 2 - 1 = n + 3
    BY <1>6
  <2>2. \A i \in (n + 2)..(n + 3) : text[i] \in Byte
    <3>1. \A i \in (n + 2)..(n + 3) : i \in 1..(n + 3)
      BY <1>6
    <3> QED
      BY <1>5, <3>1, ElementOfSeq
  <2>3. /\ u \in Seq(Byte) /\ Len(u) = (IF n + 2 <= n + 3 THEN (n + 3) - (n + 2) + 1 ELSE 0)
        /\ \A i \in 1..((n + 3) - (n + 2) + 1) : u[i] = text[(n + 2) + i - 1]
    BY <2>1, <2>2, SubSeqProperties
  <2> HIDE DEF u
  <2>4. u \in Seq(Byte) /\ Len(u) = 2 /\ u[1] = text[n + 2] /\ u[2] = text[n + 3]
    <3>1. 1 \in 1..2 /\ 2 \in 1..2
      OBVIOUS
    <3> QED
      BY <2>1, <2>3, <3>1
  <2>5. r \in Seq(Byte) /\ \A i \in 1..2 : i = 1 \/ i = 2
    BY <1>2 DEF Plain
  <2>6. u = r
    BY <1>2, <1>5, <2>4, <2>5, SeqEqual
  <2> QED
    BY <1>5, <2>1, <2>6 DEF u
<1>13. SecuritySymbol(t, s.region) = s
  <2>1. Trim(t) = t /\ Upper(t) = t
    BY <1>3, PlainText
  <2> QED
    BY <1>1, <2>1 DEF SecuritySymbol, t
<1>14. n + 1 \notin {1, Len(text)}
  BY <1>5, <1>6
<1>15. ParseSymbol(text) = s
  <2>1. ValidTicker(t)
    BY <1>1 DEF t
  <2>2. ParseSymbol(text) =
          IF dots = {} THEN None
          ELSE IF Max(dots) \in {1, Len(text)} THEN None
          ELSE IF \/ ParseRegion(SubSeq(text, Max(dots) + 1, Len(text))) = None
                  \/ ~ValidTicker(SubSeq(text, 1, Max(dots) - 1))
               THEN None
          ELSE SecuritySymbol(SubSeq(text, 1, Max(dots) - 1),
                              ParseRegion(SubSeq(text, Max(dots) + 1, Len(text))))
    BY <1>9 DEF ParseSymbol
  <2> HIDE DEF dots
  <2> QED
    BY <1>2, <1>4, <1>10, <1>11, <1>12, <1>13, <1>14, <2>1, <2>2
<1> QED
  BY <1>5, <1>6, <1>15 DEF text

-------------------------------------------------------------------------------
(* Payloads that are written piece by piece *)

\* f has what the first n of the pieces are together.
Joins(f, pieces) ==
  f = [n \in 0..Len(pieces) |-> IF n = 0 THEN <<>> ELSE f[n - 1] \o pieces[n]]

LEMMA JoinsExist ==
  ASSUME NEW pieces \in Seq(Seq(Byte))
  PROVE  \E f : Joins(f, pieces)
<1> DEFINE N == Len(pieces)
           D == 0..N
           V == Seq(Byte)
           ends == {0}
           base == [n \in D |-> <<>>]
           next == [n \in D |-> n - 1]
           step == [n \in D |-> [s \in V |-> s \o pieces[n]]]
           measure == [n \in D |-> n]
<1>1. N \in Nat /\ \A n \in D \ ends : pieces[n] \in V /\ n - 1 \in D
  <2>1. N \in Nat
    OBVIOUS
  <2>2. \A n \in D \ ends : n \in 1..N /\ n - 1 \in D
    BY <2>1
  <2> HIDE DEF D
  <2> QED
    BY <2>1, <2>2, ElementOfSeq
<1>2. PICK f \in [D -> V] : Solves(f, D, V, ends, base, next, step)
  <2>1. Descends(D, ends, next, measure)
    BY <1>1 DEF Descends
  <2>2. \A d \in D : measure[d] <= N
    BY <1>1
  <2>3. \A d \in D \cap ends : base[d] \in V
    OBVIOUS
  <2>4. \A d \in D \ ends : step[d] \in [V -> V]
    <3> SUFFICES ASSUME NEW d \in D \ ends, NEW s \in V PROVE s \o pieces[d] \in V
      OBVIOUS
    <3> QED
      BY <1>1, ConcatProperties
  <2> HIDE DEF D, N, V, ends, base, next, step, measure
  <2> QED
    BY <1>1, <2>1, <2>2, <2>3, <2>4, RecursionExists
<1>3. \A n \in D : f[n] = IF n = 0 THEN <<>> ELSE f[n - 1] \o pieces[n]
  <2> SUFFICES ASSUME NEW n \in D
               PROVE  f[n] = IF n = 0 THEN <<>> ELSE f[n - 1] \o pieces[n]
    OBVIOUS
  <2>1. f[n] = IF n \in ends THEN base[n] ELSE step[n][f[next[n]]]
    BY <1>2 DEF Solves
  <2>2. n # 0 => f[n - 1] \in V
    BY <1>1, <1>2
  <2> HIDE DEF D, V
  <2> QED
    BY <2>1, <2>2
<1>4. f = [n \in D |-> IF n = 0 THEN <<>> ELSE f[n - 1] \o pieces[n]]
  <2> HIDE DEF D, V
  <2> QED
    BY <1>2, <1>3
<1> QED
  BY <1>4 DEF Joins

LEMMA JoinsIs ==
  ASSUME NEW pieces \in Seq(Seq(Byte)), NEW f, Joins(f, pieces)
  PROVE  /\ \A n \in 0..Len(pieces) : f[n] \in Seq(Byte)
         /\ f[0] = <<>>
         /\ \A n \in 1..Len(pieces) : /\ f[n] = f[n - 1] \o pieces[n]
                                      /\ Len(f[n]) = Len(f[n - 1]) + Len(pieces[n])
<1> DEFINE N == Len(pieces)
           D == 0..N
           ends == {0}
           next == [n \in D |-> n - 1]
           measure == [n \in D |-> n]
           F == [n \in D |-> IF n = 0 THEN <<>> ELSE f[n - 1] \o pieces[n]]
           S == {n \in D : f[n] \in Seq(Byte)}
<1>1. N \in Nat /\ \A n \in D \ ends : pieces[n] \in Seq(Byte) /\ n - 1 \in D
  <2>1. N \in Nat
    OBVIOUS
  <2>2. \A n \in D \ ends : n \in 1..N /\ n - 1 \in D
    BY <2>1
  <2> HIDE DEF D
  <2> QED
    BY <2>1, <2>2, ElementOfSeq
<1>2. Descends(D, ends, next, measure)
  BY <1>1 DEF Descends
<1>3. \A n \in D : f[n] = IF n = 0 THEN <<>> ELSE f[n - 1] \o pieces[n]
  <2>1. \A n \in D : F[n] = IF n = 0 THEN <<>> ELSE f[n - 1] \o pieces[n]
    OBVIOUS
  <2>2. f = F
    BY DEF Joins
  <2> HIDE DEF D, F
  <2> QED
    BY <2>1, <2>2
<1>4. \A n \in D : n \in ends => n \in S
  <2>1. 0 \in D /\ f[0] = <<>>
    BY <1>1, <1>3
  <2>2. 0 \in S
    BY <2>1, EmptySeq
  <2>3. \A n \in ends : n = 0
    OBVIOUS
  <2> HIDE DEF D, S, ends
  <2> QED
    BY <2>2, <2>3
<1>5. \A n \in D : n \notin ends /\ next[n] \in D /\ next[n] \in S => n \in S
  <2> SUFFICES ASSUME NEW n \in D \ ends, f[n - 1] \in Seq(Byte) PROVE f[n] \in Seq(Byte)
    OBVIOUS
  <2>1. f[n] = f[n - 1] \o pieces[n]
    BY <1>3
  <2> QED
    BY <1>1, <2>1, ConcatProperties
<1>6. D \subseteq S
  <2> HIDE DEF D, S, ends, next, measure
  <2> QED
    BY <1>2, <1>4, <1>5, DescentInduction
<1>7. 0 \in D /\ f[0] = <<>>
  BY <1>1, <1>3
<1>8. ASSUME NEW n \in 1..N
      PROVE  f[n] = f[n - 1] \o pieces[n] /\ Len(f[n]) = Len(f[n - 1]) + Len(pieces[n])
  <2>1. n \in D \ ends /\ n # 0
    BY <1>1
  <2> HIDE DEF D, N, ends
  <2>2. f[n] = f[n - 1] \o pieces[n]
    BY <1>3, <2>1
  <2>3. f[n - 1] \in Seq(Byte) /\ pieces[n] \in Seq(Byte)
    BY <1>1, <1>6, <2>1
  <2> QED
    BY <2>2, <2>3, ConcatProperties
<1> QED
  BY <1>6, <1>7, <1>8

LEMMA OneMoreRead ==
  ASSUME NEW reads \in Seq(FieldRead), NEW more \in Seq(FieldRead),
         NEW n \in 0..Len(reads), n # Len(reads)
  PROVE  Prepend(reads[n + 1], SubSeq(reads, (n + 1) + 1, Len(reads)) \o more)
           = SubSeq(reads, n + 1, Len(reads)) \o more
<1> DEFINE a == <<reads[n + 1]>>
           b == SubSeq(reads, (n + 1) + 1, Len(reads))
<1>1. n + 1 \in 1..Len(reads) /\ Len(reads) \in (n + 1)..Len(reads)
  OBVIOUS
<1>2. reads[n + 1] \in FieldRead /\ a \in Seq(FieldRead)
  BY <1>1, ElementOfSeq
<1>3. b \in Seq(FieldRead)
  <2>1. (n + 1) + 1 \in Int /\ Len(reads) \in Int
    OBVIOUS
  <2>2. \A i \in ((n + 1) + 1)..Len(reads) : i \in 1..Len(reads)
    OBVIOUS
  <2>3. \A i \in ((n + 1) + 1)..Len(reads) : reads[i] \in FieldRead
    BY <2>2, ElementOfSeq
  <2> QED
    BY <2>1, <2>3, SubSeqProperties
<1>4. SubSeq(reads, n + 1, Len(reads)) = a \o b
  BY <1>1, SubSeqRecursiveFirst
<1> HIDE DEF a, b
<1>5. (a \o b) \o more = a \o (b \o more)
  BY <1>2, <1>3, ConcatAssociative
<1>6. b \o more \in Seq(FieldRead) /\ b \o more # None
  BY <1>3, ConcatProperties, NoneAssumption
<1>7. Prepend(reads[n + 1], b \o more) = a \o (b \o more)
  BY <1>2, <1>6, PrependIs DEF FieldLists, a
<1> QED
  BY <1>4, <1>5, <1>7 DEF b

\* Wherever the piece stands, it is read as this field; and so is each piece.
ReadsAs(piece, read) ==
  /\ Len(piece) > 0
  /\ \A data, c : At(data, c, piece) => ReadField(data, c) = Read(c + Len(piece), read)

EachReads(pieces, reads) ==
  /\ Len(reads) = Len(pieces)
  /\ \A n \in 1..Len(pieces) : ReadsAs(pieces[n], reads[n])

\* If each piece is read as a field, the fields of what they are together, and more,
\* are those of the pieces, and more.
LEMMA FieldsOfPieces ==
  ASSUME NEW pieces \in Seq(Seq(Byte)), NEW f, Joins(f, pieces),
         NEW reads \in Seq(FieldRead), EachReads(pieces, reads)
  PROVE  \A data : \A more \in Seq(FieldRead) :
           /\ At(data, 0, f[Len(pieces)])
           /\ FieldsFrom(data)[Len(f[Len(pieces)])] = more
           => Fields(data) = reads \o more
<1> SUFFICES ASSUME NEW data, NEW more \in Seq(FieldRead), At(data, 0, f[Len(pieces)]),
                    FieldsFrom(data)[Len(f[Len(pieces)])] = more
             PROVE  Fields(data) = reads \o more
  OBVIOUS
<1> DEFINE N == Len(pieces)
           D == 0..N
           ends == {N}
           next == [n \in D |-> n + 1]
           measure == [n \in D |-> N - n]
           left(n) == SubSeq(reads, n + 1, N)
           S == {n \in D : At(data, 0, f[n]) /\ FieldsFrom(data)[Len(f[n])] = left(n) \o more}
<1>1. N \in Nat /\ N = Len(reads)
  BY DEF EachReads
<1>2. Descends(D, ends, next, measure)
  BY <1>1 DEF Descends
<1>3. \A n \in D : n \in ends => n \in S
  <2>1. left(N) = <<>>
    BY <1>1, SubSeqEmpty
  <2>2. left(N) \o more = more
    BY <2>1, ConcatEmptySeq
  <2>3. At(data, 0, f[N]) /\ FieldsFrom(data)[Len(f[N])] = left(N) \o more
    <3> HIDE DEF left
    <3> QED
      BY <2>2
  <2>4. N \in S
    BY <1>1, <2>3
  <2>5. \A n \in D : n \in ends => n = N
    OBVIOUS
  <2> HIDE DEF left, N, S, D, ends
  <2> QED
    BY <2>4, <2>5
<1>4. \A n \in D : n \notin ends /\ next[n] \in D /\ next[n] \in S => n \in S
  <2> SUFFICES ASSUME NEW n \in D, n # N, At(data, 0, f[n + 1]),
                      FieldsFrom(data)[Len(f[n + 1])] = left(n + 1) \o more
               PROVE  At(data, 0, f[n]) /\ FieldsFrom(data)[Len(f[n])] = left(n) \o more
    <3> HIDE DEF left
    <3> QED
      OBVIOUS
  <2>1. n + 1 \in 1..N /\ n \in 0..N /\ (n + 1) - 1 = n
    BY <1>1
  <2>2. /\ f[n] \in Seq(Byte) /\ pieces[n + 1] \in Seq(Byte)
        /\ f[n + 1] = f[n] \o pieces[n + 1]
        /\ Len(f[n + 1]) = Len(f[n]) + Len(pieces[n + 1])
    BY <2>1, JoinsIs, ElementOfSeq
  <2>3. At(data, 0, f[n]) /\ At(data, Len(f[n]), pieces[n + 1])
    <3>1. 0 + Len(f[n]) = Len(f[n])
      BY <2>2
    <3>2. At(data, 0, f[n] \o pieces[n + 1])
      BY <2>2
    <3>3. At(data, 0, f[n]) /\ At(data, 0 + Len(f[n]), pieces[n + 1])
      BY <2>2, <3>2, AtParts
    <3> QED
      BY <3>1, <3>3
  <2> DEFINE c == Len(f[n])
             end == Len(f[n + 1])
  <2>4. ReadField(data, c) = Read(end, reads[n + 1])
    <3>1. ReadsAs(pieces[n + 1], reads[n + 1])
      BY <2>1 DEF EachReads
    <3> HIDE DEF c, end
    <3>2. ReadField(data, c) = Read(c + Len(pieces[n + 1]), reads[n + 1])
      BY <2>3, <3>1 DEF ReadsAs, c
    <3> QED
      BY <2>2, <3>2 DEF c, end
  <2>5. c \in 0..Len(data) /\ c # Len(data) /\ data \in Seq(Byte)
    <3>1. data \in Seq(Byte) /\ c + Len(pieces[n + 1]) <= Len(data)
      BY <2>3 DEF At
    <3>2. Len(pieces[n + 1]) > 0 /\ Len(pieces[n + 1]) \in Nat /\ c \in Nat
      BY <2>1, <2>2 DEF EachReads, ReadsAs
    <3> HIDE DEF c
    <3> QED
      BY <3>1, <3>2
  <2> HIDE DEF c, end, left
  <2>6. FieldsFrom(data)[c] = Prepend(reads[n + 1], FieldsFrom(data)[end])
    BY <2>4, <2>5, FieldsFromIs DEF Read
  <2>7. FieldsFrom(data)[end] = left(n + 1) \o more
    BY DEF end
  <2>8. Prepend(reads[n + 1], left(n + 1) \o more) = left(n) \o more
    <3>1. n \in 0..(Len(reads) - 1)
      BY <1>1
    <3>2. \A m : left(m) = SubSeq(reads, m + 1, Len(reads))
      BY <1>1 DEF left
    <3>3. left(n) = SubSeq(reads, n + 1, Len(reads))
      BY <3>2
    <3>4. left(n + 1) = SubSeq(reads, (n + 1) + 1, Len(reads))
      BY <3>2
    <3>5. n \in 0..Len(reads) /\ n # Len(reads)
      BY <1>1
    <3> HIDE DEF N, left
    <3>6. Prepend(reads[n + 1], SubSeq(reads, (n + 1) + 1, Len(reads)) \o more)
          = SubSeq(reads, n + 1, Len(reads)) \o more
      BY <3>5, OneMoreRead
    <3> QED
      BY <3>3, <3>4, <3>6
  <2> QED
    BY <2>3, <2>6, <2>7, <2>8 DEF c
<1>5. D \subseteq S
  <2> HIDE DEF D, S, ends, next, measure
  <2> QED
    BY <1>2, <1>3, <1>4, DescentInduction
<1>6. 0 \in D /\ left(0) = reads /\ Len(f[0]) = 0
  <2>1. 0 \in D /\ 0 + 1 = 1
    BY <1>1
  <2>2. SubSeq(reads, 1, N) = reads
    <3>1. SubSeq(reads, 1, Len(reads)) = reads
      BY SubSeqFull
    <3> QED
      BY <1>1, <3>1
  <2>3. f[0] = <<>>
    BY JoinsIs
  <2> QED
    BY <2>1, <2>2, <2>3
<1> HIDE DEF left, D
<1>7. FieldsFrom(data)[0] = reads \o more
  BY <1>5, <1>6
<1> QED
  BY <1>7, FieldsAre

-------------------------------------------------------------------------------
(* The payloads of requests *)

LEMMA FewAreNumbered == \A field \in 1..3 : Numbered(field)
BY PowerGrows, PowerIs DEF Numbered

\* What is written for each symbol, and what is read of it.
SymbolPieces(symbols) == [n \in 1..Len(symbols) |-> WriteString(1, SymbolText(symbols[n]))]
SymbolReads(symbols) ==
  [n \in 1..Len(symbols) |->
     [field |-> 1, wire |-> Delimited, value |-> SymbolText(symbols[n])]]

LEMMA SymbolPiece ==
  ASSUME NEW s \in Symbols
  PROVE  LET piece == WriteString(1, SymbolText(s))
             read  == [field |-> 1, wire |-> Delimited, value |-> SymbolText(s)]
         IN  /\ piece \in Seq(Byte) /\ Len(piece) \in 1..21
             /\ read \in FieldRead
             /\ ReadsAs(piece, read)
<1> DEFINE text == SymbolText(s)
<1>1. text \in Seq(Byte) /\ Len(text) <= 19 /\ Len(text) \in Nat
  BY SymbolTextNames
<1>2. Numbered(1) /\ 1 \in Nat
  BY FewAreNumbered
<1> HIDE DEF text
<1>3. Len(WriteKey(1, Delimited)) = 1 /\ Len(WriteVarint(Len(text))) = 1
  <2>1. (8 * 1) + Delimited = 10
    BY DEF Delimited
  <2>2. WriteKey(1, Delimited) = <<10>>
    <3>1. 10 \in Nat /\ 10 < 128
      OBVIOUS
    <3>2. WriteVarint(10) = <<10>>
      BY <3>1, VarintOfOne
    <3> QED
      BY <2>1, <3>2 DEF WriteKey
  <2>3. WriteVarint(Len(text)) = <<Len(text)>>
    <3>1. Len(text) < 128
      BY <1>1
    <3> QED
      BY <1>1, <3>1, VarintOfOne
  <2> QED
    BY <2>2, <2>3
<1>4. WriteString(1, text) \in Seq(Byte) /\ Len(WriteString(1, text)) \in 1..21
  <2>1. /\ WriteString(1, text) \in Seq(Byte)
        /\ Len(WriteString(1, text)) = Len(WriteKey(1, Delimited))
                                       + (Len(WriteVarint(Len(text))) + Len(text))
    BY <1>1, <1>2, WritesAre
  <2>2. Len(WriteString(1, text)) = 1 + (1 + Len(text))
    BY <1>3, <2>1
  <2>3. 1 + (1 + Len(text)) \in 1..21
    BY <1>1
  <2> QED
    BY <2>1, <2>2, <2>3
<1>5. [field |-> 1, wire |-> Delimited, value |-> text] \in FieldRead
  <2>1. Byte \subseteq Nat
    BY DEF Byte
  <2>2. text \in Seq(Nat)
    BY <1>1, <2>1, SeqMonotonic
  <2> QED
    BY <2>2 DEF FieldRead, Delimited
<1>6. Len(text) < Power[ValueBits]
  BY <1>1, PowerGrows, PowerIs
<1>7. \A data, c : At(data, c, WriteString(1, text)) =>
        ReadField(data, c) = Read(c + Len(WriteString(1, text)),
                                  [field |-> 1, wire |-> Delimited, value |-> text])
  BY <1>1, <1>2, <1>6, ReadTextBack
<1>8. Len(WriteString(1, text)) > 0
  <2>1. \A k \in 1..21 : k > 0
    OBVIOUS
  <2> QED
    BY <1>4, <2>1
<1>9. ReadsAs(WriteString(1, text), [field |-> 1, wire |-> Delimited, value |-> text])
  BY <1>7, <1>8 DEF ReadsAs
<1> QED
  BY <1>4, <1>5, <1>9 DEF text

LEMMA MultiSecurityJoins ==
  ASSUME NEW symbols \in Seq(Symbols)
  PROVE  /\ SymbolPieces(symbols) \in Seq(Seq(Byte))
         /\ \E f : /\ Joins(f, SymbolPieces(symbols))
                   /\ EncodeMultiSecurity(symbols) = f[Len(symbols)]
<1> DEFINE N == Len(symbols)
           pieces == SymbolPieces(symbols)
           Is(f) == f = [n \in 0..N |-> IF n = 0 THEN <<>>
                                        ELSE f[n - 1] \o WriteString(1, SymbolText(symbols[n]))]
           all == CHOOSE f : Is(f)
<1>1. N \in Nat /\ \A n \in 1..N : symbols[n] \in Symbols
  BY ElementOfSeq
<1>2. /\ pieces = [n \in 1..N |-> WriteString(1, SymbolText(symbols[n]))]
      /\ \A n \in 1..N : pieces[n] = WriteString(1, SymbolText(symbols[n]))
  BY DEF SymbolPieces
<1>3. pieces \in Seq(Seq(Byte)) /\ Len(pieces) = N
  <2>1. \A n \in 1..N : WriteString(1, SymbolText(symbols[n])) \in Seq(Byte)
    BY <1>1, SymbolPiece
  <2> HIDE DEF N, pieces
  <2> QED
    BY <1>1, <1>2, <2>1
<1>4. \A f : Is(f) <=> Joins(f, pieces)
  <2> SUFFICES ASSUME NEW f PROVE Is(f) <=> Joins(f, pieces)
    OBVIOUS
  <2> DEFINE A == [n \in 0..N |-> IF n = 0 THEN <<>>
                                  ELSE f[n - 1] \o WriteString(1, SymbolText(symbols[n]))]
             B == [n \in 0..N |-> IF n = 0 THEN <<>> ELSE f[n - 1] \o pieces[n]]
  <2>1. \A n \in 0..N : n # 0 => n \in 1..N
    BY <1>1
  <2>2. A = B
    <3> HIDE DEF pieces, N
    <3> QED
      BY <1>2, <2>1
  <2>3. Joins(f, pieces) <=> f = B
    <3> HIDE DEF pieces, N
    <3> QED
      BY <1>3 DEF Joins
  <2> HIDE DEF B
  <2> QED
    BY <2>2, <2>3
<1>5. EncodeMultiSecurity(symbols) = all[N]
  BY DEF EncodeMultiSecurity
<1>6. Is(all)
  <2>1. \E f : Is(f)
    <3> HIDE DEF Is, pieces
    <3> QED
      BY <1>3, <1>4, JoinsExist
  <2> HIDE DEF Is
  <2> QED
    BY <2>1
<1>7. Joins(all, pieces)
  <2> HIDE DEF Is, all, pieces
  <2> QED
    BY <1>4, <1>6
<1> HIDE DEF all, Is
<1> QED
  BY <1>3, <1>5, <1>7

LEMMA MultiSecurityIs ==
  ASSUME NEW symbols \in Seq(Symbols)
  PROVE  /\ EncodeMultiSecurity(symbols) \in Seq(Byte)
         /\ Len(EncodeMultiSecurity(symbols)) <= 21 * Len(symbols)
         /\ SymbolReads(symbols) \in Seq(FieldRead) /\ Len(SymbolReads(symbols)) = Len(symbols)
         /\ \A data : \A more \in Seq(FieldRead) :
              /\ At(data, 0, EncodeMultiSecurity(symbols))
              /\ FieldsFrom(data)[Len(EncodeMultiSecurity(symbols))] = more
              => Fields(data) = SymbolReads(symbols) \o more
<1> DEFINE N == Len(symbols)
           pieces == SymbolPieces(symbols)
           reads == SymbolReads(symbols)
<1>1. N \in Nat /\ \A n \in 1..N : symbols[n] \in Symbols
  BY ElementOfSeq
<1>2. /\ pieces = [n \in 1..N |-> WriteString(1, SymbolText(symbols[n]))]
      /\ pieces \in Seq(Seq(Byte))
      /\ reads = [n \in 1..N |-> [field |-> 1, wire |-> Delimited, value |-> SymbolText(symbols[n])]]
  BY MultiSecurityJoins DEF SymbolPieces, SymbolReads
<1>3. PICK f : Joins(f, pieces) /\ EncodeMultiSecurity(symbols) = f[N]
  BY MultiSecurityJoins
<1> HIDE DEF N, pieces, reads
<1>4. /\ Len(pieces) = N
      /\ \A n \in 1..N : /\ pieces[n] = WriteString(1, SymbolText(symbols[n]))
                         /\ reads[n] = [field |-> 1, wire |-> Delimited,
                                        value |-> SymbolText(symbols[n])]
  BY <1>1, <1>2
<1>5. \A n \in 1..N : /\ Len(pieces[n]) \in 1..21 /\ reads[n] \in FieldRead
                      /\ ReadsAs(pieces[n], reads[n])
  BY <1>1, <1>4, SymbolPiece
<1>6. reads \in Seq(FieldRead) /\ Len(reads) = N
  <2>1. reads = [n \in 1..N |-> reads[n]]
    BY <1>2
  <2> QED
    BY <1>1, <1>5, <2>1
<1>7. /\ \A n \in 0..N : f[n] \in Seq(Byte)
      /\ f[0] = <<>>
      /\ \A n \in 1..N : Len(f[n]) = Len(f[n - 1]) + Len(pieces[n])
  <2>1. /\ \A n \in 0..Len(pieces) : f[n] \in Seq(Byte)
        /\ f[0] = <<>>
        /\ \A n \in 1..Len(pieces) : Len(f[n]) = Len(f[n - 1]) + Len(pieces[n])
    BY <1>2, <1>3, JoinsIs
  <2> QED
    BY <1>4, <2>1
<1>8. Len(f[N]) <= 21 * N
  <2> DEFINE T == {n \in Nat : n \in 0..N => Len(f[n]) <= 21 * n}
  <2>1. 0 \in T
    BY <1>7
  <2>2. \A n \in Nat : n \in T => n + 1 \in T
    <3> SUFFICES ASSUME NEW n \in Nat, n \in T, n + 1 \in 0..N
                 PROVE  Len(f[n + 1]) <= 21 * (n + 1)
      OBVIOUS
    <3>1. n \in 0..N /\ n + 1 \in 1..N /\ (n + 1) - 1 = n
      BY <1>1
    <3>2. Len(f[n]) <= 21 * n /\ Len(f[n]) \in Nat
      BY <1>7, <3>1
    <3>3. Len(f[n + 1]) = Len(f[n]) + Len(pieces[n + 1])
      BY <1>7, <3>1
    <3>4. Len(pieces[n + 1]) \in Nat /\ Len(pieces[n + 1]) <= 21
      <4>1. \A k \in 1..21 : k \in Nat /\ k <= 21
        OBVIOUS
      <4>2. Len(pieces[n + 1]) \in 1..21
        BY <1>5, <3>1
      <4> QED
        BY <4>1, <4>2
    <3>5. \A a, b \in Nat : a <= 21 * n /\ b <= 21 => a + b <= 21 * (n + 1)
      OBVIOUS
    <3> QED
      BY <3>2, <3>3, <3>4, <3>5
  <2>3. N \in T
    <3> HIDE DEF T
    <3> QED
      BY <1>1, <2>1, <2>2, SetInduction
  <2> QED
    BY <1>1, <2>3
<1>9. ASSUME NEW data, NEW more \in Seq(FieldRead), At(data, 0, f[N]),
             FieldsFrom(data)[Len(f[N])] = more
      PROVE  Fields(data) = reads \o more
  <2>1. EachReads(pieces, reads)
    BY <1>4, <1>5, <1>6 DEF EachReads
  <2>2. At(data, 0, f[Len(pieces)]) /\ FieldsFrom(data)[Len(f[Len(pieces)])] = more
    BY <1>4, <1>9
  <2>3. \A d : \A m \in Seq(FieldRead) :
          /\ At(d, 0, f[Len(pieces)])
          /\ FieldsFrom(d)[Len(f[Len(pieces)])] = m
          => Fields(d) = reads \o m
    BY <1>2, <1>3, <1>6, <2>1, FieldsOfPieces
  <2> QED
    BY <2>2, <2>3
<1>10. f[N] \in Seq(Byte)
  BY <1>1, <1>7
<1> QED
  BY <1>3, <1>6, <1>8, <1>9, <1>10 DEF N, reads

\* A field, and what follows it.
LEMMA FieldThenMore ==
  ASSUME NEW data \in Seq(Byte), NEW c, NEW piece \in Seq(Byte), NEW read \in FieldRead,
         NEW more \in Seq(FieldRead), ReadsAs(piece, read), At(data, c, piece),
         FieldsFrom(data)[c + Len(piece)] = more
  PROVE  FieldsFrom(data)[c] = <<read>> \o more
<1>1. c \in 0..Len(data) /\ c # Len(data)
  <2>1. c \in Nat /\ Len(piece) \in Nat /\ Len(piece) > 0 /\ c + Len(piece) <= Len(data)
    BY DEF At, ReadsAs
  <2> QED
    BY <2>1
<1>2. ReadField(data, c) = Read(c + Len(piece), read)
  BY DEF ReadsAs
<1>3. FieldsFrom(data)[c] = Prepend(read, more)
  BY <1>1, <1>2, FieldsFromIs DEF Read
<1>4. more # None
  BY NoneAssumption
<1> QED
  BY <1>3, <1>4, PrependIs DEF FieldLists

\* The fields from c on, the last of which ends with the payload.
LeftAre(data, c, fields) == fields \in Seq(FieldRead) /\ FieldsFrom(data)[c] = fields

LEMMA LeftAreMore ==
  ASSUME NEW data \in Seq(Byte), NEW c, NEW piece \in Seq(Byte), NEW read \in FieldRead,
         NEW more, ReadsAs(piece, read), At(data, c, piece), LeftAre(data, c + Len(piece), more)
  PROVE  LeftAre(data, c, <<read>> \o more)
<1>1. more \in Seq(FieldRead) /\ FieldsFrom(data)[c + Len(piece)] = more
  BY DEF LeftAre
<1>2. FieldsFrom(data)[c] = <<read>> \o more
  BY <1>1, FieldThenMore
<1>3. <<read>> \in Seq(FieldRead)
  OBVIOUS
<1>4. <<read>> \o more \in Seq(FieldRead)
  BY <1>1, <1>3, ConcatProperties
<1> QED
  BY <1>2, <1>4 DEF LeftAre

LEMMA NoFieldsAtEnd ==
  ASSUME NEW data \in Seq(Byte)
  PROVE  FieldsFrom(data)[Len(data)] = <<>> /\ At(data, 0, data)
<1>1. Len(data) \in 0..Len(data)
  OBVIOUS
<1> QED
  BY <1>1, FieldsFromIs DEF At

LEMMA VarintOfLeast ==
  \A v \in Nat : v < 128 => Len(WriteVarint(v)) = 1
<1> SUFFICES ASSUME NEW v \in Nat, v < 128 PROVE Len(WriteVarint(v)) = 1
  OBVIOUS
<1>1. WriteVarint(v) = <<v>>
  BY VarintOfOne
<1>2. Len(<<v>>) = 1
  OBVIOUS
<1> QED
  BY <1>1, <1>2

LEMMA SmallNumber ==
  ASSUME NEW field \in 2..3, NEW n \in 0..1
  PROVE  LET piece == WriteNumber(field, n)
             read  == [field |-> field, wire |-> Varint, value |-> n]
         IN  /\ piece \in Seq(Byte) /\ Len(piece) = 2
             /\ read \in FieldRead
             /\ ReadsAs(piece, read)
<1>1. Numbered(field) /\ field \in Nat /\ n \in Nat /\ n < Power[ValueBits]
  BY FewAreNumbered, PowerGrows, PowerIs
<1>2. Len(WriteVarint(n)) = 1 /\ Len(WriteKey(field, Varint)) = 1
  <2>1. \A v \in Nat : v < 128 => Len(WriteVarint(v)) = 1
    BY VarintOfLeast
  <2>2. (8 * field) + Varint \in Nat /\ (8 * field) + Varint < 128 /\ n \in Nat /\ n < 128
    BY DEF Varint
  <2> QED
    BY <2>1, <2>2 DEF WriteKey
<1>3. WriteNumber(field, n) \in Seq(Byte) /\ Len(WriteNumber(field, n)) = 2
  <2>1. /\ WriteNumber(field, n) \in Seq(Byte)
        /\ Len(WriteNumber(field, n)) = Len(WriteKey(field, Varint)) + Len(WriteVarint(n))
    BY <1>1, WritesAre
  <2>2. 1 + 1 = 2
    OBVIOUS
  <2> QED
    BY <1>2, <2>1, <2>2
<1>4. [field |-> field, wire |-> Varint, value |-> n] \in FieldRead
  BY <1>1 DEF FieldRead, Varint
<1>5. ReadsAs(WriteNumber(field, n), [field |-> field, wire |-> Varint, value |-> n])
  <2>1. \A data, c : At(data, c, WriteNumber(field, n)) =>
          ReadField(data, c) = Read(c + Len(WriteNumber(field, n)),
                                    [field |-> field, wire |-> Varint, value |-> n])
    BY <1>1, ReadNumberBack
  <2>2. Len(WriteNumber(field, n)) > 0
    BY <1>3
  <2> QED
    BY <2>1, <2>2 DEF ReadsAs
<1> QED
  BY <1>3, <1>4, <1>5

\* A payload fits into a frame.
Payloads == {p \in Seq(Byte) : Len(p) <= 16777215}

\* A number of fewer than 29 bits takes four bytes at the most.
LEMMA VarintOfOneMore ==
  ASSUME NEW v \in Nat, v >= 128
  PROVE  Len(WriteVarint(v)) = 1 + Len(WriteVarint(v \div 128))
<1>1. v \div 128 \in Nat /\ ~(v < 128) /\ (v % 128) + 128 \in Byte
  BY DEF Byte
<1> DEFINE w == WriteVarint(v \div 128)
           t == <<(v % 128) + 128>>
<1>2. w \in Seq(Byte)
  BY <1>1, WriteVarintIs
<1>3. WriteVarint(v) = t \o w
  BY <1>1, WriteVarintIs
<1>4. t \in Seq(Byte) /\ Len(t) = 1
  BY <1>1
<1> HIDE DEF w, t
<1>5. Len(WriteVarint(v)) = 1 + Len(w)
  BY <1>2, <1>3, <1>4, ConcatProperties
<1> QED
  BY <1>5 DEF w

\* Numbers that take n bytes at the most.
Within(n) == {v \in Nat : Len(WriteVarint(v)) \in 1..n}

LEMMA WithinOneMore ==
  ASSUME NEW n \in Nat \ {0}, NEW v \in Nat, v < 128 \/ v \div 128 \in Within(n)
  PROVE  v \in Within(n + 1)
<1>1. CASE v < 128
  <2>1. Len(WriteVarint(v)) = 1
    BY <1>1, VarintOfLeast
  <2>2. 1 \in 1..(n + 1)
    OBVIOUS
  <2> QED
    BY <2>1, <2>2 DEF Within
<1>2. CASE v >= 128
  <2>1. Len(WriteVarint(v)) = 1 + Len(WriteVarint(v \div 128))
    BY <1>2, VarintOfOneMore
  <2>2. ~(v < 128)
    BY <1>2
  <2>3. Len(WriteVarint(v \div 128)) \in 1..n
    BY <2>2 DEF Within
  <2>4. \A x \in 1..n : 1 + x \in 1..(n + 1)
    OBVIOUS
  <2> QED
    BY <2>1, <2>3, <2>4 DEF Within
<1> QED
  BY <1>1, <1>2

LEMMA VarintOfFew ==
  \A v \in Nat : v < 268435456 => v \in Within(4)
<1>1. \A v \in Nat : v < 128 => v \in Within(1)
  <2>1. 1 \in 1..1
    OBVIOUS
  <2> QED
    BY <2>1, VarintOfLeast DEF Within
<1>2. \A n \in Nat \ {0}, v \in Nat : v < 128 \/ v \div 128 \in Within(n) => v \in Within(n + 1)
  BY WithinOneMore
<1>3. \A v \in Nat : v < 16384 => v < 128 \/ (v \div 128 \in Nat /\ v \div 128 < 128)
  BY SMT
<1>4. \A v \in Nat : v < 2097152 => v < 128 \/ (v \div 128 \in Nat /\ v \div 128 < 16384)
  BY SMT
<1>5. \A v \in Nat : v < 268435456 => v < 128 \/ (v \div 128 \in Nat /\ v \div 128 < 2097152)
  BY SMT
<1>6. \A v \in Nat : v < 16384 => v \in Within(2)
  <2>1. \A v \in Nat : v < 128 \/ v \div 128 \in Within(1) => v \in Within(2)
    BY SMT, <1>2
  <2> QED
    BY SMT, <1>1, <1>3, <2>1
<1>7. \A v \in Nat : v < 2097152 => v \in Within(3)
  <2>1. \A v \in Nat : v < 128 \/ v \div 128 \in Within(2) => v \in Within(3)
    BY SMT, <1>2
  <2> QED
    BY SMT, <1>6, <1>4, <2>1
<1> QED
  <2>1. \A v \in Nat : v < 128 \/ v \div 128 \in Within(3) => v \in Within(4)
    BY SMT, <1>2
  <2> QED
    BY SMT, <1>7, <1>5, <2>1

LEMMA AuthIs ==
  /\ EncodeAuth(Token) \in Payloads
  /\ Fields(EncodeAuth(Token)) = <<[field |-> 1, wire |-> Delimited, value |-> Token]>>
<1> DEFINE piece == EncodeAuth(Token)
           read  == [field |-> 1, wire |-> Delimited, value |-> Token]
<1>1. Token \in Seq(Byte) /\ Len(Token) \in Nat /\ Len(Token) < Power[ValueBits]
  BY SMT, ReceiverAssumption
<1>2. Len(Token) <= 16777000
  BY SMT, ReceiverAssumption
<1>0. Numbered(1) /\ 1 \in Nat /\ piece = WriteString(1, Token)
  BY FewAreNumbered DEF EncodeAuth
<1> HIDE DEF piece
<1>3. /\ piece \in Seq(Byte)
      /\ Len(piece) = Len(WriteKey(1, Delimited)) + (Len(WriteVarint(Len(Token))) + Len(Token))
      /\ Len(WriteKey(1, Delimited)) \in Nat \ {0}
  BY <1>1, <1>0, WritesAre
<1>4. Len(WriteKey(1, Delimited)) = 1
  <2>1. (8 * 1) + Delimited = 10
    BY DEF Delimited
  <2>2. 10 \in Nat /\ 10 < 128
    OBVIOUS
  <2>3. WriteVarint(10) = <<10>>
    BY <2>2, VarintOfOne
  <2>4. Len(<<10>>) = 1
    OBVIOUS
  <2> QED
    BY <2>1, <2>3, <2>4 DEF WriteKey
<1>5. Len(WriteVarint(Len(Token))) \in 1..4
  <2>1. Len(Token) < 268435456
    BY SMT, <1>1, <1>2
  <2> QED
    BY SMT, <1>1, <2>1, VarintOfFew DEF Within
<1>6. piece \in Payloads
  <2> DEFINE a == Len(WriteVarint(Len(Token)))
             b == Len(Token)
  <2>1. Len(piece) = 1 + (a + b)
    BY <1>3, <1>4
  <2>2. a \in 1..4 /\ b \in Nat
    BY <1>1, <1>5
  <2>3. b <= 16777000
    BY SMT, <1>2
  <2> HIDE DEF a, b
  <2>4. Len(piece) <= 16777215
    BY SMT, <2>1, <2>2, <2>3
  <2> QED
    BY SMT, <1>3, <2>4 DEF Payloads
<1>7. read \in FieldRead
  <2>1. Byte \subseteq Nat
    BY DEF Byte
  <2>2. Token \in Seq(Nat)
    BY <1>1, <2>1, SeqMonotonic
  <2> QED
    BY <2>2 DEF FieldRead, Delimited
<1> HIDE DEF read
<1>8. ReadsAs(piece, read)
  <2>1. \A data, c : At(data, c, piece) => ReadField(data, c) = Read(c + Len(piece), read)
    BY <1>0, <1>1, ReadTextBack DEF read
  <2>2. Len(piece) > 0
    BY <1>1, <1>3, <1>4, <1>5
  <2> QED
    BY <2>1, <2>2 DEF ReadsAs
<1>9. FieldsFrom(piece)[Len(piece)] = <<>> /\ At(piece, 0, piece)
  BY <1>3, NoFieldsAtEnd
<1>10. 0 + Len(piece) = Len(piece)
  BY <1>3
<1>11. FieldsFrom(piece)[0] = <<read>> \o <<>>
  <2>1. <<>> \in Seq(FieldRead)
    OBVIOUS
  <2> QED
    <3>1. FieldsFrom(piece)[0 + Len(piece)] = <<>>
      BY <1>9, <1>10
    <3> DEFINE none == <<>>
    <3>2. none \in Seq(FieldRead) /\ FieldsFrom(piece)[0 + Len(piece)] = none
      BY <2>1, <3>1
    <3> HIDE DEF none
    <3>3. FieldsFrom(piece)[0] = <<read>> \o none
      BY <1>3, <1>7, <1>8, <1>9, <3>2, FieldThenMore
    <3> QED
      BY <3>3 DEF none
<1>12. <<read>> \o <<>> = <<read>>
  BY <1>7, ConcatEmptySeq
<1> QED
  BY <1>6, <1>11, <1>12, FieldsAre DEF piece, read

\* What a subscription says after its symbols.
QuotesRead == [field |-> 2, wire |-> Varint, value |-> 1]
FlagRead(n) == [field |-> 3, wire |-> Varint, value |-> n]

LEMMA PullIs ==
  ASSUME NEW symbols \in Seq(Symbols), Len(symbols) <= 500
  PROVE  /\ EncodeMultiSecurity(symbols) \in Payloads
         /\ Fields(EncodeMultiSecurity(symbols)) = SymbolReads(symbols) \o <<>>
<1> DEFINE data == EncodeMultiSecurity(symbols)
           none == <<>>
<1>1. data \in Seq(Byte) /\ Len(data) <= 21 * Len(symbols)
  BY MultiSecurityIs
<1>2. Len(data) <= 16777215
  BY SMT, <1>1
<1>3. data \in Payloads
  BY SMT, <1>1, <1>2 DEF Payloads
<1>4. none \in Seq(FieldRead) /\ FieldsFrom(data)[Len(data)] = none /\ At(data, 0, data)
  BY <1>1, NoFieldsAtEnd
<1> HIDE DEF none
<1>5. Fields(data) = SymbolReads(symbols) \o none
  BY <1>4, MultiSecurityIs
<1> QED
  BY <1>3, <1>5 DEF none

LEMMA SubscriptionIs ==
  ASSUME NEW symbols \in Seq(Symbols), Len(symbols) <= 500, NEW flag \in BOOLEAN
  PROVE  /\ EncodeSubscription(symbols, flag) \in Payloads
         /\ Fields(EncodeSubscription(symbols, flag))
              = SymbolReads(symbols) \o <<QuotesRead, FlagRead(IF flag THEN 1 ELSE 0)>>
<1> DEFINE n == IF flag THEN 1 ELSE 0
           a == EncodeMultiSecurity(symbols)
           b == WriteNumber(2, 1)
           c == WriteNumber(3, n)
           none == <<>>
           last == <<FlagRead(n)>>
           both == <<QuotesRead>> \o last
           data == EncodeSubscription(symbols, flag)
<1>1. n \in 0..1 /\ data = (a \o b) \o c
  BY DEF EncodeSubscription, WriteBool, kSubTypeQuote
<1>2. a \in Seq(Byte) /\ Len(a) <= 21 * Len(symbols) /\ Len(a) \in Nat
  BY MultiSecurityIs
<1>3. /\ b \in Seq(Byte) /\ Len(b) = 2 /\ QuotesRead \in FieldRead /\ ReadsAs(b, QuotesRead)
      /\ c \in Seq(Byte) /\ Len(c) = 2 /\ FlagRead(n) \in FieldRead /\ ReadsAs(c, FlagRead(n))
  <2>1. 2 \in 2..3 /\ 3 \in 2..3 /\ 1 \in 0..1
    OBVIOUS
  <2> HIDE DEF n
  <2> QED
    BY <1>1, <2>1, SmallNumber DEF QuotesRead, FlagRead
<1> HIDE DEF a, b, c, n, data
<1>4. /\ a \o b \in Seq(Byte) /\ Len(a \o b) = Len(a) + 2
      /\ data \in Seq(Byte) /\ Len(data) = (Len(a) + 2) + 2
  <2>1. a \o b \in Seq(Byte) /\ Len(a \o b) = Len(a) + 2
    <3>1. a \o b \in Seq(Byte) /\ Len(a \o b) = Len(a) + Len(b)
      BY <1>2, <1>3, ConcatProperties
    <3> QED
      BY <1>3, <3>1
  <2>2. data \in Seq(Byte) /\ Len(data) = Len(a \o b) + Len(c)
    BY <1>1, <1>3, <2>1, ConcatProperties
  <2> QED
    BY <1>3, <2>1, <2>2
<1>5. data \in Payloads
  <2>1. Len(data) <= 16777215
    BY SMT, <1>2, <1>4
  <2> QED
    BY SMT, <1>4, <2>1 DEF Payloads
<1>6. At(data, 0, a) /\ At(data, Len(a), b) /\ At(data, Len(a) + 2, c)
  <2>1. At(data, 0, data)
    BY <1>4, NoFieldsAtEnd
  <2>2. At(data, 0, a \o b) /\ At(data, 0 + Len(a \o b), c)
    BY <1>1, <1>3, <1>4, <2>1, AtParts
  <2>3. At(data, 0, a) /\ At(data, 0 + Len(a), b)
    BY <1>2, <1>3, <2>2, AtParts
  <2>4. 0 + Len(a) = Len(a) /\ 0 + Len(a \o b) = Len(a) + 2
    BY <1>2, <1>4
  <2> QED
    BY <2>2, <2>3, <2>4
<1>7. LeftAre(data, (Len(a) + 2) + Len(c), none)
  <2>1. (Len(a) + 2) + Len(c) = Len(data)
    BY <1>3, <1>4
  <2>2. none \in Seq(FieldRead) /\ FieldsFrom(data)[Len(data)] = none
    BY <1>4, NoFieldsAtEnd
  <2> HIDE DEF none
  <2> QED
    BY <2>1, <2>2 DEF LeftAre
<1>8. LeftAre(data, Len(a) + 2, last)
  <2> HIDE DEF none
  <2>1. LeftAre(data, Len(a) + 2, <<FlagRead(n)>> \o none)
    BY <1>3, <1>4, <1>6, <1>7, LeftAreMore
  <2>2. <<FlagRead(n)>> \o none = last
    BY <1>3, ConcatEmptySeq DEF none
  <2> HIDE DEF last
  <2> QED
    BY <2>1, <2>2
<1> HIDE DEF last
<1>9. LeftAre(data, Len(a), both)
  <2>1. Len(a) + Len(b) = Len(a) + 2
    BY <1>3
  <2>2. LeftAre(data, Len(a) + Len(b), last)
    BY <1>8, <2>1
  <2> QED
    BY <1>3, <1>4, <1>6, <2>2, LeftAreMore
<1>10. both \in Seq(FieldRead) /\ FieldsFrom(data)[Len(a)] = both
  BY <1>9 DEF LeftAre
<1>11. both = <<QuotesRead, FlagRead(n)>>
  <2> DEFINE x == QuotesRead
             y == FlagRead(n)
  <2>1. x \in FieldRead /\ y \in FieldRead
    BY <1>3
  <2> HIDE DEF x, y
  <2>2. <<x>> \o <<y>> = <<x, y>>
    <3> DEFINE u == <<x>>
               v == <<y>>
               w == <<x, y>>
    <3>1. /\ u \in Seq(FieldRead) /\ Len(u) = 1 /\ u[1] = x
          /\ v \in Seq(FieldRead) /\ Len(v) = 1 /\ v[1] = y
          /\ w \in Seq(FieldRead) /\ Len(w) = 2 /\ w[1] = x /\ w[2] = y
      BY <2>1
    <3> HIDE DEF u, v, w
    <3>2. /\ u \o v \in Seq(FieldRead) /\ Len(u \o v) = Len(u) + Len(v)
          /\ \A i \in 1..(Len(u) + Len(v)) :
               (u \o v)[i] = IF i <= Len(u) THEN u[i] ELSE v[i - Len(u)]
      BY <3>1, ConcatProperties
    <3>3. Len(u \o v) = 2 /\ (u \o v)[1] = x /\ (u \o v)[2] = y
      BY <3>1, <3>2
    <3>4. \A i \in 1..2 : i = 1 \/ i = 2
      OBVIOUS
    <3>5. u \o v = w
      <4>1. \A i \in 1..Len(w) : (u \o v)[i] = w[i]
        BY <3>1, <3>3, <3>4
      <4> QED
        BY <3>1, <3>2, <3>3, <4>1, SeqEqual
    <3> QED
      BY <3>5 DEF u, v, w
  <2> QED
    BY <2>2 DEF last, x, y
<1> HIDE DEF both
<1>12. Fields(data) = SymbolReads(symbols) \o both
  BY <1>6, <1>10, MultiSecurityIs DEF a
<1> QED
  BY <1>5, <1>11, <1>12 DEF data, n

\* The bytes of a request tell its gateway what was meant.
LEMMA RequestTells ==
  ASSUME NEW command \in {Auth, QuotePull, QuoteSubscribe, QuoteUnsubscribe}, NEW id,
         NEW symbols \in SymbolLists
  PROVE  /\ Payload(command, symbols) \in Payloads
         /\ Tells(Fields(Payload(command, symbols)), Meant(command, id, symbols))
<1> DEFINE meant == Meant(command, id, symbols)
           data == Payload(command, symbols)
           reads == SymbolReads(symbols)
           rest == Rest(command)
           N == Len(symbols)
<1>1. symbols \in Seq(Symbols) /\ N \in Nat /\ N <= 500
  <2>1. PICK n \in 0..MaxSymbols : symbols \in [1..n -> Symbols]
    BY DEF SymbolLists
  <2>2. n \in Nat /\ n <= 500
    BY <2>1, ReceiverAssumption
  <2>3. symbols \in Seq(Symbols) /\ Len(symbols) = n
    BY <2>1, <2>2
  <2> QED
    BY <2>2, <2>3
<1>2. meant.command = command /\ meant.symbols = symbols
  BY DEF Meant
<1> HIDE DEF meant
<1>3. ASSUME command # Auth, Fields(data) = reads \o rest, rest \in Seq(FieldRead)
      PROVE  Tells(Fields(data), meant)
  <2>1. reads \in Seq(FieldRead) /\ Len(reads) = N
    BY <1>1, MultiSecurityIs
  <2>2. \A i \in 1..N : reads[i] = [field |-> 1, wire |-> Delimited,
                                    value |-> SymbolText(symbols[i])]
    BY <1>1 DEF SymbolReads
  <2>3. \A i \in 1..N : Names(reads[i], symbols[i])
    <3>1. \A i \in 1..N : symbols[i] \in Symbols
      BY <1>1, ElementOfSeq
    <3>2. \A i \in 1..N : ParseSymbol(SymbolText(symbols[i])) = symbols[i]
      BY <3>1, SymbolTextNames
    <3> HIDE DEF reads, N
    <3>3. ASSUME NEW i \in 1..N PROVE Names(reads[i], symbols[i])
      <4>1. reads[i] = [field |-> 1, wire |-> Delimited, value |-> SymbolText(symbols[i])]
        BY <2>2
      <4>2. ParseSymbol(SymbolText(symbols[i])) = symbols[i]
        BY <3>2
      <4>3. reads[i].field = 1 /\ reads[i].wire = Delimited
            /\ reads[i].value = SymbolText(symbols[i])
        BY <4>1
      <4> QED
        BY <4>2, <4>3 DEF Names
    <3> QED
      BY <3>3
  <2> HIDE DEF reads, data
  <2>4. /\ Fields(data) \in Seq(FieldRead)
        /\ Len(Fields(data)) = N + Len(rest)
        /\ \A i \in 1..N : Fields(data)[i] = reads[i]
        /\ \A i \in 1..Len(rest) : Fields(data)[N + i] = rest[i]
    <3> HIDE DEF N, rest
    <3>1. /\ reads \o rest \in Seq(FieldRead)
          /\ Len(reads \o rest) = Len(reads) + Len(rest)
          /\ \A i \in 1..(Len(reads) + Len(rest)) :
               (reads \o rest)[i] = IF i <= Len(reads) THEN reads[i] ELSE rest[i - Len(reads)]
      BY <1>3, <2>1, ConcatProperties
    <3>2. Len(rest) \in Nat /\ N \in Nat
      BY <1>1, <1>3, LenProperties
    <3>3. \A i \in 1..N : i \in 1..(N + Len(rest)) /\ i <= N
      BY <3>2
    <3>4. \A i \in 1..Len(rest) : N + i \in 1..(N + Len(rest)) /\ ~(N + i <= N) /\ (N + i) - N = i
      BY <3>2
    <3> QED
      BY <1>3, <2>1, <3>1, <3>3, <3>4
  <2>5. Fields(data) # None
    BY <2>4, NoneAssumption
  <2> HIDE DEF rest, N
  <2>6. Rest(meant.command) = rest /\ Len(meant.symbols) = N
    BY <1>2 DEF rest, N
  <2>7. \A i \in 1..N : Names(Fields(data)[i], meant.symbols[i])
    BY <1>2, <2>3, <2>4
  <2> QED
    BY <1>2, <1>3, <2>4, <2>5, <2>6, <2>7 DEF Tells
<1>4. CASE command = Auth
  <2>1. data = EncodeAuth(Token)
    BY <1>4 DEF Payload, QuotePull, Auth, QuoteSubscribe, QuoteUnsubscribe
  <2> QED
    BY <1>2, <1>4, <2>1, AuthIs DEF Tells, meant
<1>5. CASE command = QuotePull
  <2>1. data = EncodeMultiSecurity(symbols) /\ rest = <<>> /\ command # Auth
    BY <1>5 DEF Payload, Rest, QuotePull, Auth, QuoteSubscribe, QuoteUnsubscribe
  <2>2. rest \in Seq(FieldRead)
    BY <2>1
  <2>3. data \in Payloads /\ Fields(data) = reads \o rest
    <3> HIDE DEF data, reads, rest
    <3> QED
      BY <1>1, <2>1, PullIs DEF reads
  <2> QED
    BY <1>3, <2>1, <2>2, <2>3 DEF meant
<1>6. CASE command \in {QuoteSubscribe, QuoteUnsubscribe}
  <2> DEFINE flag == command = QuoteSubscribe
  <2>1. /\ data = EncodeSubscription(symbols, flag) /\ command # Auth
        /\ rest = <<QuotesRead, FlagRead(IF flag THEN 1 ELSE 0)>>
    <3>1. CASE command = QuoteSubscribe
      <4>1. data = EncodeSubscription(symbols, TRUE) /\ flag = TRUE
        BY <3>1 DEF Payload, QuotePull, Auth, QuoteSubscribe, QuoteUnsubscribe
      <4>2. rest = <<QuotesRead, FlagRead(1)>> /\ command # Auth
        BY <3>1 DEF Rest, Auth, QuoteSubscribe, QuoteUnsubscribe,
                    QuotesRead, FlagRead, kSubTypeQuote
      <4> QED
        BY <4>1, <4>2
    <3>2. CASE command = QuoteUnsubscribe
      <4>1. data = EncodeSubscription(symbols, FALSE) /\ flag = FALSE
        BY <3>2 DEF Payload, QuotePull, Auth, QuoteSubscribe, QuoteUnsubscribe
      <4>2. rest = <<QuotesRead, FlagRead(0)>> /\ command # Auth
        BY <3>2 DEF Rest, Auth, QuoteSubscribe, QuoteUnsubscribe,
                    QuotesRead, FlagRead, kSubTypeQuote
      <4> QED
        BY <4>1, <4>2
    <3> QED
      BY <1>6, <3>1, <3>2
  <2>2. rest \in Seq(FieldRead)
    <3>1. QuotesRead \in FieldRead /\ \A n \in 0..1 : FlagRead(n) \in FieldRead
      BY DEF FieldRead, QuotesRead, FlagRead, Varint
    <3> QED
      BY <2>1, <3>1
  <2>3. data \in Payloads /\ Fields(data) = reads \o rest
    <3>1. flag \in BOOLEAN
      OBVIOUS
    <3> HIDE DEF data, reads, rest, flag
    <3> QED
      BY <1>1, <2>1, <3>1, SubscriptionIs DEF reads
  <2> QED
    BY <1>3, <2>1, <2>2, <2>3 DEF meant
<1> QED
  BY <1>4, <1>5, <1>6 DEF meant

-------------------------------------------------------------------------------
(* Frames *)

\* A big-endian number is read back where it stands.
LEMMA U16Back ==
  ASSUME NEW v \in Nat
  PROVE  /\ WriteU16(v) \in Seq(Byte) /\ Len(WriteU16(v)) = 2
         /\ \A data, c : At(data, c, WriteU16(v)) => ReadU16(data, c + 1) = v % 65536
<1> DEFINE a == (v \div 256) % 256
           b == v % 256
           w == WriteU16(v)
<1>1. a \in Byte /\ b \in Byte /\ a \in Nat /\ b \in Nat
  BY SMT DEF Byte
<1>2. (256 * a) + b = v % 65536
  BY SMT
<1>3. w = <<a, b>>
  BY DEF WriteU16
<1> HIDE DEF a, b, w
<1>4. w \in Seq(Byte) /\ Len(w) = 2 /\ w[1] = a /\ w[2] = b
  BY <1>1, <1>3
<1>5. ASSUME NEW data, NEW c, At(data, c, w)
      PROVE  ReadU16(data, c + 1) = v % 65536
  <2>1. c \in Nat /\ data[c + 1] = w[1] /\ data[c + 2] = w[2]
    BY <1>4, <1>5 DEF At
  <2>2. (c + 1) + 1 = c + 2
    BY <2>1
  <2> QED
    BY SMT, <1>2, <1>4, <2>1, <2>2 DEF ReadU16
<1> QED
  BY SMT, <1>4, <1>5 DEF w

LEMMA U24Back ==
  ASSUME NEW v \in Nat
  PROVE  /\ WriteU24(v) \in Seq(Byte) /\ Len(WriteU24(v)) = 3
         /\ \A data, c : At(data, c, WriteU24(v)) => ReadU24(data, c + 1) = v % 16777216
<1> DEFINE a == (v \div 65536) % 256
           r == v % 65536
           u == <<a>>
           w == WriteU16(v)
           all == WriteU24(v)
<1>1. a \in Byte /\ a \in Nat /\ r \in Nat
  BY SMT DEF Byte
<1>2. (65536 * a) + r = v % 16777216
  BY SMT
<1>3. all = u \o w
  BY SMT DEF WriteU24
<1>4. u \in Seq(Byte) /\ Len(u) = 1 /\ u[1] = a
  BY SMT, <1>1
<1>5. /\ w \in Seq(Byte) /\ Len(w) = 2
      /\ \A data, c : At(data, c, w) => ReadU16(data, c + 1) = r
  BY SMT, U16Back
<1> HIDE DEF a, r, u, w, all
<1>6. all \in Seq(Byte) /\ Len(all) = 3
  <2>1. all \in Seq(Byte) /\ Len(all) = Len(u) + Len(w)
    BY <1>3, <1>4, <1>5, ConcatProperties
  <2> QED
    BY <1>4, <1>5, <2>1
<1>7. ASSUME NEW data, NEW c, At(data, c, all)
      PROVE  ReadU24(data, c + 1) = v % 16777216
  <2>1. At(data, c, u) /\ At(data, c + Len(u), w)
    BY <1>3, <1>4, <1>5, <1>7, AtParts
  <2>2. c \in Nat /\ data[c + 1] = a
    BY <1>4, <2>1 DEF At
  <2>3. ReadU16(data, (c + 1) + 1) = r
    BY <1>4, <1>5, <2>1
  <2> QED
    BY SMT, <1>2, <2>2, <2>3 DEF ReadU24
<1> QED
  BY SMT, <1>6, <1>7 DEF all

\* The numbers of 32 bits.
Words == {v \in Nat : v \div 16777216 < 256}

LEMMA U32Back ==
  ASSUME NEW v \in Words
  PROVE  /\ WriteU32(v) \in Seq(Byte) /\ Len(WriteU32(v)) = 4
         /\ \A data, c : At(data, c, WriteU32(v)) => ReadU32(data, c + 1) = v
<1> DEFINE a == (v \div 16777216) % 256
           r == v % 16777216
           u == <<a>>
           w == WriteU24(v)
           all == WriteU32(v)
<1>1. a \in Byte /\ a \in Nat /\ r \in Nat
  BY SMT DEF Byte, Words
<1>2. (16777216 * a) + r = v
  BY SMT DEF Words
<1>3. all = u \o w
  BY SMT DEF WriteU32
<1>4. u \in Seq(Byte) /\ Len(u) = 1 /\ u[1] = a
  BY SMT, <1>1
<1>5. /\ w \in Seq(Byte) /\ Len(w) = 3
      /\ \A data, c : At(data, c, w) => ReadU24(data, c + 1) = r
  BY SMT, U24Back DEF Words
<1> HIDE DEF a, r, u, w, all
<1>6. all \in Seq(Byte) /\ Len(all) = 4
  <2>1. all \in Seq(Byte) /\ Len(all) = Len(u) + Len(w)
    BY SMT, <1>3, <1>4, <1>5, ConcatProperties
  <2> QED
    BY SMT, <1>4, <1>5, <2>1
<1>7. ASSUME NEW data, NEW c, At(data, c, all)
      PROVE  ReadU32(data, c + 1) = v
  <2>1. At(data, c, u) /\ At(data, c + Len(u), w)
    BY <1>3, <1>4, <1>5, <1>7, AtParts
  <2>2. c \in Nat /\ data[c + 1] = a
    BY SMT, <1>4, <2>1 DEF At
  <2>3. ReadU24(data, (c + 1) + 1) = r
    BY SMT, <1>4, <1>5, <2>1
  <2> QED
    BY SMT, <1>2, <2>2, <2>3 DEF ReadU32
<1> QED
  BY SMT, <1>6, <1>7 DEF all

\* The numbers of 16 and of 24 bits.
Halves == 0..65535
Triples == {v \in Nat : v < 16777216}

LEMMA SmallBack ==
  /\ \A v \in Halves :
       /\ WriteU16(v) \in Seq(Byte) /\ Len(WriteU16(v)) = 2
       /\ \A data, c : At(data, c, WriteU16(v)) => ReadU16(data, c + 1) = v
  /\ \A v \in Triples :
       /\ WriteU24(v) \in Seq(Byte) /\ Len(WriteU24(v)) = 3
       /\ \A data, c : At(data, c, WriteU24(v)) => ReadU24(data, c + 1) = v
<1>1. ASSUME NEW v \in Halves
      PROVE  /\ WriteU16(v) \in Seq(Byte) /\ Len(WriteU16(v)) = 2
             /\ \A data, c : At(data, c, WriteU16(v)) => ReadU16(data, c + 1) = v
  <2>1. v \in Nat /\ v < 65536
    BY SMT DEF Halves
  <2>2. v % 65536 = v
    BY SMT, <2>1
  <2> QED
    BY SMT, <2>1, <2>2, U16Back
<1>2. ASSUME NEW v \in Triples
      PROVE  /\ WriteU24(v) \in Seq(Byte) /\ Len(WriteU24(v)) = 3
             /\ \A data, c : At(data, c, WriteU24(v)) => ReadU24(data, c + 1) = v
  <2>1. v \in Nat /\ v < 16777216
    BY SMT DEF Triples
  <2>2. v % 16777216 = v
    BY SMT, <2>1
  <2> QED
    BY SMT, <2>1, <2>2, U24Back
<1> QED
  BY <1>1, <1>2

LEMMA PayloadsAre ==
  ASSUME NEW p \in Payloads
  PROVE  p \in Seq(Byte) /\ Len(p) \in Nat /\ Len(p) \in Triples
<1>1. p \in Seq(Byte) /\ Len(p) <= 16777215
  BY SMT DEF Payloads
<1>2. Len(p) \in Nat
  BY SMT, <1>1
<1>3. Len(p) \in Triples
  BY SMT, <1>1, <1>2 DEF Triples
<1> QED
  BY SMT, <1>1, <1>2, <1>3

\* The frames the client and its gateway write.
Shaped(frame) ==
  /\ frame.type \in {Request, Response, PushPacket} /\ frame.command \in Byte
  /\ frame.flags = 0 /\ frame.statusCode = 0
  /\ frame.requestId \in Words /\ frame.timeout \in Halves
  /\ frame.payload \in Seq(Byte)

\* ... of which the length of the payload has its 24 bits.
Framed(frame) == Shaped(frame) /\ frame.payload \in Payloads

LEMMA HeaderIs ==
  ASSUME NEW frame, Shaped(frame)
  PROVE  LET head == Header(frame)
         IN  /\ head \in Seq(Byte) /\ 5 + Len(head) = HeaderLength[frame.type]
             /\ \A data, c : At(data, c, head) =>
                  /\ frame.type # PushPacket => ReadU32(data, c + 1) = frame.requestId
                  /\ frame.type = Request => ReadU16(data, c + 5) = frame.timeout
<1> DEFINE head == Header(frame)
           id == WriteU32(frame.requestId)
           time == WriteU16(frame.timeout)
<1>1. /\ id \in Seq(Byte) /\ Len(id) = 4
      /\ \A data, c : At(data, c, id) => ReadU32(data, c + 1) = frame.requestId
  BY U32Back DEF Shaped
<1>2. /\ time \in Seq(Byte) /\ Len(time) = 2
      /\ \A data, c : At(data, c, time) => ReadU16(data, c + 1) = frame.timeout
  BY SmallBack DEF Shaped
<1>3. CASE frame.type = Request
  <2>1. head = id \o time /\ frame.type # PushPacket
    BY <1>3 DEF Header, Request, Response, PushPacket
  <2>2. HeaderLength[frame.type] = 11
    BY <1>3 DEF HeaderLength, Request, Response, PushPacket
  <2> HIDE DEF id, time, head
  <2>3. head \in Seq(Byte) /\ Len(head) = Len(id) + Len(time)
    BY <1>1, <1>2, <2>1, ConcatProperties
  <2>4. 5 + Len(head) = 11
    BY <1>1, <1>2, <2>3
  <2>5. ASSUME NEW data, NEW c, At(data, c, head)
        PROVE  ReadU32(data, c + 1) = frame.requestId /\ ReadU16(data, c + 5) = frame.timeout
    <3>1. At(data, c, id) /\ At(data, c + Len(id), time)
      BY <1>1, <1>2, <2>1, <2>5, AtParts
    <3>2. ReadU32(data, c + 1) = frame.requestId
      BY <1>1, <3>1
    <3>3. ReadU16(data, (c + 4) + 1) = frame.timeout
      BY <1>1, <1>2, <3>1
    <3>4. (c + 4) + 1 = c + 5
      BY <3>1 DEF At
    <3> QED
      BY <3>2, <3>3, <3>4
  <2> QED
    BY <2>1, <2>2, <2>3, <2>4, <2>5 DEF head
<1>4. CASE frame.type = Response
  <2> DEFINE status == <<0>>
  <2>1. /\ head = id \o status /\ frame.type # Request
        /\ HeaderLength[frame.type] = 10
    BY <1>4 DEF Header, HeaderLength, Request, Response, PushPacket, Shaped
  <2>2. status \in Seq(Byte) /\ Len(status) = 1
    BY DEF Byte
  <2> HIDE DEF id, head, status
  <2>3. head \in Seq(Byte) /\ Len(head) = Len(id) + Len(status)
    BY <1>1, <2>1, <2>2, ConcatProperties
  <2>4. 5 + Len(head) = 10
    BY <1>1, <2>2, <2>3
  <2>5. ASSUME NEW data, NEW c, At(data, c, head)
        PROVE  ReadU32(data, c + 1) = frame.requestId
    <3>1. At(data, c, id)
      BY <1>1, <2>1, <2>2, <2>5, AtParts
    <3> QED
      BY <1>1, <3>1
  <2> QED
    BY <2>1, <2>3, <2>4, <2>5 DEF head
<1>5. CASE frame.type = PushPacket
  <2>1. head = <<>> /\ frame.type # Request /\ HeaderLength[frame.type] = 5
    BY <1>5 DEF Header, HeaderLength, Request, Response, PushPacket
  <2>2. head \in Seq(Byte) /\ 5 + Len(head) = 5
    BY <2>1
  <2> HIDE DEF head
  <2> QED
    BY <1>5, <2>1, <2>2 DEF head
<1> QED
  BY <1>3, <1>4, <1>5 DEF Shaped

\* What stands where in the bytes of a frame.
LEMMA FrameIs ==
  ASSUME NEW frame, Framed(frame)
  PROVE  LET data   == EncodeFrame(frame)
             header == HeaderLength[frame.type]
         IN  /\ data \in Seq(Byte) /\ Len(data) = header + Len(frame.payload)
             /\ header \in 5..11
             /\ data[1] = frame.type /\ data[2] = frame.command
             /\ frame.type # PushPacket => ReadU32(data, 3) = frame.requestId
             /\ frame.type = Request => ReadU16(data, 7) = frame.timeout
             /\ PayloadLength(data, header) = Len(frame.payload)
             /\ SubSeq(data, header + 1, header + Len(frame.payload)) = frame.payload
<1> DEFINE data == EncodeFrame(frame)
           header == HeaderLength[frame.type]
           first == <<frame.type, frame.command>>
           head == Header(frame)
           length == WriteU24(Len(frame.payload))
           payload == frame.payload
           a == first \o head
           b == a \o length
<1>1. /\ first \in Seq(Byte) /\ Len(first) = 2
      /\ first[1] = frame.type /\ first[2] = frame.command
  <2>1. frame.type \in Byte /\ frame.command \in Byte
    BY DEF Framed, Shaped, Byte, Request, Response, PushPacket
  <2> QED
    BY <2>1
<1>2. data = b \o payload
  <2>1. frame.type + frame.flags = frame.type /\ frame.command % 256 = frame.command
    <3>1. frame.type \in Nat /\ frame.flags = 0 /\ frame.command \in 0..255
      BY DEF Framed, Shaped, Byte, Request, Response, PushPacket
    <3>2. \A x \in Nat : x + 0 = x
      OBVIOUS
    <3>3. \A x \in 0..255 : x % 256 = x
      OBVIOUS
    <3> QED
      BY <3>1, <3>2, <3>3
  <2> QED
    BY <2>1 DEF EncodeFrame
<1>3. /\ head \in Seq(Byte) /\ 5 + Len(head) = header
      /\ \A d, c : At(d, c, head) =>
           /\ frame.type # PushPacket => ReadU32(d, c + 1) = frame.requestId
           /\ frame.type = Request => ReadU16(d, c + 5) = frame.timeout
  BY HeaderIs DEF Framed
<1>4. /\ payload \in Seq(Byte) /\ Len(payload) \in Nat
      /\ length \in Seq(Byte) /\ Len(length) = 3
      /\ \A d, c : At(d, c, length) => ReadU24(d, c + 1) = Len(payload)
  <2>1. payload \in Seq(Byte) /\ Len(payload) \in Nat /\ Len(payload) \in Triples
    BY PayloadsAre DEF Framed
  <2> QED
    BY <2>1, SmallBack
<1>5. header \in 5..11
  BY DEF Framed, Shaped, HeaderLength, Request, Response, PushPacket
<1> HIDE DEF data, header, first, head, length, payload
<1>6. /\ a \in Seq(Byte) /\ Len(a) = 2 + Len(head)
      /\ b \in Seq(Byte) /\ Len(b) = header
      /\ data \in Seq(Byte) /\ Len(data) = header + Len(payload)
  <2>1. a \in Seq(Byte) /\ Len(a) = 2 + Len(head)
    <3>1. a \in Seq(Byte) /\ Len(a) = Len(first) + Len(head)
      BY <1>1, <1>3, ConcatProperties
    <3> QED
      BY <1>1, <3>1
  <2> HIDE DEF a
  <2>2. b \in Seq(Byte) /\ Len(b) = Len(a) + 3
    <3>1. b \in Seq(Byte) /\ Len(b) = Len(a) + Len(length)
      BY <1>4, <2>1, ConcatProperties
    <3> QED
      BY <1>4, <3>1
  <2>3. Len(b) = header
    BY <1>3, <2>1, <2>2
  <2> HIDE DEF b
  <2>4. data \in Seq(Byte) /\ Len(data) = header + Len(payload)
    BY <1>2, <1>4, <2>2, <2>3, ConcatProperties
  <2> QED
    BY <2>1, <2>2, <2>3, <2>4
<1>7. At(data, 0, b) /\ At(data, header, payload)
  <2>1. At(data, 0, data)
    BY <1>6, NoFieldsAtEnd
  <2> HIDE DEF a, b
  <2>2. At(data, 0, b) /\ At(data, 0 + Len(b), payload)
    BY <1>2, <1>4, <1>6, <2>1, AtParts
  <2>3. 0 + Len(b) = header
    BY <1>5, <1>6
  <2> QED
    BY <2>2, <2>3
<1>8. At(data, 0, a) /\ At(data, header - 3, length)
  <2> HIDE DEF a
  <2>1. At(data, 0, a) /\ At(data, 0 + Len(a), length)
    BY <1>4, <1>6, <1>7, AtParts
  <2>2. 0 + Len(a) = header - 3
    BY <1>3, <1>5, <1>6
  <2> QED
    BY <2>1, <2>2
<1>9. At(data, 0, first) /\ At(data, 2, head)
  <2>1. At(data, 0, first) /\ At(data, 0 + Len(first), head)
    BY <1>1, <1>3, <1>8, AtParts
  <2>2. 0 + Len(first) = 2
    BY <1>1
  <2> QED
    BY <2>1, <2>2
<1>10. data[1] = frame.type /\ data[2] = frame.command
  <2>1. \A i \in 1..2 : data[0 + i] = first[i]
    BY <1>1, <1>9 DEF At
  <2>2. 1 \in 1..2 /\ 2 \in 1..2 /\ 0 + 1 = 1 /\ 0 + 2 = 2
    OBVIOUS
  <2> QED
    BY <1>1, <2>1, <2>2
<1>11. /\ frame.type # PushPacket => ReadU32(data, 3) = frame.requestId
       /\ frame.type = Request => ReadU16(data, 7) = frame.timeout
  <2>1. 2 + 1 = 3 /\ 2 + 5 = 7
    OBVIOUS
  <2> QED
    BY <1>3, <1>9, <2>1
<1>12. PayloadLength(data, header) = Len(payload)
  <2>1. ReadU24(data, (header - 3) + 1) = Len(payload)
    BY <1>4, <1>8
  <2>2. (header - 3) + 1 = header - 2
    BY <1>5
  <2> QED
    BY <2>1, <2>2 DEF PayloadLength
<1>13. SubSeq(data, header + 1, header + Len(payload)) = payload
  BY <1>7, AtIsSubSeq
<1> QED
  BY <1>5, <1>6, <1>10, <1>11, <1>12, <1>13 DEF data, header, payload

\* Only a frame that is whole, with nothing wrong in its header, is read.
LEMMA OkMeans ==
  ASSUME NEW data, NEW max, DecodeFrame(data, max).status = "Ok"
  PROVE  LET type   == data[1] % 16
             header == HeaderLength[type]
             length == PayloadLength(data, header)
         IN  /\ type \in DOMAIN HeaderLength /\ ~(Len(data) < header)
             /\ ~Unsupported(data[1]) /\ ~(length > max) /\ ~(Len(data) < header + length)
             /\ DecodeFrame(data, max) = [status |-> "Ok", frame |-> Decoded(data, type, header)]
<1> DEFINE type == data[1] % 16
           header == HeaderLength[type]
           length == PayloadLength(data, header)
           read == Decoded(data, type, header)
<1>1. \A status : Refused(status).status = status
  BY DEF Refused
<1> HIDE DEF type, header, length, read
<1> QED
  BY <1>1 DEF DecodeFrame, type, header, length, read

\* What is written is what is read, if the payload is not too long.
LEMMA FrameRead ==
  ASSUME NEW frame, Framed(frame), frame.type = PushPacket => frame.requestId = 0,
         NEW max \in Nat
  PROVE  LET decoded == DecodeFrame(EncodeFrame(frame), max)
         IN  /\ decoded.status = "Ok" <=> Len(frame.payload) <= max
             /\ decoded.status = "Ok" =>
                  /\ decoded.frame.type = frame.type
                  /\ decoded.frame.command = frame.command
                  /\ decoded.frame.requestId = frame.requestId
                  /\ decoded.frame.timeout =
                       IF frame.type = Request THEN frame.timeout ELSE 5000
                  /\ decoded.frame.payload = frame.payload
<1> DEFINE data == EncodeFrame(frame)
           type == data[1] % 16
           header == HeaderLength[frame.type]
           decoded == DecodeFrame(data, max)
           length == Len(frame.payload)
<1>1. /\ data \in Seq(Byte) /\ Len(data) = header + Len(frame.payload)
      /\ header \in 5..11
      /\ data[1] = frame.type /\ data[2] = frame.command
      /\ frame.type # PushPacket => ReadU32(data, 3) = frame.requestId
      /\ frame.type = Request => ReadU16(data, 7) = frame.timeout
      /\ PayloadLength(data, header) = Len(frame.payload)
      /\ SubSeq(data, header + 1, header + Len(frame.payload)) = frame.payload
  BY FrameIs
<1> HIDE DEF data, header
<1>2. type = frame.type /\ type \in DOMAIN HeaderLength /\ ~Unsupported(data[1])
  <2>1. frame.type \in {1, 2, 3} /\ DOMAIN HeaderLength = {1, 2, 3}
    BY DEF Framed, Shaped, HeaderLength, Request, Response, PushPacket
  <2>2. \A t \in {1, 2, 3} : t % 16 = t /\ ~Unsupported(t)
    BY DEF Unsupported
  <2> QED
    BY <1>1, <2>1, <2>2
<1>3. /\ data # <<>> /\ ~(Len(data) < header) /\ length \in Nat
      /\ ~(Len(data) < header + PayloadLength(data, header))
  <2>1. length \in Nat
    BY PayloadsAre DEF Framed
  <2>2. Len(data) > 0
    BY <1>1, <2>1
  <2> QED
    BY <1>1, <2>1, <2>2
<1> DEFINE read == Decoded(data, frame.type, header)
<1> HIDE DEF type, read
<1>4. decoded = IF PayloadLength(data, header) > max THEN Refused("PayloadTooLarge")
                ELSE [status |-> "Ok", frame |-> read]
  BY <1>2, <1>3 DEF DecodeFrame, type, header, read
<1> HIDE DEF decoded
<1>5. /\ decoded.status = "Ok" <=> length <= max
      /\ decoded.status = "Ok" => decoded.frame = read
  <2>1. Refused("PayloadTooLarge").status # "Ok"
    BY DEF Refused
  <2>2. PayloadLength(data, header) > max <=> ~(length <= max)
    BY <1>1, <1>3
  <2> QED
    BY <1>4, <2>1, <2>2
<1>6. /\ read.type = frame.type /\ read.command = data[2]
      /\ read.requestId = IF frame.type = PushPacket THEN 0 ELSE ReadU32(data, 3)
      /\ read.timeout = IF frame.type = Request THEN ReadU16(data, 7) ELSE 5000
      /\ read.payload = SubSeq(data, header + 1, header + PayloadLength(data, header))
  <2> DEFINE id == IF frame.type = PushPacket THEN 0 ELSE ReadU32(data, 3)
             time == IF frame.type = Request THEN ReadU16(data, 7) ELSE 5000
             status == IF frame.type = Response THEN data[7] ELSE 0
             flags == (data[1] \div 16) * 16
             payload == SubSeq(data, header + 1, header + PayloadLength(data, header))
  <2>1. read = [type |-> frame.type, command |-> data[2], flags |-> flags, requestId |-> id,
                timeout |-> time, statusCode |-> status, payload |-> payload]
    BY DEF Decoded, read
  <2> HIDE DEF id, time, status, flags, payload
  <2>2. /\ read.type = frame.type /\ read.command = data[2] /\ read.requestId = id
        /\ read.timeout = time /\ read.payload = payload
    BY <2>1
  <2> QED
    BY <2>2 DEF id, time, payload
<1>7. /\ read.command = frame.command /\ read.requestId = frame.requestId
      /\ read.timeout = IF frame.type = Request THEN frame.timeout ELSE 5000
      /\ read.payload = frame.payload
  <2>1. read.payload = frame.payload
    BY <1>1, <1>6
  <2>2. read.requestId = frame.requestId
    BY <1>1, <1>6
  <2>3. read.timeout = IF frame.type = Request THEN frame.timeout ELSE 5000
    BY <1>1, <1>6
  <2> QED
    BY <1>1, <1>6, <2>1, <2>2, <2>3
<1> QED
  BY <1>5, <1>6, <1>7 DEF decoded, data

LEMMA FrameBack ==
  ASSUME NEW frame, Framed(frame), frame.type # PushPacket,
         frame.type = Response => frame.timeout = 5000
  PROVE  LET data    == EncodeFrame(frame)
             decoded == DecodeFrame(data, Len(data))
         IN  /\ decoded.status = "Ok"
             /\ decoded.frame.type = frame.type
             /\ decoded.frame.command = frame.command
             /\ decoded.frame.requestId = frame.requestId
             /\ decoded.frame.timeout = frame.timeout
             /\ decoded.frame.payload = frame.payload
<1> DEFINE data == EncodeFrame(frame)
<1>1. /\ Len(data) = HeaderLength[frame.type] + Len(frame.payload)
      /\ HeaderLength[frame.type] \in 5..11
  BY FrameIs
<1>2. Len(frame.payload) \in Nat
  BY PayloadsAre DEF Framed
<1> HIDE DEF data
<1>3. Len(data) \in Nat /\ Len(frame.payload) <= Len(data)
  BY <1>1, <1>2
<1>4. frame.timeout = IF frame.type = Request THEN frame.timeout ELSE 5000
  BY DEF Framed, Shaped
<1> QED
  BY <1>3, <1>4, FrameRead DEF data

\* The bytes of any frame, whatever the length of its payload.
LEMMA FrameBytes ==
  ASSUME NEW frame, Shaped(frame)
  PROVE  LET data == EncodeFrame(frame)
         IN  data \in Seq(Byte) /\ Len(data) \in Nat /\ Len(data) >= 5 /\ data[1] \in 1..3
<1> DEFINE data == EncodeFrame(frame)
           first == <<frame.type, frame.command>>
           head == Header(frame)
           length == WriteU24(Len(frame.payload))
           payload == frame.payload
           a == first \o head
           b == a \o length
<1>1. /\ first \in Seq(Byte) /\ Len(first) = 2 /\ first[1] \in 1..3
  <2>1. frame.type \in Byte /\ frame.type \in 1..3 /\ frame.command \in Byte
    BY DEF Shaped, Byte, Request, Response, PushPacket
  <2> QED
    BY <2>1
<1>2. data = b \o payload
  <2>1. frame.type + frame.flags = frame.type /\ frame.command % 256 = frame.command
    <3>1. frame.type \in Nat /\ frame.flags = 0 /\ frame.command \in 0..255
      BY DEF Shaped, Byte, Request, Response, PushPacket
    <3>2. \A x \in Nat : x + 0 = x
      OBVIOUS
    <3>3. \A x \in 0..255 : x % 256 = x
      OBVIOUS
    <3> QED
      BY <3>1, <3>2, <3>3
  <2> QED
    BY <2>1 DEF EncodeFrame
<1>3. head \in Seq(Byte) /\ Len(head) \in Nat
  BY HeaderIs
<1>4. payload \in Seq(Byte) /\ Len(payload) \in Nat
  BY DEF Shaped
<1>5. length \in Seq(Byte) /\ Len(length) = 3
  BY SMT, <1>4, U24Back
<1> HIDE DEF data, first, head, length, payload
<1>6. a \in Seq(Byte) /\ Len(a) = Len(first) + Len(head) /\ a[1] \in 1..3
  <2>1. /\ a \in Seq(Byte) /\ Len(a) = Len(first) + Len(head)
        /\ \A i \in 1..(Len(first) + Len(head)) :
             a[i] = IF i <= Len(first) THEN first[i] ELSE head[i - Len(first)]
    BY <1>1, <1>3, ConcatProperties
  <2>2. 1 \in 1..(Len(first) + Len(head)) /\ 1 <= Len(first)
    BY <1>1, <1>3
  <2> QED
    BY <1>1, <2>1, <2>2
<1> HIDE DEF a
<1>7. b \in Seq(Byte) /\ Len(b) = Len(a) + Len(length) /\ b[1] \in 1..3
  <2>1. /\ b \in Seq(Byte) /\ Len(b) = Len(a) + Len(length)
        /\ \A i \in 1..(Len(a) + Len(length)) :
             b[i] = IF i <= Len(a) THEN a[i] ELSE length[i - Len(a)]
    <3>1. a \in Seq(Byte) /\ length \in Seq(Byte)
      BY <1>5, <1>6
    <3> QED
      BY <3>1, ConcatProperties
  <2>2. 1 \in 1..(Len(a) + Len(length)) /\ 1 <= Len(a)
    BY <1>1, <1>3, <1>5, <1>6
  <2> QED
    BY <1>6, <2>1, <2>2
<1>8. Len(b) \in Nat /\ Len(b) >= 5
  BY <1>1, <1>3, <1>5, <1>6, <1>7
<1> HIDE DEF b
<1>9. data \in Seq(Byte) /\ Len(data) = Len(b) + Len(payload) /\ data[1] \in 1..3
  <2>1. /\ data \in Seq(Byte) /\ Len(data) = Len(b) + Len(payload)
        /\ \A i \in 1..(Len(b) + Len(payload)) :
             data[i] = IF i <= Len(b) THEN b[i] ELSE payload[i - Len(b)]
    <3>1. b \in Seq(Byte) /\ payload \in Seq(Byte)
      BY <1>4, <1>7
    <3> QED
      BY <1>2, <3>1, ConcatProperties
  <2>2. 1 \in 1..(Len(b) + Len(payload)) /\ 1 <= Len(b)
    BY <1>4, <1>8
  <2> QED
    BY <1>7, <2>1, <2>2
<1>10. Len(data) \in Nat /\ Len(data) >= 5
  BY <1>4, <1>8, <1>9
<1> QED
  BY <1>9, <1>10 DEF data

\* Of what is decoded at all, the id has 32 bits and the payload fits into a frame.
LEMMA DecodedIs ==
  ASSUME NEW data \in Seq(Byte), DecodeFrame(data, MaxPayload).status = "Ok"
  PROVE  LET frame == DecodeFrame(data, MaxPayload).frame
         IN  frame.requestId \in Words /\ frame.payload \in Payloads
<1> DEFINE type == data[1] % 16
           header == HeaderLength[type]
           length == PayloadLength(data, header)
           decoded == DecodeFrame(data, MaxPayload)
           read == Decoded(data, type, header)
<1>2. /\ type \in DOMAIN HeaderLength /\ ~(Len(data) < header) /\ ~(length > MaxPayload)
      /\ ~(Len(data) < header + length)
      /\ decoded = [status |-> "Ok", frame |-> read]
  BY OkMeans
<1>3. type \in {1, 2, 3} /\ header = IF type = 1 THEN 11 ELSE IF type = 2 THEN 10 ELSE 5
  BY <1>2 DEF HeaderLength, Request, Response, PushPacket
<1> HIDE DEF type, header
<1>4. header \in 5..11 /\ (type # 3 => header >= 10) /\ Len(data) \in Nat /\ Len(data) >= header
  <2>1. header \in 5..11 /\ (type # 3 => header >= 10)
    BY <1>3
  <2> QED
    BY <1>2, <2>1
<1>5. \A i \in 1..header : data[i] \in Byte
  <2>1. \A i \in 1..header : i \in 1..Len(data)
    BY <1>4
  <2> QED
    BY <2>1, ElementOfSeq
<1>6. length \in Nat
  <2>1. /\ header - 2 \in 1..header /\ (header - 2) + 1 \in 1..header
        /\ ((header - 2) + 1) + 1 \in 1..header
    BY <1>4
  <2>2. /\ data[header - 2] \in Nat /\ data[(header - 2) + 1] \in Nat
        /\ data[((header - 2) + 1) + 1] \in Nat
    <3>1. \A x \in Byte : x \in Nat
      BY DEF Byte
    <3> QED
      BY <1>5, <2>1, <3>1
  <2> DEFINE a == data[header - 2]
             b == data[(header - 2) + 1]
             c == data[((header - 2) + 1) + 1]
  <2>3. length = (65536 * a) + ((256 * b) + c)
    BY SMT DEF PayloadLength, ReadU24, ReadU16
  <2>4. a \in Nat /\ b \in Nat /\ c \in Nat
    BY <2>2
  <2> HIDE DEF a, b, c, length
  <2> QED
    BY SMT, <2>3, <2>4
<1>7. ASSUME type # 3 PROVE ReadU32(data, 3) \in Words
  <2>1. 3 \in 1..header /\ 4 \in 1..header /\ 5 \in 1..header /\ 6 \in 1..header
    BY <1>4, <1>7
  <2>2. data[3] \in Byte /\ data[4] \in Byte /\ data[5] \in Byte /\ data[6] \in Byte
    BY <1>5, <2>1
  <2> DEFINE a == data[3]
             b == data[4]
             c == data[5]
             d == data[6]
             r == (65536 * b) + ((256 * c) + d)
  <2>3. a \in 0..255 /\ b \in 0..255 /\ c \in 0..255 /\ d \in 0..255
    BY <2>2 DEF Byte
  <2>4. ReadU32(data, 3) = (16777216 * a) + r
    BY SMT DEF ReadU32, ReadU24, ReadU16
  <2> HIDE DEF a, b, c, d
  <2>5. r \in Nat /\ r < 16777216
    BY SMT, <2>3
  <2> HIDE DEF r
  <2>6. (16777216 * a) + r \in Nat /\ ((16777216 * a) + r) \div 16777216 = a
    BY SMT, <2>3, <2>5
  <2>7. a < 256
    BY SMT, <2>3
  <2> QED
    BY SMT, <2>4, <2>6, <2>7 DEF Words
<1>8. SubSeq(data, header + 1, header + length) \in Payloads
  <2> DEFINE part == SubSeq(data, header + 1, header + length)
  <2> HIDE DEF length
  <2>1. header + length <= Len(data)
    BY <1>2, <1>4, <1>6
  <2>2. \A i \in (header + 1)..(header + length) : i \in 1..Len(data)
    BY <1>4, <1>6, <2>1
  <2>3. \A i \in (header + 1)..(header + length) : data[i] \in Byte
    BY <2>2, ElementOfSeq
  <2>4. header + 1 \in Int /\ header + length \in Int
    BY <1>4, <1>6
  <2>5. /\ part \in Seq(Byte)
        /\ Len(part) = IF header + 1 <= header + length
                       THEN ((header + length) - (header + 1)) + 1 ELSE 0
    BY <2>3, <2>4, SubSeqProperties
  <2> HIDE DEF part
  <2>6. Len(part) = length
    BY <1>4, <1>6, <2>5
  <2>7. length <= 16777215
    BY SMT, <1>2, <1>6, FramesAssumption
  <2> QED
    BY SMT, <2>5, <2>6, <2>7 DEF Payloads, part
<1>9. read.requestId \in Words /\ read.payload \in Payloads
  <2> DEFINE id == IF type = PushPacket THEN 0 ELSE ReadU32(data, 3)
             time == IF type = Request THEN ReadU16(data, 7) ELSE 5000
             status == IF type = Response THEN data[7] ELSE 0
             flags == (data[1] \div 16) * 16
             payload == SubSeq(data, header + 1, header + PayloadLength(data, header))
  <2>1. read = [type |-> type, command |-> data[2], flags |-> flags, requestId |-> id,
                timeout |-> time, statusCode |-> status, payload |-> payload]
    BY DEF Decoded
  <2>2. id \in Words
    <3>1. 0 \in Words
      BY SMT DEF Words
    <3> QED
      BY <1>7, <3>1 DEF PushPacket
  <2>3. payload \in Payloads
    BY <1>8
  <2> HIDE DEF read, id, time, status, flags, payload
  <2>4. read.requestId = id /\ read.payload = payload
    BY <2>1
  <2> QED
    BY <2>2, <2>3, <2>4
<1> QED
  BY <1>2, <1>9

-------------------------------------------------------------------------------
(* The messages of the gateway *)

LEMMA EntryIs ==
  ASSUME NEW e, Fits(e)
  PROVE  EncodeEntry(e) \in Seq(Byte)
<1>1. /\ e.field \in Nat
      /\ \A wire \in Nat : WriteKey(e.field, wire) \in Seq(Byte)
  <2>1. e.field \in Nat
    BY DEF Fits
  <2>2. \A wire \in Nat : (8 * e.field) + wire \in Nat
    BY <2>1
  <2> QED
    BY <2>1, <2>2, WriteVarintIs DEF WriteKey
<1>2. \A u, w \in Seq(Byte) : u \o w \in Seq(Byte)
  BY ConcatProperties
<1>3. 0 \in Byte /\ 2 \in Byte /\ 49 \in Byte /\ 128 \in Byte
  BY DEF Byte
<1>4. CASE e.wire = "varint"
  <2>1. EncodeEntry(e) = WriteNumber(e.field, e.number) /\ e.number \in Nat
    BY <1>4 DEF EncodeEntry, Fits
  <2> QED
    BY <1>1, <2>1, WritesAre
<1>5. CASE e.wire = "delimited"
  <2>1. EncodeEntry(e) = WriteString(e.field, e.text) /\ e.text \in Seq(Byte)
    BY <1>5 DEF EncodeEntry, Fits
  <2> QED
    BY <1>1, <2>1, WritesAre
<1>6. CASE e.wire = "fixed32"
  <2>1. EncodeEntry(e) = WriteKey(e.field, 5) \o <<0, 0, 0, 0>>
    BY <1>6 DEF EncodeEntry
  <2>2. <<0, 0, 0, 0>> \in Seq(Byte)
    BY <1>3
  <2> QED
    BY <1>1, <1>2, <2>1, <2>2
<1>7. CASE e.wire = "overlong"
  <2> DEFINE many == [i \in 1..(ValueBits \div 7 + 1) |-> 128]
             last == <<0>>
  <2>1. EncodeEntry(e) = (WriteKey(e.field, Varint) \o many) \o last
    BY <1>7 DEF EncodeEntry
  <2>2. ValueBits \div 7 + 1 \in Nat
    BY CodecAssumption
  <2>3. many \in Seq(Byte) /\ last \in Seq(Byte)
    BY <1>3, <2>2
  <2>4. Varint \in Nat
    BY DEF Varint
  <2> HIDE DEF many, last
  <2> QED
    BY <1>1, <1>2, <2>1, <2>3, <2>4
<1>8. CASE e.wire = "cut"
  <2>1. EncodeEntry(e) = WriteKey(e.field, Delimited) \o <<2, 49>>
    BY <1>8 DEF EncodeEntry
  <2>2. <<2, 49>> \in Seq(Byte) /\ Delimited \in Nat
    BY <1>3 DEF Delimited
  <2> QED
    BY <1>1, <1>2, <2>1, <2>2
<1>9. CASE e.wire = "open"
  <2>1. EncodeEntry(e) = WriteKey(e.field, Varint) \o <<128>>
    BY <1>9 DEF EncodeEntry
  <2>2. <<128>> \in Seq(Byte) /\ Varint \in Nat
    BY <1>3 DEF Varint
  <2> QED
    BY <1>1, <1>2, <2>1, <2>2
<1> QED
  BY <1>4, <1>5, <1>6, <1>7, <1>8, <1>9 DEF Fits

\* Of a payload, the pieces.
EntryPieces(entries) == [n \in 1..Len(entries) |-> EncodeEntry(entries[n])]

LEMMA EntriesJoin ==
  ASSUME NEW entries, Len(entries) \in Nat, \A n \in 1..Len(entries) : Fits(entries[n])
  PROVE  /\ EntryPieces(entries) \in Seq(Seq(Byte)) /\ Len(EntryPieces(entries)) = Len(entries)
         /\ \E f : /\ Joins(f, EntryPieces(entries))
                   /\ EncodeEntries(entries) = f[Len(entries)]
<1> DEFINE N == Len(entries)
           pieces == EntryPieces(entries)
           Is(f) == f = [n \in 0..N |-> IF n = 0 THEN <<>>
                                        ELSE f[n - 1] \o EncodeEntry(entries[n])]
           all == CHOOSE f : Is(f)
<1>1. N \in Nat /\ \A n \in 1..N : Fits(entries[n])
  OBVIOUS
<1>2. /\ pieces = [n \in 1..N |-> EncodeEntry(entries[n])]
      /\ \A n \in 1..N : pieces[n] = EncodeEntry(entries[n])
  BY DEF EntryPieces
<1>3. pieces \in Seq(Seq(Byte)) /\ Len(pieces) = N
  <2>1. \A n \in 1..N : EncodeEntry(entries[n]) \in Seq(Byte)
    BY <1>1, EntryIs
  <2> HIDE DEF N, pieces
  <2> QED
    BY <1>1, <1>2, <2>1
<1>4. \A f : Is(f) <=> Joins(f, pieces)
  <2> SUFFICES ASSUME NEW f PROVE Is(f) <=> Joins(f, pieces)
    OBVIOUS
  <2> DEFINE A == [n \in 0..N |-> IF n = 0 THEN <<>>
                                  ELSE f[n - 1] \o EncodeEntry(entries[n])]
             B == [n \in 0..N |-> IF n = 0 THEN <<>> ELSE f[n - 1] \o pieces[n]]
  <2>1. \A n \in 0..N : n # 0 => n \in 1..N
    BY <1>1
  <2>2. A = B
    <3> HIDE DEF pieces, N
    <3> QED
      BY <1>2, <2>1
  <2>3. Joins(f, pieces) <=> f = B
    <3> HIDE DEF pieces, N
    <3> QED
      BY <1>3 DEF Joins
  <2> HIDE DEF B
  <2> QED
    BY <2>2, <2>3
<1>5. EncodeEntries(entries) = all[N]
  BY DEF EncodeEntries
<1>6. Is(all)
  <2>1. \E f : Is(f)
    <3> HIDE DEF Is, pieces
    <3> QED
      BY <1>3, <1>4, JoinsExist
  <2> HIDE DEF Is
  <2> QED
    BY <2>1
<1>7. Joins(all, pieces)
  <2> HIDE DEF Is, all, pieces
  <2> QED
    BY <1>4, <1>6
<1> HIDE DEF all, Is
<1> QED
  BY <1>3, <1>5, <1>7

LEMMA EntriesAre ==
  ASSUME NEW entries, Len(entries) \in Nat, \A n \in 1..Len(entries) : Fits(entries[n])
  PROVE  EncodeEntries(entries) \in Seq(Byte)
<1> DEFINE N == Len(entries)
           pieces == EntryPieces(entries)
<1>1. pieces \in Seq(Seq(Byte)) /\ Len(pieces) = N
  BY EntriesJoin
<1>2. PICK f : Joins(f, pieces) /\ EncodeEntries(entries) = f[N]
  BY EntriesJoin
<1>3. N \in 0..Len(pieces)
  BY <1>1
<1> HIDE DEF N, pieces
<1>4. f[N] \in Seq(Byte)
  BY <1>1, <1>2, <1>3, JoinsIs
<1> QED
  BY <1>2, <1>4

LEMMA NoEntries == EncodeEntries(<<>>) = <<>> /\ IsPayload(<<>>)
<1> DEFINE none == <<>>
<1>1. Len(none) = 0 /\ none = [i \in 1..Len(none) |-> none[i]] /\ 1..0 = {}
  OBVIOUS
<1>2. \A n \in 1..Len(none) : Fits(none[n]) /\ (none[n].wire \in {"cut", "open"} => n = Len(none))
  BY <1>1
<1> HIDE DEF none
<1>3. Len(none) \in Nat /\ Len(EntryPieces(none)) = 0 /\ EntryPieces(none) \in Seq(Seq(Byte))
  BY <1>1, <1>2, EntriesJoin
<1>4. PICK f : Joins(f, EntryPieces(none)) /\ EncodeEntries(none) = f[0]
  BY <1>1, <1>2, EntriesJoin
<1>5. f[0] = <<>>
  BY <1>3, <1>4, JoinsIs
<1>6. EncodeEntries(none) = <<>>
  BY <1>4, <1>5
<1>7. Len(EncodeEntries(none)) = 0
  BY <1>6
<1>8. Len(EncodeEntries(none)) < 16777216
  BY SMT, <1>7
<1>9. IsPayload(none)
  BY SMT, <1>1, <1>2, <1>8 DEF IsPayload
<1> QED
  BY <1>6, <1>9 DEF none

\* What the gateway puts into its messages.
LEMMA SentPayloads ==
  \A p \in PushPayloads \cup AnswerPayloads \cup {<<>>} : IsPayload(p)
BY SMT, PayloadsAssumption, NoEntries DEF IsAnswer

LEMMA PayloadBytes ==
  ASSUME NEW p, IsPayload(p)
  PROVE  EncodeEntries(p) \in Payloads /\ EncodeEntries(p) \in Seq(Byte)
<1>1. Len(p) \in Nat /\ \A n \in 1..Len(p) : Fits(p[n])
  BY SMT DEF IsPayload
<1>2. EncodeEntries(p) \in Seq(Byte)
  BY SMT, <1>1, EntriesAre
<1>3. Len(EncodeEntries(p)) < 16777216 /\ Len(EncodeEntries(p)) \in Nat
  BY SMT, <1>2 DEF IsPayload
<1> QED
  BY SMT, <1>2, <1>3 DEF Payloads

\* What the messages are.
LEMMA MessagesAre ==
  ASSUME NEW new \in Messages
  PROVE  /\ new.type \in {Request, Response, PushPacket} /\ new.command \in Byte
         /\ new.id \in Words /\ new.damage \in DamageNames
         /\ new.entries \in PushPayloads \cup AnswerPayloads \cup {<<>>}
         /\ new.type = PushPacket => new.id = 0 /\ new.entries \in PushPayloads
         /\ new.type = Response => new.entries \in AnswerPayloads
<1> DEFINE Proper(m) ==
             /\ m.type \in {Request, Response, PushPacket} /\ m.command \in Byte
             /\ m.id \in Words /\ m.damage \in DamageNames
             /\ m.entries \in PushPayloads \cup AnswerPayloads \cup {<<>>}
             /\ m.type = PushPacket => m.id = 0 /\ m.entries \in PushPayloads
             /\ m.type = Response => m.entries \in AnswerPayloads
<1>1. 0 \in Words /\ Ids \subseteq Words
  BY SMT, ReceiverAssumption DEF Words
<1>2. \A type, command, id, entries, damage :
        LET m == Message(type, command, id, entries, damage)
        IN  /\ m.type = type /\ m.command = command /\ m.id = id
            /\ m.entries = entries /\ m.damage = damage
  BY DEF Message
<1>3. /\ QuotePush \in Byte /\ QuotePush + 1 \in Byte /\ QuotePull \in Byte
      /\ Heartbeat \in Byte /\ Auth \in Byte
  BY DEF Byte, QuotePush, QuotePull, Heartbeat, Auth
<1>4. "none" \in DamageNames /\ Damages \subseteq DamageNames
  BY ReceiverAssumption
<1>5. Request # Response /\ Request # PushPacket /\ Response # PushPacket
  BY DEF Request, Response, PushPacket
<1>6. ASSUME NEW p \in PushPayloads, NEW d \in Damages,
             new = Message(PushPacket, QuotePush, 0, p, d)
      PROVE  Proper(new)
  BY <1>1, <1>2, <1>3, <1>4, <1>5, <1>6
<1>7. ASSUME NEW p \in PushPayloads, new = Message(PushPacket, QuotePush + 1, 0, p, "none")
      PROVE  Proper(new)
  BY <1>1, <1>2, <1>3, <1>4, <1>5, <1>7
<1>8. ASSUME NEW id \in Ids, NEW p \in AnswerPayloads,
             new = Message(Response, QuotePull, id, p, "none")
      PROVE  Proper(new)
  BY <1>1, <1>2, <1>3, <1>4, <1>5, <1>8
<1>9. ASSUME NEW command \in {Heartbeat, Auth}, NEW id \in Ids,
             new = Message(Request, command, id, <<>>, "none")
      PROVE  Proper(new)
  BY <1>1, <1>2, <1>3, <1>4, <1>5, <1>9
<1> QED
  BY <1>6, <1>7, <1>8, <1>9 DEF Messages

\* The frame of a message, before any damage.
FrameOf(new) == WireFrame(new.type, new.command, new.id, EncodeEntries(new.entries))

LEMMA FrameOfIs ==
  ASSUME NEW new \in Messages
  PROVE  LET frame == FrameOf(new)
         IN  /\ Framed(frame) /\ (frame.type = PushPacket => frame.requestId = 0)
             /\ frame.type = new.type /\ frame.command = new.command
             /\ frame.requestId = new.id /\ frame.payload = EncodeEntries(new.entries)
<1> DEFINE frame == FrameOf(new)
<1>1. /\ frame.type = new.type /\ frame.command = new.command /\ frame.flags = 0
      /\ frame.statusCode = 0 /\ frame.requestId = new.id /\ frame.timeout = 5000
      /\ frame.payload = EncodeEntries(new.entries)
  BY DEF FrameOf, WireFrame
<1>2. 5000 \in Halves
  BY SMT DEF Halves
<1>3. EncodeEntries(new.entries) \in Seq(Byte) /\ EncodeEntries(new.entries) \in Payloads
  BY MessagesAre, SentPayloads, PayloadBytes
<1> HIDE DEF frame
<1>4. Framed(frame)
  BY <1>1, <1>2, <1>3, MessagesAre DEF Framed, Shaped
<1> QED
  BY <1>1, <1>4, MessagesAre DEF frame

\* A message is a sequence of bytes that is not empty, even when it is damaged.
LEMMA BytesAre ==
  ASSUME NEW new \in Messages
  PROVE  Bytes(new) \in Seq(Byte) /\ Len(Bytes(new)) \in Nat \ {0}
<1> DEFINE bytes == EncodeFrame(FrameOf(new))
<1>1. new.damage \in DamageNames
  BY MessagesAre
<1>3. bytes \in Seq(Byte) /\ Len(bytes) \in Nat /\ Len(bytes) >= 5 /\ bytes[1] \in 1..3
  BY FrameOfIs, FrameBytes DEF Framed
<1>4. Bytes(new) = Damaged(bytes, new.damage)
  BY DEF Bytes, FrameOf
<1> HIDE DEF bytes
<1>5. CASE new.damage = "none"
  <2>1. Bytes(new) = bytes
    BY <1>4, <1>5 DEF Damaged
  <2> QED
    BY <1>3, <2>1
<1>6. CASE new.damage \in {"type", "flag"}
  <2>1. \E k \in {4, 32} : Bytes(new) = [bytes EXCEPT ![1] = @ + k]
    BY <1>4, <1>6 DEF Damaged
  <2>2. \A k \in {4, 32} : bytes[1] + k \in Byte
    <3>1. \A x \in 1..3 : x + 4 \in Byte /\ x + 32 \in Byte
      BY DEF Byte
    <3> QED
      BY <1>3, <3>1
  <2> QED
    BY <1>3, <2>1, <2>2
<1>7. CASE new.damage = "short"
  <2>1. Bytes(new) = SubSeq(bytes, 1, Len(bytes) - 1)
    BY <1>4, <1>7 DEF Damaged
  <2>2. \A i \in 1..(Len(bytes) - 1) : bytes[i] \in Byte
    <3>1. \A i \in 1..(Len(bytes) - 1) : i \in 1..Len(bytes)
      BY <1>3
    <3> QED
      BY <1>3, <3>1, ElementOfSeq
  <2>3. /\ SubSeq(bytes, 1, Len(bytes) - 1) \in Seq(Byte)
        /\ Len(SubSeq(bytes, 1, Len(bytes) - 1))
           = IF 1 <= Len(bytes) - 1 THEN ((Len(bytes) - 1) - 1) + 1 ELSE 0
    BY <1>3, <2>2, SubSeqProperties
  <2> QED
    BY <1>3, <2>1, <2>3
<1> QED
  BY <1>1, <1>5, <1>6, <1>7 DEF DamageNames

-------------------------------------------------------------------------------
(* What is written *)

Told(meant, bytes) ==
  LET decoded == DecodeFrame(bytes, Len(bytes))
  IN  /\ decoded.status = "Ok"
      /\ decoded.frame.command = meant.command
      /\ decoded.frame.requestId = meant.id
      /\ decoded.frame.timeout = Timeout(meant.command)
      /\ meant.command # Heartbeat => Tells(Fields(decoded.frame.payload), meant)

LEMMA HeartbeatTold ==
  ASSUME NEW id \in Words, NEW payload \in Payloads
  PROVE  Told(Meant(Heartbeat, id, <<>>),
              EncodeFrame(WireFrame(Response, Heartbeat, id, payload)))
<1> DEFINE meant == Meant(Heartbeat, id, <<>>)
           frame == WireFrame(Response, Heartbeat, id, payload)
           bytes == EncodeFrame(frame)
<1>1. meant.command = Heartbeat /\ meant.id = id
  BY DEF Meant
<1>2. /\ frame.type = Response /\ frame.command = Heartbeat /\ frame.flags = 0
      /\ frame.requestId = id /\ frame.timeout = 5000 /\ frame.statusCode = 0
      /\ frame.payload = payload
  BY DEF WireFrame
<1> HIDE DEF meant, frame, bytes
<1>3. Framed(frame) /\ frame.type # PushPacket
  <2>1. 5000 \in Halves
    BY SMT DEF Halves
  <2>2. payload \in Seq(Byte)
    BY PayloadsAre
  <2>3. Heartbeat \in Byte /\ Response # PushPacket
    BY DEF Heartbeat, Byte, Response, PushPacket
  <2> QED
    BY <1>2, <2>1, <2>2, <2>3 DEF Framed, Shaped
<1>4. Timeout(Heartbeat) = 5000
  BY DEF Timeout, Heartbeat, QuotePull
<1> QED
  BY <1>1, <1>2, <1>3, <1>4, FrameBack DEF Told, bytes, meant, frame

LEMMA RequestTold ==
  ASSUME NEW command \in {Auth, QuotePull, QuoteSubscribe, QuoteUnsubscribe},
         NEW id \in Ids, NEW symbols \in SymbolLists
  PROVE  Told(Meant(command, id, symbols),
              EncodeFrame([WireFrame(Request, command, id, Payload(command, symbols))
                             EXCEPT !.timeout = Timeout(command)]))
<1> DEFINE meant == Meant(command, id, symbols)
           payload == Payload(command, symbols)
           time == Timeout(command)
           frame == [WireFrame(Request, command, id, payload) EXCEPT !.timeout = time]
           bytes == EncodeFrame(frame)
<1>1. meant.command = command /\ meant.id = id
  BY DEF Meant
<1>2. payload \in Payloads /\ Tells(Fields(payload), meant)
  BY RequestTells
<1>3. time \in Halves
  BY SMT DEF Timeout, Halves
<1> HIDE DEF meant, payload, time
<1>4. /\ frame.type = Request /\ frame.command = command /\ frame.flags = 0
      /\ frame.requestId = id /\ frame.timeout = time /\ frame.statusCode = 0
      /\ frame.payload = payload
  BY DEF WireFrame
<1> HIDE DEF frame, bytes
<1>5. Framed(frame) /\ frame.type # PushPacket /\ frame.type # Response
  <2>1. id \in Words
    BY SMT, ReceiverAssumption DEF Words
  <2>2. payload \in Seq(Byte)
    BY <1>2, PayloadsAre
  <2>3. command \in Byte /\ Request # PushPacket /\ Request # Response
    BY DEF Byte, Request, PushPacket, Response, Auth, QuotePull, QuoteSubscribe, QuoteUnsubscribe
  <2> QED
    BY <1>2, <1>3, <1>4, <2>1, <2>2, <2>3 DEF Framed, Shaped
<1> DEFINE decoded == DecodeFrame(bytes, Len(bytes))
<1>6. /\ decoded.status = "Ok"
      /\ decoded.frame.command = frame.command
      /\ decoded.frame.requestId = frame.requestId
      /\ decoded.frame.timeout = frame.timeout
      /\ decoded.frame.payload = frame.payload
  BY <1>5, FrameBack DEF bytes
<1> HIDE DEF decoded
<1>7. /\ decoded.frame.command = meant.command
      /\ decoded.frame.requestId = meant.id
      /\ decoded.frame.timeout = Timeout(meant.command)
      /\ Tells(Fields(decoded.frame.payload), meant)
  BY <1>1, <1>2, <1>4, <1>6 DEF time
<1>8. Told(meant, bytes)
  BY <1>6, <1>7 DEF Told, decoded
<1> QED
  BY <1>8 DEF meant, bytes, frame, payload, time

LEMMA MessageIsHandled ==
  ASSUME NEW data \in Seq(Byte), HandleMessage(data), WrittenIsWhatWasAsked
  PROVE  WrittenIsWhatWasAsked'
<1> DEFINE decoded == DecodeFrame(data, MaxPayload)
           frame == decoded.frame
<1>1. CASE SendNothing
  BY <1>1 DEF SendNothing, WrittenIsWhatWasAsked
<1>2. CASE decoded.status = "Ok" /\ HandleHeartbeat(frame)
  <2>1. frame.requestId \in Words /\ frame.payload \in Payloads
    BY <1>2, DecodedIs
  <2> HIDE DEF frame
  <2>2. /\ asked' = Meant(Heartbeat, frame.requestId, <<>>)
        /\ written' = EncodeFrame(WireFrame(Response, Heartbeat, frame.requestId, frame.payload))
    BY <1>2 DEF HandleHeartbeat, SendFrame
  <2>3. Told(asked', written')
    BY <2>1, <2>2, HeartbeatTold
  <2> QED
    BY <2>3 DEF Told, WrittenIsWhatWasAsked
<1> HIDE DEF decoded, frame
<1>3. \/ SendNothing
      \/ decoded.status = "Ok" /\ HandleHeartbeat(frame)
  BY DEF HandleMessage, HandleResponse, HandlePush, decoded, frame
<1> QED
  BY <1>1, <1>2, <1>3

-------------------------------------------------------------------------------
(* What is kept between the chunks *)

\* The bytes received are those from the start of a WebSocket frame on; without a
\* connection nothing is being received.
Keeping ==
  /\ stream \in Seq(Byte) /\ rx \in Seq(Byte)
  /\ taken \in 0..Len(stream)
  /\ split \in Nat /\ (split # 0 => split < Len(stream))
  /\ sent = None => Idle
  /\ up \/ sent = None
  /\ RxIsOfThisFrame

RxInv == Keeping /\ WrittenIsWhatWasAsked

\* A piece of a sequence of bytes, and two that are adjacent.
LEMMA Piece ==
  ASSUME NEW s \in Seq(Byte), NEW m \in Nat, NEW n \in Nat, m <= n, n <= Len(s)
  PROVE  SubSeq(s, m + 1, n) \in Seq(Byte) /\ Len(SubSeq(s, m + 1, n)) = n - m
<1>1. \A i \in (m + 1)..n : i \in 1..Len(s)
  OBVIOUS
<1>2. \A i \in (m + 1)..n : s[i] \in Byte
  BY <1>1, ElementOfSeq
<1>3. /\ SubSeq(s, m + 1, n) \in Seq(Byte)
      /\ Len(SubSeq(s, m + 1, n)) = IF m + 1 <= n THEN (n - (m + 1)) + 1 ELSE 0
  BY <1>2, SubSeqProperties
<1> QED
  BY <1>3

LEMMA AdjacentPieces ==
  ASSUME NEW s \in Seq(Byte), NEW k \in Nat, NEW m \in Nat, NEW n \in Nat,
         k <= m, m <= n, n <= Len(s)
  PROVE  SubSeq(s, k + 1, m) \o SubSeq(s, m + 1, n) = SubSeq(s, k + 1, n)
<1> DEFINE u == SubSeq(s, k + 1, m)
           v == SubSeq(s, m + 1, n)
           w == SubSeq(s, k + 1, n)
<1>2. /\ u \in Seq(Byte) /\ Len(u) = m - k
      /\ v \in Seq(Byte) /\ Len(v) = n - m
      /\ w \in Seq(Byte) /\ Len(w) = n - k
  BY Piece
<1>3. \A i \in 1..(m - k) : u[i] = s[k + i]
  <2>1. \A i \in 1..(m - k) : i \in 1..Len(u) /\ (k + 1) + i - 1 = k + i
    BY <1>2
  <2> QED
    BY <2>1
<1>4. \A i \in 1..(n - m) : v[i] = s[m + i]
  OBVIOUS
<1>5. \A i \in 1..(n - k) : w[i] = s[k + i]
  OBVIOUS
<1> HIDE DEF u, v, w
<1>6. /\ u \o v \in Seq(Byte) /\ Len(u \o v) = Len(u) + Len(v)
      /\ \A i \in 1..(Len(u) + Len(v)) :
           (u \o v)[i] = IF i <= Len(u) THEN u[i] ELSE v[i - Len(u)]
  BY <1>2, ConcatProperties
<1>7. Len(u \o v) = Len(w)
  BY <1>2, <1>6
<1>8. ASSUME NEW i \in 1..Len(w) PROVE (u \o v)[i] = w[i]
  <2>1. i \in 1..(n - k) /\ i \in 1..(Len(u) + Len(v))
    BY <1>2
  <2>2. CASE i <= m - k
    <3>1. i \in 1..(m - k)
      BY <2>1, <2>2
    <3> QED
      BY <1>2, <1>3, <1>5, <1>6, <2>1, <2>2, <3>1
  <2>3. CASE i > m - k
    <3>1. i - (m - k) \in 1..(n - m) /\ m + (i - (m - k)) = k + i /\ ~(i <= m - k)
      BY <2>1, <2>3
    <3>2. (u \o v)[i] = v[i - (m - k)]
      BY <1>2, <1>6, <2>1, <3>1
    <3>3. v[i - (m - k)] = s[k + i]
      BY <1>4, <3>1
    <3> QED
      BY <1>5, <2>1, <3>2, <3>3
  <2> QED
    BY <2>1, <2>2, <2>3
<1>9. u \o v = w
  BY <1>2, <1>6, <1>7, <1>8, SeqEqual
<1> QED
  BY <1>9 DEF u, v, w

LEMMA RxInvInit == Init => RxInv
<1> SUFFICES ASSUME Init PROVE RxInv
  OBVIOUS
<1>1. rx = <<>> /\ stream = <<>> /\ taken = 0 /\ split = 0 /\ up = TRUE /\ sent = None /\ asked = None
  BY DEF Init
<1>2. <<>> \in Seq(Byte) /\ Len(<<>>) = 0
  OBVIOUS
<1>3. Idle
  BY <1>1, <1>2 DEF Idle
<1>4. RxIsOfThisFrame
  BY <1>1, <1>3 DEF RxIsOfThisFrame
<1>5. 0 \in 0..0
  OBVIOUS
<1> QED
  BY <1>1, <1>2, <1>3, <1>4, <1>5 DEF RxInv, Keeping, WrittenIsWhatWasAsked

\* The bytes so far, from the start of the WebSocket frame they are of.
LEMMA NowIs ==
  ASSUME RxInv, NEW n \in 1..MaxChunk, up, ~Idle, taken + n <= FrameEnd
  PROVE  LET now == (IF taken - FrameStart = 0 THEN <<>> ELSE rx)
                      \o SubSeq(stream, taken + 1, taken + n)
         IN  /\ now = SubSeq(stream, FrameStart + 1, taken + n)
             /\ now \in Seq(Byte) /\ Len(now) = (taken + n) - FrameStart
             /\ FrameStart \in Nat /\ FrameStart <= taken /\ taken \in Nat /\ n \in Nat \ {0}
             /\ FrameEnd \in Nat /\ FrameEnd <= Len(stream)
<1> DEFINE bytes == SubSeq(stream, taken + 1, taken + n)
           now == (IF taken - FrameStart = 0 THEN <<>> ELSE rx) \o bytes
<1>1. /\ stream \in Seq(Byte) /\ rx \in Seq(Byte) /\ taken \in Nat /\ taken <= Len(stream)
      /\ split \in Nat /\ (split # 0 => split < Len(stream)) /\ n \in Nat \ {0}
      /\ Len(stream) \in Nat
  BY ReceiverAssumption DEF RxInv, Keeping
<1>2. /\ FrameStart \in Nat /\ FrameStart <= taken
      /\ FrameEnd \in Nat /\ FrameEnd <= Len(stream)
  BY <1>1 DEF FrameStart, FrameEnd, InSecond
<1>3. taken + n \in Nat /\ taken + n <= Len(stream) /\ taken <= taken + n
  BY <1>1, <1>2
<1>4. bytes \in Seq(Byte)
  BY <1>1, <1>3, Piece
<1> HIDE DEF bytes
<1>5. CASE taken = FrameStart
  <2>1. taken - FrameStart = 0
    BY <1>1, <1>5
  <2>2. now = bytes
    BY <1>4, <2>1, ConcatEmptySeq
  <2> QED
    BY <1>1, <1>2, <1>3, <1>5, <2>2, Piece DEF bytes
<1>6. CASE taken # FrameStart
  <2>1. taken - FrameStart # 0
    BY <1>1, <1>2, <1>6
  <2>2. ~(taken = split /\ split # 0)
    BY <1>1, <1>6 DEF FrameStart, InSecond
  <2>3. rx = SubSeq(stream, FrameStart + 1, taken)
    BY <2>2 DEF RxInv, Keeping, RxIsOfThisFrame
  <2>4. now = rx \o bytes
    BY <2>1
  <2>5. now = SubSeq(stream, FrameStart + 1, taken + n)
    BY <1>1, <1>2, <1>3, <2>3, <2>4, AdjacentPieces DEF bytes
  <2> HIDE DEF now
  <2>6. FrameStart <= taken + n
    BY <1>1, <1>2
  <2>7. now \in Seq(Byte) /\ Len(now) = (taken + n) - FrameStart
    BY <1>1, <1>2, <1>3, <2>5, <2>6, Piece
  <2> QED
    BY <1>1, <1>2, <2>5, <2>7 DEF now, bytes
<1> QED
  BY <1>5, <1>6

\* Each chunk is put where it belongs.
LEMMA ChunkKeeps ==
  ASSUME RxInv, NEW n \in 1..MaxChunk, Chunk(n)
  PROVE  RxInv'
<1> DEFINE bytes == SubSeq(stream, taken + 1, taken + n)
           offset == taken - FrameStart
           length == FrameEnd - FrameStart
           fin == split = 0 \/ InSecond
           now == (IF offset = 0 THEN <<>> ELSE rx) \o bytes
<1>1. /\ up /\ ~Idle /\ taken + n <= FrameEnd /\ taken' = taken + n
      /\ up' = up /\ sent' = sent /\ stream' = stream /\ split' = split
      /\ HandleData(bytes, offset, length, fin)
  BY DEF Chunk
<1>2. /\ now = SubSeq(stream, FrameStart + 1, taken + n)
      /\ now \in Seq(Byte) /\ Len(now) = (taken + n) - FrameStart
      /\ FrameStart \in Nat /\ FrameStart <= taken /\ taken \in Nat /\ n \in Nat \ {0}
      /\ FrameEnd \in Nat /\ FrameEnd <= Len(stream)
  BY <1>1, NowIs
<1>3. \/ /\ fin /\ Len(now) >= length
         /\ HandleMessage(now)
         /\ rx' = <<>>
      \/ /\ ~(fin /\ Len(now) >= length)
         /\ rx' = now
         /\ SendNothing
  BY <1>1 DEF HandleData
<1> HIDE DEF now
<1>4. WrittenIsWhatWasAsked'
  <2>1. CASE HandleMessage(now)
    BY <1>2, <2>1, MessageIsHandled DEF RxInv
  <2>2. CASE SendNothing
    BY <2>2 DEF RxInv, SendNothing, WrittenIsWhatWasAsked
  <2> QED
    BY <1>3, <2>1, <2>2
<1>5. /\ stream \in Seq(Byte) /\ Len(stream) \in Nat /\ taken <= Len(stream)
      /\ split \in Nat /\ (split # 0 => split < Len(stream)) /\ (sent = None => Idle)
  BY DEF RxInv, Keeping
<1>6. /\ stream' \in Seq(Byte) /\ taken' \in 0..Len(stream')
      /\ split' \in Nat /\ (split' # 0 => split' < Len(stream'))
      /\ (sent' = None => Idle') /\ (up' \/ sent' = None)
  <2>1. sent # None
    BY <1>1, <1>5
  <2>2. taken + n \in 0..Len(stream)
    BY <1>1, <1>2, <1>5
  <2> QED
    BY <1>1, <1>5, <2>1, <2>2
<1>7. rx' \in Seq(Byte) /\ RxIsOfThisFrame'
  <2>1. CASE fin /\ Len(now) >= length /\ rx' = <<>>
    <3>1. FrameEnd = Len(stream)
      BY <2>1 DEF FrameEnd
    <3>2. taken + n = Len(stream)
      BY <1>1, <1>2, <2>1, <3>1
    <3>3. Idle'
      BY <1>1, <3>2 DEF Idle
    <3>4. rx' \in Seq(Byte)
      BY <2>1
    <3> QED
      BY <2>1, <3>3, <3>4 DEF RxIsOfThisFrame
  <2>2. CASE ~(fin /\ Len(now) >= length) /\ rx' = now
    <3>1. rx' = SubSeq(stream', FrameStart + 1, taken') /\ rx' \in Seq(Byte)
      BY <1>1, <1>2, <2>2
    <3>2. CASE fin
      <4>1. FrameEnd = Len(stream)
        BY <3>2 DEF FrameEnd
      <4>2. taken + n # Len(stream)
        BY <1>1, <1>2, <2>2, <3>2, <4>1
      <4>3. ~Idle'
        BY <1>1, <4>2 DEF Idle
      <4>4. FrameStart' = FrameStart /\ ~(taken' = split' /\ split' # 0)
        BY <1>1, <1>2, <1>5, <3>2 DEF FrameStart, InSecond
      <4>5. rx' = SubSeq(stream', FrameStart' + 1, taken')
        BY <3>1, <4>4
      <4>6. RxIsOfThisFrame'
        BY <4>3, <4>4, <4>5 DEF RxIsOfThisFrame
      <4> QED
        BY <3>1, <4>6
    <3>3. CASE ~fin
      <4>1. split # 0 /\ taken < split /\ FrameEnd = split /\ FrameStart = 0
        BY <1>2, <1>5, <3>3 DEF FrameEnd, FrameStart, InSecond
      <4>2. taken + n <= split /\ taken + n # Len(stream)
        BY <1>1, <1>2, <1>5, <4>1
      <4>3. ~Idle'
        BY <1>1, <4>2 DEF Idle
      <4>4. CASE taken' = split'
        <5>1. rx' = SubSeq(stream', 1, split')
          BY <3>1, <4>1, <4>4
        <5>2. taken' = split' /\ split' # 0
          BY <1>1, <4>1, <4>4
        <5>3. RxIsOfThisFrame'
          BY <4>3, <5>1, <5>2 DEF RxIsOfThisFrame
        <5> QED
          BY <3>1, <5>3
      <4>5. CASE taken' # split'
        <5>1. ~(taken' >= split')
          BY <1>1, <1>2, <1>5, <4>2, <4>5
        <5>2. FrameStart' = 0
          BY <5>1 DEF FrameStart, InSecond
        <5>3. rx' = SubSeq(stream', FrameStart' + 1, taken')
          BY <3>1, <4>1, <5>2
        <5>4. RxIsOfThisFrame'
          BY <4>3, <4>5, <5>3 DEF RxIsOfThisFrame
        <5> QED
          BY <3>1, <5>4
      <4> QED
        BY <4>4, <4>5
    <3> QED
      BY <3>1, <3>2, <3>3
  <2> QED
    BY <1>3, <2>1, <2>2
<1> QED
  BY <1>4, <1>6, <1>7 DEF RxInv, Keeping

\* What the other steps do to what is kept.
LEMMA StepKeeps ==
  ASSUME RxInv, Next
  PROVE  RxInv'
<1>1. /\ stream \in Seq(Byte) /\ rx \in Seq(Byte)
      /\ taken \in 0..Len(stream)
      /\ split \in Nat /\ (split # 0 => split < Len(stream))
      /\ (sent = None => Idle) /\ (up \/ sent = None)
      /\ RxIsOfThisFrame /\ WrittenIsWhatWasAsked
  BY DEF RxInv, Keeping
<1>2. <<>> \in Seq(Byte) /\ Len(<<>>) = 0 /\ 0 \in Nat /\ 0 \in 0..0
  OBVIOUS
<1>3. ASSUME rx' = rx \/ rx' = <<>>, NoMessage, up' => rx' = <<>>, WrittenIsWhatWasAsked'
      PROVE  RxInv'
  <2>1. sent' = None /\ stream' = <<>> /\ split' = 0 /\ taken' = 0
    BY <1>3 DEF NoMessage
  <2>2. Idle'
    BY <1>2, <2>1 DEF Idle
  <2>3. RxIsOfThisFrame'
    BY <1>3, <2>2 DEF RxIsOfThisFrame
  <2>4. rx' \in Seq(Byte)
    BY <1>1, <1>2, <1>3
  <2> QED
    BY <1>2, <1>3, <2>1, <2>2, <2>3, <2>4 DEF RxInv, Keeping
<1>4. ASSUME NEW new \in Messages, StartMessage(new)
      PROVE  RxInv'
  <2>1. /\ up /\ sent = None /\ asked = None
        /\ sent' = new /\ stream' = Bytes(new) /\ taken' = 0
        /\ split' \in 0..(Len(stream') - 1)
        /\ up' = up /\ rx' = rx /\ asked' = asked
    <3>1. Len(Bytes(new)) \in Nat \ {0}
      BY BytesAre
    <3>2. stream' = Bytes(new)
      BY <1>4 DEF StartMessage
    <3>3. 0 \in 0..(Len(stream') - 1)
      BY <3>1, <3>2
    <3> QED
      BY <1>4, <3>3 DEF StartMessage, Quiet
  <2>2. stream' \in Seq(Byte) /\ Len(stream') \in Nat \ {0}
    BY <2>1, BytesAre
  <2>3. split' \in Nat /\ split' < Len(stream') /\ taken' \in 0..Len(stream')
    BY <2>1, <2>2
  <2>4. sent' # None
    BY <2>1, MessagesAssumption
  <2>5. rx = <<>>
    BY <1>1, <2>1 DEF RxIsOfThisFrame
  <2>6. ~Idle'
    BY <2>1, <2>2 DEF Idle
  <2>7. ~(taken' = split' /\ split' # 0) /\ FrameStart' = 0
    BY <2>1, <2>3 DEF FrameStart, InSecond
  <2>8. SubSeq(stream', 0 + 1, 0) = <<>>
    <3>1. \A s \in Seq(Byte) : SubSeq(s, 0 + 1, 0) = <<>>
      BY SubSeqEmpty
    <3> QED
      BY <2>2, <3>1
  <2>9. RxIsOfThisFrame'
    BY <2>1, <2>5, <2>6, <2>7, <2>8 DEF RxIsOfThisFrame
  <2>10. WrittenIsWhatWasAsked'
    BY <2>1 DEF WrittenIsWhatWasAsked
  <2> QED
    BY <1>1, <2>1, <2>2, <2>3, <2>4, <2>9, <2>10 DEF RxInv, Keeping
<1>5. CASE Finish
  <2>1. up /\ Idle /\ NoMessage /\ asked' = None /\ up' = up /\ rx' = rx
    BY <1>5 DEF Finish
  <2>2. rx = <<>>
    BY <1>1, <2>1 DEF RxIsOfThisFrame
  <2>3. WrittenIsWhatWasAsked'
    BY <2>1 DEF WrittenIsWhatWasAsked
  <2> QED
    BY <1>3, <2>1, <2>2, <2>3
<1>6. CASE Close
  <2>1. /\ sent = None /\ up' = FALSE
        /\ sent' = sent /\ stream' = stream /\ split' = split /\ taken' = taken
        /\ HandleData(CloseFrame, 0, Len(CloseFrame), TRUE)
    BY <1>6 DEF Close, message
  <2>2. CloseFrame \in Seq(Byte)
    BY DEF CloseFrame, Byte
  <2> DEFINE now == <<>> \o CloseFrame
  <2>3. now \in Seq(Byte)
    BY <2>2, ConcatEmptySeq
  <2>4. \/ HandleMessage(now) /\ rx' = <<>>
        \/ SendNothing /\ rx' = now
    BY <2>1 DEF HandleData
  <2> HIDE DEF now
  <2>5. WrittenIsWhatWasAsked'
    <3>1. CASE HandleMessage(now)
      BY <1>1, <2>3, <3>1, MessageIsHandled
    <3>2. CASE SendNothing
      BY <1>1, <3>2 DEF SendNothing, WrittenIsWhatWasAsked
    <3> QED
      BY <2>4, <3>1, <3>2
  <2>6. rx' \in Seq(Byte)
    BY <1>2, <2>3, <2>4
  <2>7. Idle' /\ RxIsOfThisFrame'
    BY <1>1, <2>1 DEF Idle, RxIsOfThisFrame
  <2> QED
    BY <1>1, <2>1, <2>5, <2>6, <2>7 DEF RxInv, Keeping
<1>7. CASE Lose
  <2>1. up' = FALSE /\ NoMessage /\ rx' = rx /\ asked' = asked /\ written' = written
    BY <1>7 DEF Lose
  <2>2. WrittenIsWhatWasAsked'
    BY <1>1, <2>1 DEF WrittenIsWhatWasAsked
  <2> QED
    BY <1>3, <2>1, <2>2
<1>8. CASE Connect
  <2>1. /\ ~up /\ up' = TRUE /\ rx' = <<>>
        /\ sent' = sent /\ stream' = stream /\ split' = split /\ taken' = taken
        /\ asked' = asked /\ written' = written
    BY <1>8 DEF Connect, message
  <2>2. Idle'
    BY <1>1, <2>1 DEF Idle
  <2>3. RxIsOfThisFrame' /\ WrittenIsWhatWasAsked'
    BY <1>1, <2>1, <2>2 DEF RxIsOfThisFrame, WrittenIsWhatWasAsked
  <2> QED
    BY <1>1, <1>2, <2>1, <2>2, <2>3 DEF RxInv, Keeping
<1>9. CASE AskSomething
  <2>1. PICK command \in {Auth, QuotePull, QuoteSubscribe, QuoteUnsubscribe}, id \in Ids,
             symbols \in SymbolLists : Ask(command, id, symbols)
    BY <1>9 DEF AskSomething
  <2>2. /\ up' = up /\ rx' = rx
        /\ sent' = sent /\ stream' = stream /\ split' = split /\ taken' = taken
        /\ asked' = Meant(command, id, symbols)
        /\ written' = EncodeFrame([WireFrame(Request, command, id, Payload(command, symbols))
                                     EXCEPT !.timeout = Timeout(command)])
    BY <2>1 DEF Ask, SendFrame, message
  <2>3. Told(asked', written')
    BY <2>2, RequestTold
  <2>4. WrittenIsWhatWasAsked'
    BY <2>3 DEF Told, WrittenIsWhatWasAsked
  <2>5. Idle' = Idle /\ RxIsOfThisFrame'
    BY <1>1, <2>2 DEF Idle, RxIsOfThisFrame, FrameStart, InSecond
  <2> QED
    BY <1>1, <2>2, <2>4, <2>5 DEF RxInv, Keeping
<1>10. ASSUME NEW n \in 1..MaxChunk, Chunk(n)
       PROVE  RxInv'
  BY <1>10, ChunkKeeps
<1> QED
  BY <1>4, <1>5, <1>6, <1>7, <1>8, <1>9, <1>10 DEF Next

LEMMA RxInvHolds == Spec => []RxInv
<1>1. RxInv /\ [Next]_vars => RxInv'
  <2> SUFFICES ASSUME RxInv, [Next]_vars PROVE RxInv'
    OBVIOUS
  <2>1. CASE Next
    BY <2>1, StepKeeps
  <2>2. CASE UNCHANGED vars
    BY <2>2 DEF RxInv, Keeping, vars, message, Idle, RxIsOfThisFrame, FrameStart, InSecond,
                WrittenIsWhatWasAsked
  <2> QED
    BY <2>1, <2>2
<1> QED
  BY <1>1, RxInvInit, PTL DEF Spec

\* The bytes kept are those of the WebSocket frame that is being received: whatever the
\* chunks a message comes in, and after any closing, loss and new connection,
\* handle_websocket_event has in websocket_rx_ what the library handed over of this
\* frame, and nothing else.
THEOREM RxIsOfThisFrameHolds == Spec => []RxIsOfThisFrame
<1>1. RxInv => RxIsOfThisFrame
  BY DEF RxInv, Keeping
<1> QED
  BY <1>1, RxInvHolds, PTL

\* The gateway reads in every frame the client writes what the client meant: for every
\* token, every list of up to 500 symbols, every id and every width of a varint, what
\* send_stream_request and the answer to a heartbeat write is decoded again to the
\* command, the id, the timeout and the token or symbols they were written for.
THEOREM WrittenIsWhatWasAskedHolds == Spec => []WrittenIsWhatWasAsked
<1>1. RxInv => WrittenIsWhatWasAsked
  BY DEF RxInv
<1> QED
  BY <1>1, RxInvHolds, PTL


-------------------------------------------------------------------------------
(* What is made of a message *)

\* An entry that can be read, and the field it is read as.
Sound(e) == e.field # 0 /\ e.wire \in {"varint", "delimited"}

FieldOf(e) ==
  [field |-> e.field,
   wire  |-> IF e.wire = "varint" THEN Varint ELSE Delimited,
   value |-> IF e.wire = "varint" THEN e.number ELSE e.text]

LEMMA SoundIsRead ==
  ASSUME NEW e, Fits(e), Sound(e)
  PROVE  FieldOf(e) \in FieldRead /\ ReadsAs(EncodeEntry(e), FieldOf(e))
<1>1. /\ e.field \in Nat \ {0} /\ e.field < Power[FieldBits]
      /\ (8 * e.field) + 7 < Power[ValueBits] /\ Power[ValueBits] \in Nat
  BY PowerIs, PowerGrows DEF Fits, Sound
<1>2. Numbered(e.field)
  BY <1>1 DEF Numbered
<1>3. CASE e.wire = "varint"
  <2>1. /\ EncodeEntry(e) = WriteNumber(e.field, e.number)
        /\ e.number \in Nat /\ e.number < Power[ValueBits]
    BY <1>3 DEF EncodeEntry, Fits
  <2>2. FieldOf(e) = [field |-> e.field, wire |-> Varint, value |-> e.number]
    BY <1>3 DEF FieldOf
  <2>3. FieldOf(e) \in FieldRead
    BY <1>1, <2>1, <2>2 DEF FieldRead, Varint
  <2>4. /\ WriteKey(e.field, Varint) \in Seq(Byte) /\ Len(WriteKey(e.field, Varint)) \in Nat \ {0}
        /\ WriteVarint(e.number) \in Seq(Byte)
        /\ Len(WriteNumber(e.field, e.number))
             = Len(WriteKey(e.field, Varint)) + Len(WriteVarint(e.number))
    BY <1>1, <2>1, WritesAre
  <2>5. Len(EncodeEntry(e)) > 0
    BY <2>1, <2>4
  <2>6. \A data, c : At(data, c, EncodeEntry(e)) =>
          ReadField(data, c) = Read(c + Len(EncodeEntry(e)), FieldOf(e))
    BY <1>2, <2>1, <2>2, ReadNumberBack
  <2> QED
    BY <2>3, <2>5, <2>6 DEF ReadsAs
<1>4. CASE e.wire = "delimited"
  <2>1. /\ EncodeEntry(e) = WriteString(e.field, e.text)
        /\ e.text \in Seq(Byte) /\ Len(e.text) < Power[ValueBits]
    BY <1>4 DEF EncodeEntry, Fits
  <2>2. FieldOf(e) = [field |-> e.field, wire |-> Delimited, value |-> e.text]
    BY <1>4 DEF FieldOf
  <2>3. FieldOf(e) \in FieldRead
    <3>1. e.text \in Seq(Nat)
      <4>1. \A b \in Byte : b \in Nat
        BY DEF Byte
      <4>2. e.text \in [1..Len(e.text) -> Byte] /\ Len(e.text) \in Nat
        BY <2>1
      <4>3. e.text \in [1..Len(e.text) -> Nat]
        BY <4>1, <4>2
      <4> QED
        BY <4>2, <4>3
    <3> QED
      BY <1>1, <2>2, <3>1 DEF FieldRead, Delimited
  <2>4. /\ WriteKey(e.field, Delimited) \in Seq(Byte)
        /\ Len(WriteKey(e.field, Delimited)) \in Nat \ {0}
        /\ WriteVarint(Len(e.text)) \in Seq(Byte)
        /\ Len(WriteString(e.field, e.text))
             = Len(WriteKey(e.field, Delimited)) + (Len(WriteVarint(Len(e.text))) + Len(e.text))
    BY <1>1, <2>1, WritesAre
  <2>5. Len(EncodeEntry(e)) > 0
    <3> DEFINE key == Len(WriteKey(e.field, Delimited))
               length == Len(WriteVarint(Len(e.text)))
               text == Len(e.text)
    <3>1. key \in Nat \ {0} /\ length \in Nat /\ text \in Nat
      BY <2>1, <2>4
    <3>2. Len(EncodeEntry(e)) = key + (length + text)
      BY <2>1, <2>4
    <3> HIDE DEF key, length, text
    <3> QED
      BY <3>1, <3>2
  <2>6. \A data, c : At(data, c, EncodeEntry(e)) =>
          ReadField(data, c) = Read(c + Len(EncodeEntry(e)), FieldOf(e))
    BY <1>2, <2>1, <2>2, ReadTextBack
  <2> QED
    BY <2>3, <2>5, <2>6 DEF ReadsAs
<1> QED
  BY <1>3, <1>4 DEF Sound

\* An entry that is not sound begins with its key, with the wire type of a text or a
\* number or with 5, and after it ...
WireOf(e) ==
  CASE e.wire \in {"delimited", "cut"} -> Delimited
    [] e.wire = "fixed32"              -> 5
    [] OTHER                           -> Varint

LEMMA KeyComesFirst ==
  ASSUME NEW e, Fits(e)
  PROVE  /\ WriteKey(e.field, WireOf(e)) \in Seq(Byte) /\ WireOf(e) \in {0, 2, 5}
         /\ Len(WriteKey(e.field, WireOf(e))) \in Nat \ {0}
         /\ \E after \in Seq(Byte) :
              /\ EncodeEntry(e) = WriteKey(e.field, WireOf(e)) \o after
              /\ e.wire = "overlong" =>
                   /\ Len(after) = (ValueBits \div 7) + 2
                   /\ \A i \in 1..((ValueBits \div 7) + 1) : after[i] = 128
              /\ e.wire = "cut" => after = <<2, 49>>
              /\ e.wire = "open" => after = <<128>>
<1> DEFINE key == WriteKey(e.field, WireOf(e))
<1>1. WireOf(e) \in {0, 2, 5}
  BY DEF WireOf, Varint, Delimited
<1>2. key \in Seq(Byte) /\ Len(key) \in Nat \ {0}
  <2>1. (8 * e.field) + WireOf(e) \in Nat
    BY <1>1 DEF Fits
  <2>2. /\ key \in Seq(Byte)
        /\ IsVarint(key, (8 * e.field) + WireOf(e))
    BY <2>1, WriteVarintIs, VarintIsWritten DEF WriteKey
  <2> QED
    BY <2>2 DEF IsVarint
<1>3. 0 \in Byte /\ 2 \in Byte /\ 49 \in Byte /\ 128 \in Byte
  BY DEF Byte
<1>4. CASE e.wire = "varint"
  <2>1. EncodeEntry(e) = WriteNumber(e.field, e.number) /\ e.number \in Nat
    BY <1>4 DEF EncodeEntry, Fits
  <2>2. WireOf(e) = Varint
    BY <1>4 DEF WireOf
  <2> QED
    BY <1>1, <1>2, <1>4, <2>1, <2>2, WriteVarintIs DEF WriteNumber
<1>5. CASE e.wire = "delimited"
  <2>1. EncodeEntry(e) = WriteString(e.field, e.text) /\ e.text \in Seq(Byte) /\ e.field \in Nat
    BY <1>5 DEF EncodeEntry, Fits
  <2>2. WireOf(e) = Delimited
    BY <1>5 DEF WireOf
  <2>3. /\ EncodeEntry(e) = key \o (WriteVarint(Len(e.text)) \o e.text)
        /\ WriteVarint(Len(e.text)) \o e.text \in Seq(Byte)
    BY <2>1, <2>2, WritesAre
  <2> HIDE DEF key
  <2> QED
    BY <1>1, <1>2, <1>5, <2>3 DEF key
<1>6. CASE e.wire = "fixed32"
  <2>1. EncodeEntry(e) = WriteKey(e.field, 5) \o <<0, 0, 0, 0>>
    BY <1>6 DEF EncodeEntry
  <2>2. <<0, 0, 0, 0>> \in Seq(Byte) /\ WireOf(e) = 5
    BY <1>3, <1>6 DEF WireOf
  <2> QED
    BY <1>1, <1>2, <1>6, <2>1, <2>2
<1>7. CASE e.wire = "overlong"
  <2> DEFINE M == (ValueBits \div 7) + 1
             many == [i \in 1..M |-> 128]
             last == <<0>>
  <2>1. EncodeEntry(e) = (key \o many) \o last
    BY <1>7 DEF EncodeEntry, WireOf
  <2>2. M \in Nat /\ M + 1 = (ValueBits \div 7) + 2
    BY CodecAssumption
  <2>3. many \in Seq(Byte) /\ last \in Seq(Byte) /\ Len(many) = M /\ Len(last) = 1
    BY <1>3, <2>2
  <2>4. \A i \in 1..M : many[i] = 128
    OBVIOUS
  <2> HIDE DEF many, last, key, M
  <2>5. (key \o many) \o last = key \o (many \o last)
    BY <1>2, <2>3, ConcatAssociative
  <2>6. /\ many \o last \in Seq(Byte) /\ Len(many \o last) = M + 1
        /\ \A i \in 1..M : (many \o last)[i] = many[i]
    <3>1. /\ many \o last \in Seq(Byte) /\ Len(many \o last) = Len(many) + Len(last)
          /\ \A i \in 1..Len(many) + Len(last) :
               (many \o last)[i] = IF i <= Len(many) THEN many[i] ELSE last[i - Len(many)]
      BY <2>3, ConcatProperties
    <3>2. \A i \in 1..M : i \in 1..Len(many) + Len(last) /\ i <= Len(many)
      BY <2>2, <2>3
    <3> QED
      BY <2>3, <3>1, <3>2
  <2>7. \A i \in 1..((ValueBits \div 7) + 1) : (many \o last)[i] = 128
    BY <2>4, <2>6 DEF M
  <2>8. e.wire # "cut" /\ e.wire # "open"
    BY <1>7
  <2>9. Len(many \o last) = (ValueBits \div 7) + 2
    BY <2>2, <2>6
  <2>10. EncodeEntry(e) = key \o (many \o last)
    BY <2>1, <2>5
  <2> QED
    BY <1>1, <1>2, <2>6, <2>7, <2>8, <2>9, <2>10 DEF key
<1>8. CASE e.wire = "cut"
  <2>1. EncodeEntry(e) = WriteKey(e.field, Delimited) \o <<2, 49>> /\ WireOf(e) = Delimited
    BY <1>8 DEF EncodeEntry, WireOf
  <2>2. <<2, 49>> \in Seq(Byte)
    BY <1>3
  <2> QED
    BY <1>1, <1>2, <1>8, <2>1, <2>2
<1>9. CASE e.wire = "open"
  <2>1. EncodeEntry(e) = WriteKey(e.field, Varint) \o <<128>> /\ WireOf(e) = Varint
    BY <1>9 DEF EncodeEntry, WireOf
  <2>2. <<128>> \in Seq(Byte)
    BY <1>3
  <2> QED
    BY <1>1, <1>2, <1>9, <2>1, <2>2
<1> QED
  BY <1>4, <1>5, <1>6, <1>7, <1>8, <1>9 DEF Fits

\* ... comes nothing that can be read, if the key itself can.
LEMMA UnsoundIsNotRead ==
  ASSUME NEW e, Fits(e), ~Sound(e), NEW data, NEW c, At(data, c, EncodeEntry(e)),
         e.wire \in {"cut", "open"} => c + Len(EncodeEntry(e)) = Len(data)
  PROVE  ~ReadField(data, c).ok /\ c \in 0..Len(data) /\ c # Len(data)
<1> DEFINE keyBytes == WriteKey(e.field, WireOf(e))
           key == ReadVarint(data, c)
           value == ReadValue(data, key.cursor, WireType(key))
<1>1. keyBytes \in Seq(Byte) /\ WireOf(e) \in {0, 2, 5} /\ Len(keyBytes) \in Nat \ {0}
  BY KeyComesFirst
<1>2. PICK after \in Seq(Byte) :
        /\ EncodeEntry(e) = keyBytes \o after
        /\ e.wire = "overlong" => /\ Len(after) = (ValueBits \div 7) + 2
                                  /\ \A i \in 1..((ValueBits \div 7) + 1) : after[i] = 128
        /\ e.wire = "cut" => after = <<2, 49>>
        /\ e.wire = "open" => after = <<128>>
  BY KeyComesFirst
<1>3. /\ e.field \in Nat /\ e.field < Power[FieldBits]
      /\ (8 * e.field) + WireOf(e) < Power[ValueBits] /\ WireOf(e) \in 0..7
  BY <1>1, PowerIs, PowerGrows DEF Fits
<1> HIDE DEF keyBytes
<1>4. /\ At(data, c, keyBytes) /\ At(data, c + Len(keyBytes), after)
      /\ data \in Seq(Byte) /\ c \in Nat /\ Len(data) \in Nat
      /\ c + Len(EncodeEntry(e)) <= Len(data)
      /\ Len(EncodeEntry(e)) = Len(keyBytes) + Len(after) /\ Len(after) \in Nat
  <2>1. At(data, c, keyBytes \o after)
    BY <1>2
  <2>2. At(data, c, keyBytes) /\ At(data, c + Len(keyBytes), after)
    BY <1>1, <1>2, <2>1, AtParts
  <2>3. data \in Seq(Byte) /\ c \in Nat /\ c + Len(EncodeEntry(e)) <= Len(data)
    BY DEF At
  <2>4. Len(keyBytes \o after) = Len(keyBytes) + Len(after)
    BY <1>1, <1>2, ConcatProperties
  <2> QED
    BY <1>2, <2>2, <2>3, <2>4
<1>5. c \in 0..Len(data) /\ c # Len(data)
  BY <1>1, <1>4
<1>6. /\ key.ok /\ key.cursor = c + Len(keyBytes)
      /\ FieldNumber(key) = e.field /\ WireType(key) = WireOf(e)
  <2>1. At(data, c, WriteKey(e.field, WireOf(e)))
    BY <1>4 DEF keyBytes
  <2> QED
    BY <1>3, <2>1, ReadKeyBack DEF Read, keyBytes
<1>7. e.field = 0 => ~ReadField(data, c).ok
  <2> HIDE DEF key
  <2> SUFFICES ASSUME e.field = 0 PROVE FieldAfter(data, key) = Unread
    BY DEF ReadField, Unread, key
  <2> QED
    BY <1>6 DEF FieldAfter
<1>8. ASSUME ~value.ok PROVE ~ReadField(data, c).ok
  <2> HIDE DEF key
  <2>1. FieldAfter(data, key) = Unread
    BY <1>6, <1>8 DEF FieldAfter, WithKey
  <2> QED
    BY <2>1 DEF ReadField, Unread, key
<1> HIDE DEF key
<1>9. CASE e.wire = "fixed32"
  <2>1. WireOf(e) = 5
    BY <1>9 DEF WireOf
  <2>2. ~value.ok
    BY <1>6, <2>1 DEF ReadValue, Unread, Varint, Delimited
  <2> QED
    BY <1>5, <1>8, <2>2
<1>10. CASE e.wire = "overlong"
  <2> DEFINE start == c + Len(keyBytes)
             M == (ValueBits \div 7) + 1
  <2>1. \A i \in VarintEnds(data, start) : FALSE
    <3> SUFFICES ASSUME NEW i \in VarintEnds(data, start) PROVE FALSE
      OBVIOUS
    <3>1. i \in (start + 1)..Len(data) /\ 7 * (i - start - 1) < ValueBits /\ data[i] < 128
      BY DEF VarintEnds
    <3>2. start \in Nat /\ ValueBits \in Nat
      BY <1>1, <1>4, CodecAssumption
    <3> HIDE DEF start
    <3>3. i - start \in 1..M /\ start + (i - start) = i
      BY <3>1, <3>2
    <3>4. data[start + (i - start)] = after[i - start]
      <4>1. \A j \in 1..Len(after) : data[start + j] = after[j]
        BY <1>4 DEF At, start
      <4>2. i - start \in 1..Len(after)
        BY <1>2, <1>10, <3>2, <3>3
      <4> QED
        BY <4>1, <4>2
    <3>5. after[i - start] = 128
      BY <1>2, <1>10, <3>3
    <3> QED
      BY <3>1, <3>3, <3>4, <3>5
  <2>2. VarintEnds(data, start) = {}
    BY <2>1
  <2>3. WireOf(e) = Varint
    BY <1>10 DEF WireOf
  <2>4. ~value.ok
    <3> HIDE DEF start
    <3>1. ReadVarint(data, start) = Unread
      BY <2>2 DEF ReadVarint
    <3>2. value = ReadVarint(data, start)
      BY <1>6, <2>3 DEF ReadValue, Varint, Delimited, start
    <3> QED
      BY <3>1, <3>2 DEF Unread
  <2> QED
    BY <1>5, <1>8, <2>4
<1>11. CASE e.wire = "cut"
  <2> DEFINE start == c + Len(keyBytes)
  <2>1. WireOf(e) = Delimited /\ after = <<2>> \o <<49>>
    BY <1>2, <1>11 DEF WireOf
  <2>2. start \in Nat /\ Len(after) = 2 /\ start + 2 = Len(data)
    <3>1. after = <<2, 49>> /\ c + Len(EncodeEntry(e)) = Len(data)
      BY <1>2, <1>11
    <3>2. Len(after) = 2
      BY <3>1
    <3> QED
      BY <1>1, <1>4, <3>1, <3>2
  <2>3. At(data, start, <<2>>)
    <3>1. <<2>> \in Seq(Byte) /\ <<49>> \in Seq(Byte)
      BY DEF Byte
    <3>2. At(data, start, <<2>> \o <<49>>)
      BY <1>4, <2>1
    <3> HIDE DEF start
    <3> QED
      BY <3>1, <3>2, AtParts
  <2>4. ReadVarint(data, start) = Read(start + 1, 2)
    <3> DEFINE two == <<2>>
    <3>1. 2 \in Nat /\ 2 < 128
      OBVIOUS
    <3>2. IsVarint(two, 2) /\ Short(two, 2) /\ Len(two) = 1
      BY <3>1, VarintOfOne
    <3>3. 2 < Power[ValueBits]
      BY PowerGrows, PowerIs
    <3>4. At(data, start, two)
      BY <2>3
    <3> HIDE DEF start, two
    <3>5. ReadVarint(data, start) = Read(start + Len(two), 2)
      BY <3>1, <3>2, <3>3, <3>4, ReadVarintBack
    <3> QED
      BY <3>2, <3>5
  <2>5. ReadDelimited(data, start) = Unread
    <3> DEFINE length == Read(start + 1, 2)
    <3>1. length.ok /\ length.cursor = start + 1 /\ length.value = 2
      BY DEF Read
    <3> HIDE DEF start, length
    <3>2. length.cursor + length.value > Len(data)
      BY <1>4, <2>2, <3>1
    <3>3. TextAfter(data, length) = Unread
      BY <3>1, <3>2 DEF TextAfter
    <3> QED
      BY <2>4, <3>3 DEF ReadDelimited, length
  <2> HIDE DEF start
  <2>6. value = ReadDelimited(data, start)
    BY <1>6, <2>1 DEF ReadValue, Varint, Delimited, start
  <2>7. ~value.ok
    BY <2>5, <2>6 DEF Unread
  <2> QED
    BY <1>5, <1>8, <2>7
<1>12. CASE e.wire = "open"
  <2> DEFINE start == c + Len(keyBytes)
  <2>1. WireOf(e) = Varint
    BY <1>12 DEF WireOf
  <2>2. start \in Nat /\ Len(after) = 1 /\ start + 1 = Len(data) /\ after[1] = 128
    <3>1. after = <<128>> /\ c + Len(EncodeEntry(e)) = Len(data)
      BY <1>2, <1>12
    <3>2. Len(after) = 1 /\ after[1] = 128
      BY <3>1
    <3> QED
      BY <1>1, <1>4, <3>1, <3>2
  <2>3. data[start + 1] = 128
    BY <1>4, <2>2 DEF At
  <2> HIDE DEF start
  <2>4. VarintEnds(data, start) = {}
    <3>1. \A i \in (start + 1)..Len(data) : i = start + 1
      BY <2>2
    <3> QED
      BY <2>3, <3>1 DEF VarintEnds
  <2>5. ReadVarint(data, start) = Unread
    BY <2>4 DEF ReadVarint
  <2>6. value = ReadVarint(data, start)
    BY <1>6, <2>1 DEF ReadValue, Varint, Delimited, start
  <2>7. ~value.ok
    BY <2>5, <2>6 DEF Unread
  <2> QED
    BY <1>5, <1>8, <2>7
<1> QED
  BY <1>5, <1>7, <1>9, <1>10, <1>11, <1>12 DEF Fits, Sound

\* Where the whole stands, each piece stands after those before it.
LEMMA PiecesStand ==
  ASSUME NEW pieces \in Seq(Seq(Byte)), NEW f, Joins(f, pieces),
         NEW data, At(data, 0, f[Len(pieces)])
  PROVE  \A n \in 0..Len(pieces) :
           /\ At(data, 0, f[n])
           /\ n # Len(pieces) => At(data, Len(f[n]), pieces[n + 1])
<1> DEFINE N == Len(pieces)
           D == 0..N
           ends == {N}
           next == [n \in D |-> n + 1]
           measure == [n \in D |-> N - n]
           S == {n \in D : /\ At(data, 0, f[n])
                           /\ n # N => At(data, Len(f[n]), pieces[n + 1])}
<1>1. N \in Nat
  OBVIOUS
<1>2. Descends(D, ends, next, measure)
  BY <1>1 DEF Descends
<1>3. \A n \in D : n \in ends => n \in S
  OBVIOUS
<1>4. \A n \in D : n \notin ends /\ next[n] \in D /\ next[n] \in S => n \in S
  <2> SUFFICES ASSUME NEW n \in D, n # N, At(data, 0, f[n + 1])
               PROVE  At(data, 0, f[n]) /\ At(data, Len(f[n]), pieces[n + 1])
    OBVIOUS
  <2>1. n + 1 \in 1..N /\ n \in 0..N /\ (n + 1) - 1 = n
    BY <1>1
  <2>2. /\ f[n] \in Seq(Byte) /\ pieces[n + 1] \in Seq(Byte)
        /\ f[n + 1] = f[n] \o pieces[n + 1]
    BY <2>1, JoinsIs, ElementOfSeq
  <2>3. 0 + Len(f[n]) = Len(f[n])
    BY <2>2
  <2>4. At(data, 0, f[n] \o pieces[n + 1])
    BY <2>2
  <2>5. At(data, 0, f[n]) /\ At(data, 0 + Len(f[n]), pieces[n + 1])
    BY <2>2, <2>4, AtParts
  <2> QED
    BY <2>3, <2>5
<1>5. D \subseteq S
  <2> HIDE DEF D, S, ends, next, measure
  <2> QED
    BY <1>2, <1>3, <1>4, DescentInduction
<1> QED
  BY <1>5

\* Nothing is read of a payload of which a part cannot be read.
LEMMA NoFieldsOfPieces ==
  ASSUME NEW pieces \in Seq(Seq(Byte)), NEW f, Joins(f, pieces), NEW k \in 1..Len(pieces),
         NEW reads, \A n \in 1..(k - 1) : ReadsAs(pieces[n], reads[n]),
         NEW data, At(data, 0, f[Len(pieces)]),
         FieldsFrom(data)[Len(f[k - 1])] = None
  PROVE  Fields(data) = None
<1> DEFINE N == k - 1
           D == 0..N
           ends == {N}
           next == [n \in D |-> n + 1]
           measure == [n \in D |-> N - n]
           S == {n \in D : FieldsFrom(data)[Len(f[n])] = None}
<1>1. N \in Nat /\ N < Len(pieces) /\ Len(pieces) \in Nat
  OBVIOUS
<1>2. Descends(D, ends, next, measure)
  <2> HIDE DEF N
  <2> QED
    BY <1>1 DEF Descends
<1>3. \A n \in D : n \in ends => n \in S
  OBVIOUS
<1>4. \A n \in D : n \notin ends /\ next[n] \in D /\ next[n] \in S => n \in S
  <2> SUFFICES ASSUME NEW n \in D, n # N, FieldsFrom(data)[Len(f[n + 1])] = None
               PROVE  FieldsFrom(data)[Len(f[n])] = None
    OBVIOUS
  <2>1. /\ n + 1 \in 1..Len(pieces) /\ n \in 0..Len(pieces) /\ n # Len(pieces)
        /\ (n + 1) - 1 = n /\ n + 1 \in 1..(k - 1)
    BY <1>1
  <2>2. /\ f[n] \in Seq(Byte) /\ pieces[n + 1] \in Seq(Byte)
        /\ Len(f[n + 1]) = Len(f[n]) + Len(pieces[n + 1])
    BY <2>1, JoinsIs, ElementOfSeq
  <2>3. At(data, Len(f[n]), pieces[n + 1])
    BY <2>1, PiecesStand
  <2>4. ReadsAs(pieces[n + 1], reads[n + 1])
    BY <2>1
  <2> DEFINE c == Len(f[n])
             end == Len(f[n + 1])
             piece == pieces[n + 1]
             read == reads[n + 1]
  <2> HIDE DEF piece, read
  <2>5. c \in Nat /\ Len(piece) \in Nat /\ Len(piece) > 0
    BY <2>2, <2>4 DEF ReadsAs, piece
  <2> HIDE DEF c
  <2>6. data \in Seq(Byte) /\ c + Len(piece) <= Len(data) /\ Len(data) \in Nat
    <3>1. At(data, c, piece)
      BY <2>3 DEF c, piece
    <3>2. data \in Seq(Byte) /\ c + Len(piece) <= Len(data)
      BY <3>1 DEF At
    <3> QED
      BY <3>2
  <2>7. ReadField(data, c) = Read(c + Len(piece), read)
    BY <2>3, <2>4 DEF ReadsAs, c, piece, read
  <2>8. c \in 0..Len(data) /\ c # Len(data) /\ c + Len(piece) = end
    <3>1. c \in 0..Len(data) /\ c # Len(data)
      BY <2>5, <2>6
    <3>2. c + Len(piece) = end
      BY <2>2 DEF c, piece
    <3> QED
      BY <3>1, <3>2
  <2> HIDE DEF end
  <2>9. FieldsFrom(data)[c] = Prepend(read, FieldsFrom(data)[end])
    BY <2>6, <2>7, <2>8, FieldsFromIs DEF Read
  <2>10. FieldsFrom(data)[end] = None
    BY DEF end
  <2> QED
    BY <2>9, <2>10 DEF Prepend, c
<1>5. D \subseteq S
  <2> HIDE DEF D, S, ends, next, measure
  <2> QED
    BY <1>2, <1>3, <1>4, DescentInduction
<1>6. 0 \in D /\ Len(f[0]) = 0
  <2>1. f[0] = <<>>
    BY JoinsIs
  <2> QED
    BY <1>1, <2>1
<1> HIDE DEF D
<1>7. FieldsFrom(data)[0] = None
  BY <1>5, <1>6
<1> QED
  BY <1>7, FieldsAre

\* The fields of a payload of the gateway are its entries, or none.
FieldsOf(entries) == [i \in 1..Len(entries) |-> FieldOf(entries[i])]

LEMMA PayloadIs ==
  ASSUME NEW p, IsPayload(p)
  PROVE  /\ Len(p) \in Nat /\ DOMAIN p = 1..Len(p) /\ \A i \in 1..Len(p) : Fits(p[i])
         /\ \A i \in 1..Len(p) : p[i].wire \in {"cut", "open"} => i = Len(p)
         /\ Readable(p) <=> \A i \in 1..Len(p) : Sound(p[i])
<1>1. Len(p) \in Nat /\ p = [i \in 1..Len(p) |-> p[i]] /\ \A i \in 1..Len(p) : Fits(p[i])
  BY SMT DEF IsPayload
<1>2. \A i \in 1..Len(p) : p[i].wire \in {"cut", "open"} => i = Len(p)
  BY SMT DEF IsPayload
<1>3. DOMAIN p = 1..Len(p)
  BY <1>1
<1> QED
  BY <1>1, <1>2, <1>3 DEF Readable, Sound

LEMMA FieldsOfReadable ==
  ASSUME NEW p, IsPayload(p), Readable(p)
  PROVE  /\ FieldsOf(p) \in Seq(FieldRead) /\ Len(FieldsOf(p)) = Len(p)
         /\ Fields(EncodeEntries(p)) = FieldsOf(p)
<1> DEFINE N == Len(p)
           pieces == EntryPieces(p)
           reads == FieldsOf(p)
           data == EncodeEntries(p)
<1>1. N \in Nat /\ \A i \in 1..N : Fits(p[i]) /\ Sound(p[i])
  BY PayloadIs
<1>2. pieces \in Seq(Seq(Byte)) /\ Len(pieces) = N
  BY <1>1, EntriesJoin
<1>3. PICK f : Joins(f, pieces) /\ data = f[N]
  BY <1>1, EntriesJoin
<1>4. reads \in Seq(FieldRead) /\ Len(reads) = N /\ \A i \in 1..N : reads[i] = FieldOf(p[i])
  <2>1. \A i \in 1..N : FieldOf(p[i]) \in FieldRead
    BY <1>1, SoundIsRead
  <2>2. reads = [i \in 1..N |-> FieldOf(p[i])]
    BY DEF FieldsOf
  <2> HIDE DEF N, reads
  <2> QED
    BY <1>1, <2>1, <2>2
<1>5. EachReads(pieces, reads)
  <2>1. \A i \in 1..N : pieces[i] = EncodeEntry(p[i])
    BY DEF EntryPieces
  <2>2. \A i \in 1..N : ReadsAs(EncodeEntry(p[i]), FieldOf(p[i]))
    BY <1>1, SoundIsRead
  <2> HIDE DEF N, reads, pieces
  <2> QED
    BY <1>2, <1>4, <2>1, <2>2 DEF EachReads
<1>6. data \in Seq(Byte)
  BY <1>1, EntriesAre
<1> HIDE DEF N, pieces, reads, data
<1>7. FieldsFrom(data)[Len(data)] = <<>> /\ At(data, 0, data)
  BY <1>6, NoFieldsAtEnd
<1>9. Fields(data) = reads \o <<>>
  <2> DEFINE more == <<>>
  <2>1. At(data, 0, f[Len(pieces)]) /\ FieldsFrom(data)[Len(f[Len(pieces)])] = more
    BY <1>2, <1>3, <1>7
  <2>2. more \in Seq(FieldRead)
    OBVIOUS
  <2> HIDE DEF more
  <2>3. \A d : \A m \in Seq(FieldRead) :
          At(d, 0, f[Len(pieces)]) /\ FieldsFrom(d)[Len(f[Len(pieces)])] = m
          => Fields(d) = reads \o m
    BY <1>2, <1>3, <1>4, <1>5, FieldsOfPieces
  <2>4. Fields(data) = reads \o more
    BY <2>1, <2>2, <2>3
  <2> QED
    BY <2>4 DEF more
<1>10. reads \o <<>> = reads
  BY <1>4, ConcatEmptySeq
<1> QED
  BY <1>4, <1>9, <1>10 DEF reads, data, N

LEMMA NoFieldsOfUnreadable ==
  ASSUME NEW p, IsPayload(p), ~Readable(p)
  PROVE  Fields(EncodeEntries(p)) = None
<1> DEFINE N == Len(p)
           pieces == EntryPieces(p)
           data == EncodeEntries(p)
           unsound == {i \in 1..N : ~Sound(p[i])}
           k == Min(unsound)
<1>1. N \in Nat /\ \A i \in 1..N : Fits(p[i]) /\ (p[i].wire \in {"cut", "open"} => i = N)
  BY PayloadIs
<1>2. pieces \in Seq(Seq(Byte)) /\ Len(pieces) = N
  BY <1>1, EntriesJoin
<1>3. PICK f : Joins(f, pieces) /\ data = f[N]
  BY <1>1, EntriesJoin
<1>4. unsound \in SUBSET Nat /\ unsound # {}
  BY PayloadIs
<1>5. k \in unsound /\ \A i \in unsound : k <= i
  <2> HIDE DEF unsound
  <2> QED
    BY <1>4, LeastExists
<1>6. k \in 1..N /\ ~Sound(p[k])
  BY <1>5
<1>7. \A n \in 1..(k - 1) : n \in 1..N /\ Sound(p[n])
  <2>1. \A n \in 1..(k - 1) : n \in 1..N /\ ~(k <= n)
    <3> HIDE DEF k, N
    <3> QED
      BY <1>1, <1>6
  <2> HIDE DEF k
  <2> QED
    BY <1>5, <2>1
<1>8. data \in Seq(Byte)
  BY <1>1, EntriesAre
<1>9. \A i \in 1..N : pieces[i] = EncodeEntry(p[i])
  BY DEF EntryPieces
<1> HIDE DEF k, unsound, N, pieces, data
<1>10. \A n \in 1..(k - 1) : ReadsAs(pieces[n], FieldOf(p[n]))
  BY <1>1, <1>7, <1>9, SoundIsRead
<1>11. At(data, 0, f[Len(pieces)])
  BY <1>2, <1>3, <1>8, NoFieldsAtEnd
<1> DEFINE c == Len(f[k - 1])
<1>12. At(data, c, EncodeEntry(p[k])) /\ Len(f[k]) = c + Len(EncodeEntry(p[k]))
  <2>1. k - 1 \in 0..Len(pieces) /\ k - 1 # Len(pieces) /\ (k - 1) + 1 = k /\ k \in 1..Len(pieces)
    BY <1>1, <1>2, <1>6
  <2>2. At(data, Len(f[k - 1]), pieces[(k - 1) + 1])
    BY <1>2, <1>3, <1>11, <2>1, PiecesStand
  <2>3. Len(f[k]) = Len(f[k - 1]) + Len(pieces[k])
    BY <1>2, <1>3, <2>1, JoinsIs
  <2> QED
    BY <1>6, <1>9, <2>1, <2>2, <2>3
<1> HIDE DEF c
<1>13. ~ReadField(data, c).ok /\ c \in 0..Len(data) /\ c # Len(data)
  <2>1. p[k].wire \in {"cut", "open"} => c + Len(EncodeEntry(p[k])) = Len(data)
    BY <1>1, <1>3, <1>6, <1>12
  <2>2. Fits(p[k])
    BY <1>1, <1>6
  <2> QED
    BY <1>6, <1>12, <2>1, <2>2, UnsoundIsNotRead
<1>14. FieldsFrom(data)[c] = None
  BY <1>8, <1>13, FieldsFromIs
<1>15. Fields(data) = None
  <2> DEFINE reads == [n \in 1..(k - 1) |-> FieldOf(p[n])]
  <2>1. \A n \in 1..(k - 1) : ReadsAs(pieces[n], reads[n])
    BY <1>10
  <2>2. k \in 1..Len(pieces) /\ FieldsFrom(data)[Len(f[k - 1])] = None
    BY <1>2, <1>6, <1>14 DEF c
  <2> HIDE DEF reads
  <2> QED
    BY <1>2, <1>3, <1>11, <2>1, <2>2, NoFieldsOfPieces
<1> QED
  BY <1>15 DEF data

\* A field of a schema is known by its number or by its name.
Proper(schema) ==
  /\ schema.decimals \subseteq DOMAIN schema.names
  /\ 1 \in DOMAIN schema.names /\ 1 \notin schema.decimals /\ schema.names[1] = "symbol"
  /\ DOMAIN schema.names \subseteq Nat
  /\ \A i, j \in DOMAIN schema.names : schema.names[i] = schema.names[j] => i = j

LEMMA SchemasAreProper == Proper(QuoteSchema) /\ Proper(PushSchema)
<1>1. Proper(QuoteSchema)
  BY DEF QuoteSchema, Proper
<1>2. Proper(PushSchema)
  BY DEF PushSchema, Proper
<1> QED
  BY <1>1, <1>2

\* What the first n entries say: the last text or number of a field among them, ...
Found(p, n, field, wire) == {i \in 1..n : p[i].field = field /\ p[i].wire = wire}

FoundText(p, n, field) ==
  IF Found(p, n, field, "delimited") = {} THEN <<>>
  ELSE p[Max(Found(p, n, field, "delimited"))].text

FoundNumber(p, n, field) ==
  IF Found(p, n, field, "varint") = {} THEN None
  ELSE p[Max(Found(p, n, field, "varint"))].number

LEMMA FoundMore ==
  ASSUME NEW p, NEW n \in Nat \ {0}
  PROVE  \A field :
           /\ FoundText(p, n, field) =
                IF p[n].field = field /\ p[n].wire = "delimited" THEN p[n].text
                ELSE FoundText(p, n - 1, field)
           /\ FoundNumber(p, n, field) =
                IF p[n].field = field /\ p[n].wire = "varint" THEN p[n].number
                ELSE FoundNumber(p, n - 1, field)
<1>1. \A i \in 1..n : i = n \/ i \in 1..(n - 1)
  OBVIOUS
<1>2. \A i \in 1..(n - 1) : i \in 1..n
  OBVIOUS
<1>3. ASSUME NEW field, NEW wire
      PROVE  /\ p[n].field = field /\ p[n].wire = wire =>
                  Found(p, n, field, wire) # {} /\ Max(Found(p, n, field, wire)) = n
             /\ ~(p[n].field = field /\ p[n].wire = wire) =>
                  Found(p, n, field, wire) = Found(p, n - 1, field, wire)
  <2>1. CASE p[n].field = field /\ p[n].wire = wire
    <3>1. n \in Found(p, n, field, wire) /\ Found(p, n, field, wire) \in SUBSET Nat
      BY <2>1 DEF Found
    <3>2. \A i \in Found(p, n, field, wire) : i <= n
      BY DEF Found
    <3> QED
      BY <2>1, <3>1, <3>2, GreatestIs
  <2>2. CASE ~(p[n].field = field /\ p[n].wire = wire)
    BY <1>1, <1>2, <2>2 DEF Found
  <2> QED
    BY <2>1, <2>2
<1>4. TAKE field
<1>5. FoundText(p, n, field) =
        IF p[n].field = field /\ p[n].wire = "delimited" THEN p[n].text
        ELSE FoundText(p, n - 1, field)
  BY <1>3 DEF FoundText
<1>6. FoundNumber(p, n, field) =
        IF p[n].field = field /\ p[n].wire = "varint" THEN p[n].number
        ELSE FoundNumber(p, n - 1, field)
  BY <1>3 DEF FoundNumber
<1> QED
  BY <1>5, <1>6

LEMMA FoundNothing ==
  ASSUME NEW p, NEW field
  PROVE  FoundText(p, 0, field) = <<>> /\ FoundNumber(p, 0, field) = None
<1>1. 1..0 = {}
  OBVIOUS
<1>2. \A wire : Found(p, 0, field, wire) = {}
  BY <1>1 DEF Found
<1> QED
  BY <1>2 DEF FoundText, FoundNumber

LEMMA FoundAll ==
  ASSUME NEW p, DOMAIN p = 1..Len(p), NEW field
  PROVE  FoundText(p, Len(p), field) = TextOf(p, field)
         /\ FoundNumber(p, Len(p), field) = NumberOf(p, field)
<1>1. \A wire : Found(p, Len(p), field, wire) = Places(p, field, wire)
  BY DEF Found, Places
<1> QED
  BY <1>1 DEF FoundText, FoundNumber, TextOf, NumberOf

\* ... and what it is worth in the quote.
Worth(p, n, field, schema) ==
  CASE field = 1                  -> FoundText(p, n, 1)
    [] field \in Numbers(schema)  -> FoundNumber(p, n, field)
    [] field \in schema.decimals -> ParseDecimal(FoundText(p, n, field))

NumberOfName(schema, name) == CHOOSE i \in DOMAIN schema.names : schema.names[i] = name

SoFar(p, n, schema) ==
  [name \in Range(schema.names) |-> Worth(p, n, NumberOfName(schema, name), schema)]

LEMMA NamesAre ==
  ASSUME NEW schema, Proper(schema)
  PROVE  /\ \A name \in Range(schema.names) :
              /\ NumberOfName(schema, name) \in DOMAIN schema.names
              /\ schema.names[NumberOfName(schema, name)] = name
              /\ \A i \in DOMAIN schema.names :
                   schema.names[i] = name <=> i = NumberOfName(schema, name)
         /\ "symbol" \in Range(schema.names)
         /\ \A i \in DOMAIN schema.names : schema.names[i] \in Range(schema.names)
<1>1. Range(schema.names) = {schema.names[i] : i \in DOMAIN schema.names}
  BY DEF Range
<1>2. ASSUME NEW name \in Range(schema.names)
      PROVE  /\ NumberOfName(schema, name) \in DOMAIN schema.names
             /\ schema.names[NumberOfName(schema, name)] = name
  <2>1. PICK i \in DOMAIN schema.names : schema.names[i] = name
    BY <1>1, <1>2
  <2> QED
    BY <2>1 DEF NumberOfName
<1>3. \A i, j \in DOMAIN schema.names : schema.names[i] = schema.names[j] => i = j
  BY DEF Proper
<1>4. 1 \in DOMAIN schema.names /\ schema.names[1] = "symbol"
  BY DEF Proper
<1> QED
  BY <1>1, <1>2, <1>3, <1>4

LEMMA SoFarBlank ==
  ASSUME NEW p, NEW schema, Proper(schema)
  PROVE  SoFar(p, 0, schema) = Blank(schema)
<1>1. ParseDecimal(<<>>) = None
  BY DEF ParseDecimal
<1>2. ASSUME NEW name \in Range(schema.names)
      PROVE  Worth(p, 0, NumberOfName(schema, name), schema)
               = IF name = "symbol" THEN <<>> ELSE None
  <2> DEFINE i == NumberOfName(schema, name)
  <2>1. i \in DOMAIN schema.names /\ (name = "symbol" <=> i = 1)
    BY NamesAre DEF Proper
  <2>2. i = 1 \/ i \in Numbers(schema) \/ i \in schema.decimals
    BY <2>1 DEF Numbers
  <2>3. i \in Numbers(schema) => i # 1 /\ i \notin schema.decimals
    BY DEF Numbers
  <2>4. i \in schema.decimals => i # 1
    BY DEF Proper
  <2> HIDE DEF i
  <2> QED
    BY <1>1, <2>1, <2>2, <2>3, <2>4, FoundNothing DEF Worth, i
<1> QED
  BY <1>2 DEF SoFar, Blank

\* With one entry more, the quote so far is what Store makes of it.
LEMMA SoFarStores ==
  ASSUME NEW p, NEW n \in Nat \ {0}, Fits(p[n]), Sound(p[n]), NEW schema, Proper(schema)
  PROVE  SoFar(p, n, schema) = Store(SoFar(p, n - 1, schema), FieldOf(p[n]), schema)
<1> DEFINE e == p[n]
           before == SoFar(p, n - 1, schema)
           after == Store(before, FieldOf(e), schema)
           names == schema.names
<1>1. /\ FieldOf(e).field = e.field
      /\ e.wire = "varint" => FieldOf(e).wire = Varint /\ FieldOf(e).value = e.number
      /\ e.wire = "delimited" => FieldOf(e).wire = Delimited /\ FieldOf(e).value = e.text
      /\ e.wire = "varint" \/ e.wire = "delimited"
      /\ Varint # Delimited
  BY DEF FieldOf, Sound, Varint, Delimited
<1>2. DOMAIN before = Range(names) /\ DOMAIN names \subseteq Nat
  BY DEF SoFar, Proper
<1>3. \A name \in Range(names) :
        before[name] = Worth(p, n - 1, NumberOfName(schema, name), schema)
  BY DEF SoFar
<1>4. names[1] = "symbol" /\ 1 \in DOMAIN names
  BY DEF Proper
<1>5. ASSUME NEW i \in DOMAIN names
      PROVE  /\ i = 1 \/ i \in Numbers(schema) \/ i \in schema.decimals
             /\ i \in Numbers(schema) => i # 1 /\ i \notin schema.decimals
             /\ i \in schema.decimals => i # 1
  BY DEF Numbers, Proper
<1>6. \A i \in Numbers(schema) \cup schema.decimals : i \in DOMAIN names
  BY DEF Numbers, Proper
<1> DEFINE Stored(i) ==
             CASE e.wire = "delimited" /\ e.field = 1 /\ i = 1 -> e.text
               [] e.wire = "delimited" /\ e.field = i /\ i \in schema.decimals ->
                    ParseDecimal(e.text)
               [] e.wire = "varint" /\ e.field = i /\ i \in Numbers(schema) -> e.number
               [] OTHER -> Worth(p, n - 1, i, schema)
<1>7. \A i \in DOMAIN names : Worth(p, n, i, schema) = Stored(i)
  <2> SUFFICES ASSUME NEW i \in DOMAIN names PROVE Worth(p, n, i, schema) = Stored(i)
    OBVIOUS
  <2>1. /\ FoundText(p, n, i) = IF e.field = i /\ e.wire = "delimited" THEN e.text
                                ELSE FoundText(p, n - 1, i)
        /\ FoundNumber(p, n, i) = IF e.field = i /\ e.wire = "varint" THEN e.number
                                  ELSE FoundNumber(p, n - 1, i)
    BY FoundMore
  <2> HIDE DEF e, names
  <2>2. CASE i = 1
    BY <1>1, <1>5, <2>1, <2>2 DEF Worth
  <2>3. CASE i \in Numbers(schema)
    BY <1>1, <1>5, <2>1, <2>3 DEF Worth
  <2>4. CASE i \in schema.decimals
    BY <1>1, <1>5, <2>1, <2>4 DEF Worth
  <2> QED
    BY <1>5, <2>2, <2>3, <2>4
<1>8. /\ DOMAIN after = Range(names)
      /\ after = [name \in Range(names) |-> after[name]]
      /\ \A name \in Range(names) : after[name] = Stored(NumberOfName(schema, name))
  <2> HIDE DEF before
  <2>1. before = [name \in Range(names) |-> before[name]]
    BY DEF SoFar, before
  <2> HIDE DEF e, names, Stored
  <2>2. CASE e.wire = "delimited" /\ e.field = 1
    <3>1. after = [before EXCEPT !["symbol"] = e.text]
      <4>1. 1 \notin schema.decimals
        BY DEF Proper
      <4> QED
        BY <1>1, <2>2, <4>1 DEF Store
    <3>2. \A name \in Range(names) : name = "symbol" <=> NumberOfName(schema, name) = 1
      BY <1>4, NamesAre DEF names
    <3>3. \A name \in Range(names) :
            after[name] = IF NumberOfName(schema, name) = 1 THEN e.text ELSE before[name]
      BY <1>2, <3>1, <3>2
    <3>4. /\ DOMAIN after = Range(names)
          /\ after = [name \in Range(names) |-> after[name]]
      BY <1>2, <3>1
    <3>5. \A name \in Range(names) : after[name] = Stored(NumberOfName(schema, name))
      <4>1. 1 \notin schema.decimals
        BY DEF Proper
      <4> HIDE DEF after
      <4> QED
        BY <1>1, <1>3, <2>2, <3>3, <4>1 DEF Stored
    <3> QED
      BY <3>4, <3>5
  <2>3. CASE e.wire = "delimited" /\ e.field \in schema.decimals
    <3>1. after = [before EXCEPT ![names[e.field]] = ParseDecimal(e.text)]
      BY <1>1, <1>5, <1>6, <2>3 DEF Store, names
    <3>2. \A name \in Range(names) : name = names[e.field] <=> NumberOfName(schema, name) = e.field
      BY <1>6, <2>3, NamesAre DEF names
    <3>3. \A name \in Range(names) :
            after[name] = IF NumberOfName(schema, name) = e.field THEN ParseDecimal(e.text)
                          ELSE before[name]
      BY <1>2, <3>1, <3>2
    <3> QED
      BY <1>2, <1>3, <1>5, <1>6, <2>3, <3>1, <3>3 DEF Stored
  <2>4. CASE e.wire = "varint" /\ e.field \in Numbers(schema)
    <3>1. after = [before EXCEPT ![names[e.field]] = e.number]
      BY <1>1, <2>4 DEF Store, names
    <3>2. \A name \in Range(names) : name = names[e.field] <=> NumberOfName(schema, name) = e.field
      BY <1>6, <2>4, NamesAre DEF names
    <3>3. \A name \in Range(names) :
            after[name] = IF NumberOfName(schema, name) = e.field THEN e.number
                          ELSE before[name]
      BY <1>2, <3>1, <3>2
    <3> QED
      BY <1>2, <1>3, <2>4, <3>1, <3>3 DEF Stored
  <2>5. CASE /\ ~(e.wire = "delimited" /\ e.field = 1)
             /\ ~(e.wire = "delimited" /\ e.field \in schema.decimals)
             /\ ~(e.wire = "varint" /\ e.field \in Numbers(schema))
    <3>1. after = before
      BY <1>1, <2>5 DEF Store
    <3>2. \A name \in Range(names) :
            Stored(NumberOfName(schema, name))
              = Worth(p, n - 1, NumberOfName(schema, name), schema)
      BY <2>5 DEF Stored
    <3> QED
      BY <1>2, <1>3, <2>1, <3>1, <3>2
  <2> QED
    BY <2>2, <2>3, <2>4, <2>5
<1>9. \A name \in Range(names) :
        after[name] = Worth(p, n, NumberOfName(schema, name), schema)
  <2>1. \A name \in Range(names) : NumberOfName(schema, name) \in DOMAIN names
    BY NamesAre
  <2> HIDE DEF after, Stored
  <2> QED
    BY <1>7, <1>8, <2>1
<1> HIDE DEF after
<1> QED
  BY <1>8, <1>9 DEF SoFar, after

\* The quote of a payload, before its symbol is looked at.
LEMMA QuoteIs ==
  ASSUME NEW p, IsPayload(p), Readable(p), NEW schema, Proper(schema)
  PROVE  QuoteOf(Fields(EncodeEntries(p)), schema) = Checked(SoFar(p, Len(p), schema))
<1> DEFINE N == Len(p)
           fields == FieldsOf(p)
           Is(f) == f = [n \in 0..N |-> IF n = 0 THEN Blank(schema)
                                        ELSE Store(f[n - 1], fields[n], schema)]
           all == CHOOSE f : Is(f)
           quotes == [n \in 0..N |-> SoFar(p, n, schema)]
<1>1. /\ N \in Nat /\ \A i \in 1..N : Fits(p[i]) /\ Sound(p[i])
      /\ fields \in Seq(FieldRead) /\ Len(fields) = N
      /\ Fields(EncodeEntries(p)) = fields
  BY PayloadIs, FieldsOfReadable
<1>2. \A n \in 1..N : fields[n] = FieldOf(p[n])
  BY DEF FieldsOf
<1> HIDE DEF fields, N
<1>3. fields # None
  BY <1>1, NoneAssumption
<1>4. Is(quotes)
  <2>1. \A n \in 0..N : quotes[n] = IF n = 0 THEN Blank(schema)
                                    ELSE Store(quotes[n - 1], fields[n], schema)
    <3> SUFFICES ASSUME NEW n \in 0..N
                 PROVE  quotes[n] = IF n = 0 THEN Blank(schema)
                                    ELSE Store(quotes[n - 1], fields[n], schema)
      OBVIOUS
    <3>1. CASE n = 0
      BY <3>1, SoFarBlank
    <3>2. CASE n # 0
      <4>1. n \in 1..N /\ n \in Nat \ {0} /\ n - 1 \in 0..N
        BY <1>1, <3>2
      <4>2. quotes[n] = SoFar(p, n, schema) /\ quotes[n - 1] = SoFar(p, n - 1, schema)
        BY <4>1
      <4>3. SoFar(p, n, schema) = Store(SoFar(p, n - 1, schema), FieldOf(p[n]), schema)
        BY <1>1, <4>1, SoFarStores
      <4> HIDE DEF quotes
      <4> QED
        BY <1>2, <3>2, <4>1, <4>2, <4>3
    <3> QED
      BY <3>1, <3>2
  <2>2. quotes = [n \in 0..N |-> quotes[n]]
    OBVIOUS
  <2> HIDE DEF quotes
  <2> QED
    BY <2>1, <2>2
<1>5. Is(all)
  <2> HIDE DEF Is, quotes
  <2> QED
    BY <1>4
<1>6. \A n \in 0..N : all[n] = SoFar(p, n, schema)
  <2> DEFINE T == {n \in Nat : n <= N => all[n] = SoFar(p, n, schema)}
  <2> HIDE DEF all
  <2>0. \A n \in 0..N : all[n] = IF n = 0 THEN Blank(schema)
                                 ELSE Store(all[n - 1], fields[n], schema)
    BY <1>5
  <2>1. 0 \in T
    BY <1>1, <2>0, SoFarBlank
  <2>2. \A n \in Nat : n \in T => n + 1 \in T
    <3> SUFFICES ASSUME NEW n \in Nat, n \in T, n + 1 <= N
                 PROVE  all[n + 1] = SoFar(p, n + 1, schema)
      OBVIOUS
    <3>1. /\ n + 1 \in 1..N /\ n + 1 \in 0..N /\ n + 1 \in Nat \ {0} /\ n + 1 # 0
          /\ (n + 1) - 1 = n /\ n <= N
      BY <1>1
    <3>2. all[n + 1] = Store(all[n], fields[n + 1], schema)
      BY <2>0, <3>1
    <3>3. all[n] = SoFar(p, n, schema)
      BY <3>1
    <3>4. SoFar(p, n + 1, schema) = Store(SoFar(p, n, schema), FieldOf(p[n + 1]), schema)
      <4>1. Fits(p[n + 1]) /\ Sound(p[n + 1])
        BY <1>1, <3>1
      <4>2. SoFar(p, n + 1, schema)
              = Store(SoFar(p, (n + 1) - 1, schema), FieldOf(p[n + 1]), schema)
        BY <3>1, <4>1, SoFarStores
      <4> QED
        BY <3>1, <4>2
    <3> QED
      BY <1>2, <3>1, <3>2, <3>3, <3>4
  <2>3. Nat \subseteq T
    <3> HIDE DEF T
    <3> QED
      BY <2>1, <2>2, SetInduction
  <2> QED
    BY <1>1, <2>3
<1>7. QuoteOf(fields, schema) = Checked(all[N])
  <2>1. QuoteOf(fields, schema) = IF fields = None THEN None ELSE Checked(all[N])
    BY <1>1 DEF QuoteOf
  <2> HIDE DEF all
  <2> QED
    BY <1>3, <2>1
<1>8. N \in 0..N
  BY <1>1
<1> HIDE DEF all
<1>9. QuoteOf(fields, schema) = Checked(SoFar(p, N, schema))
  BY <1>6, <1>7, <1>8
<1> QED
  BY <1>1, <1>9 DEF N

\* What is made of a payload is what its entries say, if its symbol is read as it is
\* meant.
LEMMA QuoteSays ==
  ASSUME NEW p, IsPayload(p), NEW schema, Proper(schema),
         ParseSymbol(TextOf(p, 1)) = SymbolOf(p)
  PROVE  QuoteOf(Fields(EncodeEntries(p)), schema) = Says(p, schema)
<1>1. CASE ~Readable(p)
  <2>1. Fields(EncodeEntries(p)) = None
    BY <1>1, NoFieldsOfUnreadable
  <2>2. QuoteOf(None, schema) = None
    BY DEF QuoteOf
  <2> QED
    BY <1>1, <2>1, <2>2 DEF Says
<1>2. CASE Readable(p)
  <2> DEFINE quote == SoFar(p, Len(p), schema)
             names == schema.names
             symbol == SymbolOf(p)
  <2>1. QuoteOf(Fields(EncodeEntries(p)), schema) = Checked(quote)
    BY <1>2, QuoteIs
  <2>2. \A name \in Range(names) :
          quote[name] = Worth(p, Len(p), NumberOfName(schema, name), schema)
    BY DEF SoFar
  <2>3. DOMAIN quote = Range(names) /\ "symbol" \in Range(names)
    BY NamesAre DEF SoFar
  <2>4. \A name \in Range(names) :
          /\ NumberOfName(schema, name) \in DOMAIN names
          /\ name = "symbol" <=> NumberOfName(schema, name) = 1
    BY NamesAre DEF Proper
  <2>5. DOMAIN p = 1..Len(p)
    BY PayloadIs
  <2>6. quote["symbol"] = TextOf(p, 1)
    <3>1. NumberOfName(schema, "symbol") = 1
      BY <2>3, <2>4
    <3>2. Worth(p, Len(p), 1, schema) = FoundText(p, Len(p), 1)
      <4>1. 1 \notin Numbers(schema) /\ 1 \notin schema.decimals
        BY DEF Numbers, Proper
      <4> QED
        BY <4>1 DEF Worth
    <3> HIDE DEF quote
    <3> QED
      BY <2>2, <2>3, <2>5, <3>1, <3>2, FoundAll
  <2> HIDE DEF quote
  <2>7. Checked(quote) = WithSymbol(quote, symbol)
    BY <2>6 DEF Checked
  <2> DEFINE Said(field) ==
               CASE field = 1                  -> symbol
                 [] field \in Numbers(schema)  -> NumberOf(p, field)
                 [] field \in schema.decimals -> ParseDecimal(TextOf(p, field))
  <2>8. Says(p, schema) = IF symbol = None THEN None
                          ELSE [name \in Range(names) |-> Said(NumberOfName(schema, name))]
    BY <1>2 DEF Says, NumberOfName
  <2> HIDE DEF symbol
  <2>9. \A i \in DOMAIN names : i # 1 => Worth(p, Len(p), i, schema) = Said(i)
    <3> SUFFICES ASSUME NEW i \in DOMAIN names, i # 1
                 PROVE  Worth(p, Len(p), i, schema) = Said(i)
      OBVIOUS
    <3>1. i \in Numbers(schema) \/ i \in schema.decimals
      BY DEF Numbers
    <3>2. i \in Numbers(schema) => i \notin schema.decimals
      BY DEF Numbers
    <3>3. /\ FoundText(p, Len(p), i) = TextOf(p, i)
          /\ FoundNumber(p, Len(p), i) = NumberOf(p, i)
      BY <2>5, FoundAll
    <3> QED
      BY <3>1, <3>2, <3>3 DEF Worth
  <2>10. Said(1) = symbol
    <3>1. 1 \notin Numbers(schema) /\ 1 \notin schema.decimals
      BY DEF Numbers, Proper
    <3> QED
      BY <3>1
  <2> HIDE DEF Said
  <2>11. ASSUME symbol # None
         PROVE  [quote EXCEPT !["symbol"] = symbol]
                  = [name \in Range(names) |-> Said(NumberOfName(schema, name))]
    <3> DEFINE new == [quote EXCEPT !["symbol"] = symbol]
    <3>0. quote = [name \in Range(names) |-> quote[name]]
      BY DEF quote, SoFar
    <3>1. new = [name \in Range(names) |-> new[name]]
      BY <2>3, <3>0
    <3>2. \A name \in Range(names) :
            new[name] = IF name = "symbol" THEN symbol ELSE quote[name]
      BY <2>3
    <3>3. \A name \in Range(names) : new[name] = Said(NumberOfName(schema, name))
      <4> HIDE DEF new
      <4> QED
        BY <2>2, <2>4, <2>9, <2>10, <3>2
    <3> HIDE DEF new
    <3> QED
      BY <3>1, <3>3 DEF new
  <2> QED
    BY <2>1, <2>7, <2>8, <2>11 DEF WithSymbol
<1> QED
  BY <1>1, <1>2

\* The texts that name a symbol
LEMMA GreatestExists ==
  ASSUME NEW n \in Nat, NEW S \in SUBSET (1..n), S # {}
  PROVE  Max(S) \in S /\ \A s \in S : s <= Max(S)
<1> DEFINE R == {n - s : s \in S}
<1>1. R \in SUBSET Nat /\ R # {}
  OBVIOUS
<1>2. Min(R) \in R /\ \A r \in R : Min(R) <= r
  <2> HIDE DEF R
  <2> QED
    BY <1>1, LeastExists
<1>3. PICK m \in S : Min(R) = n - m
  BY <1>2
<1>4. \A s \in S : s <= m
  <2> SUFFICES ASSUME NEW s \in S PROVE s <= m
    OBVIOUS
  <2>1. n - s \in R
    OBVIOUS
  <2>2. n - m <= n - s
    <3> HIDE DEF R
    <3> QED
      BY <1>2, <1>3, <2>1
  <2> QED
    BY <2>2
<1>5. S \in SUBSET Nat
  OBVIOUS
<1>6. Max(S) = m
  BY <1>4, <1>5, GreatestIs
<1> QED
  BY <1>4, <1>6

LEMMA Slice ==
  ASSUME NEW s \in Seq(Byte), NEW m \in Nat, NEW n \in Nat, m <= n, n <= Len(s)
  PROVE  LET u == SubSeq(s, m + 1, n)
         IN  /\ u \in Seq(Byte) /\ Len(u) = n - m /\ DOMAIN u = 1..(n - m)
             /\ \A i \in 1..(n - m) : u[i] = s[m + i]
<1> DEFINE u == SubSeq(s, m + 1, n)
<1>1. u \in Seq(Byte) /\ Len(u) = n - m
  BY Piece
<1>2. \A i \in 1..(n - m) : u[i] = s[m + i]
  OBVIOUS
<1> HIDE DEF u
<1> QED
  BY <1>1, <1>2, LenProperties DEF u

\* Between its blanks, a text is left as it is.
LEMMA TrimIs ==
  ASSUME NEW text \in Seq(Byte)
  PROVE  /\ Trim(text) \in Seq(Byte)
         /\ \A j \in 1..Len(Trim(text)) : \E i \in 1..Len(text) : Trim(text)[j] = text[i]
         /\ \A i \in 1..Len(text) : text[i] \notin Space =>
              \E j \in 1..Len(Trim(text)) : Trim(text)[j] = text[i]
<1> DEFINE n == Len(text)
           inner == {i \in DOMAIN text : text[i] \notin Space}
           a == Min(inner)
           b == Max(inner)
<1>1. n \in Nat /\ DOMAIN text = 1..n
  BY LenProperties
<1>2. inner = {i \in 1..n : text[i] \notin Space}
  BY <1>1
<1>3. CASE inner = {}
  <2>1. Trim(text) = <<>>
    BY <1>3 DEF Trim
  <2> QED
    BY <1>2, <1>3, <2>1
<1>4. CASE inner # {}
  <2>1. Trim(text) = SubSeq(text, a, b)
    BY <1>4 DEF Trim
  <2>2. inner \in SUBSET (1..n) /\ inner \in SUBSET Nat
    BY <1>2
  <2>3. a \in inner /\ b \in inner /\ \A i \in inner : a <= i /\ i <= b
    <3> HIDE DEF inner
    <3> QED
      BY <1>1, <1>4, <2>2, LeastExists, GreatestExists
  <2>4. a \in 1..n /\ b \in 1..n /\ a <= b
    BY <2>2, <2>3
  <2> HIDE DEF a, b, n
  <2> DEFINE m == a - 1
  <2>5. m \in Nat /\ m + 1 = a /\ m <= b /\ b <= Len(text) /\ b \in Nat
    BY <1>1, <2>4 DEF n
  <2> HIDE DEF m
  <2>6. /\ Trim(text) \in Seq(Byte) /\ Len(Trim(text)) = b - m
        /\ \A j \in 1..(b - m) : Trim(text)[j] = text[m + j]
    <3>1. Trim(text) = SubSeq(text, m + 1, b)
      BY <2>1, <2>5
    <3>2. LET u == SubSeq(text, m + 1, b)
          IN  /\ u \in Seq(Byte) /\ Len(u) = b - m
              /\ \A j \in 1..(b - m) : u[j] = text[m + j]
      BY <2>5, Slice
    <3> QED
      BY <3>1, <3>2
  <2>7. \A j \in 1..(b - m) : m + j \in 1..Len(text)
    BY <1>1, <2>5 DEF n
  <2>8. \A i \in 1..Len(text) : text[i] \notin Space => i - m \in 1..(b - m) /\ m + (i - m) = i
    <3> SUFFICES ASSUME NEW i \in 1..Len(text), text[i] \notin Space
                 PROVE  i - m \in 1..(b - m) /\ m + (i - m) = i
      OBVIOUS
    <3>1. a <= i /\ i <= b
      BY <1>2, <2>3 DEF n
    <3> QED
      BY <2>5, <3>1
  <2>9. \A j \in 1..Len(Trim(text)) : \E i \in 1..Len(text) : Trim(text)[j] = text[i]
    BY <2>6, <2>7
  <2>10. \A i \in 1..Len(text) : text[i] \notin Space =>
           \E j \in 1..Len(Trim(text)) : Trim(text)[j] = text[i]
    BY <2>6, <2>8
  <2> QED
    BY <2>6, <2>9, <2>10
<1> QED
  BY <1>3, <1>4

LEMMA UpperIs ==
  ASSUME NEW text \in Seq(Byte)
  PROVE  /\ Upper(text) \in Seq(Byte) /\ Len(Upper(text)) = Len(text)
         /\ \A i \in 1..Len(text) : Upper(text)[i] \notin 97..122
         /\ (\A i \in 1..Len(text) : text[i] \notin 97..122) => Upper(text) = text
<1> DEFINE n == Len(text)
           raised(b) == IF b \in 97..122 THEN b - 32 ELSE b
<1>1. n \in Nat /\ DOMAIN text = 1..n /\ \A i \in 1..n : text[i] \in Byte
  BY LenProperties, ElementOfSeq
<1>2. \A b \in Byte : raised(b) \in Byte /\ raised(b) \notin 97..122
  BY DEF Byte
<1>3. Upper(text) = [i \in 1..n |-> raised(text[i])]
  BY <1>1 DEF Upper
<1> HIDE DEF n, raised
<1>4. Upper(text) \in Seq(Byte) /\ Len(Upper(text)) = n
  BY <1>1, <1>2, <1>3
<1>5. \A i \in 1..n : Upper(text)[i] \notin 97..122
  BY <1>1, <1>2, <1>3
<1>6. ASSUME \A i \in 1..n : text[i] \notin 97..122 PROVE Upper(text) = text
  <2>1. \A i \in 1..n : Upper(text)[i] = text[i]
    BY <1>3, <1>6 DEF raised
  <2> QED
    BY <1>1, <1>4, <2>1, SeqEqual DEF n
<1> QED
  BY <1>4, <1>5, <1>6 DEF n

LEMMA TickersArePlain ==
  ASSUME NEW ticker \in Seq(Byte), ValidTicker(ticker), Upper(ticker) = ticker
  PROVE  Len(ticker) \in 1..16 /\ Plain(ticker)
<1>1. Len(ticker) \in 1..16 /\ Range(ticker) \subseteq Letters \cup Digits \cup {Dot, Dash}
  BY DEF ValidTicker
<1>2. \A i \in 1..Len(ticker) : ticker[i] \in Range(ticker)
  BY DEF Range
<1>3. ticker # <<>>
  <2>1. 0 \notin 1..16
    OBVIOUS
  <2>2. ticker = <<>> => Len(ticker) = 0
    OBVIOUS
  <2> QED
    BY <1>1, <2>1, <2>2
<1> QED
  BY <1>1, <1>2, <1>3 DEF Plain

\* Where the last dot is, the region is read ...
LEMMA RegionIsRead ==
  ASSUME NEW text \in Seq(Byte), NEW region \in DOMAIN RegionText,
         Trim(text) = RegionText[region]
  PROVE  /\ ParseRegion(text) = region /\ text # <<>>
         /\ \A i \in 1..Len(text) : text[i] # Dot
<1> DEFINE r == RegionText[region]
<1>1. /\ Plain(r) /\ Len(r) = 2 /\ r[1] \in Letters /\ r[2] \in Letters
      /\ ParseRegion(r) = region
  BY RegionTexts
<1> HIDE DEF r
<1>2. Trim(r) = r
  BY <1>1, PlainText
<1>3. Trim(text) = Trim(r)
  BY <1>2 DEF r
<1>4. ParseRegion(text) = ParseRegion(r)
  BY <1>3 DEF ParseRegion
<1>5. \A i \in 1..Len(text) : text[i] # Dot
  <2> SUFFICES ASSUME NEW i \in 1..Len(text), text[i] = Dot PROVE FALSE
    OBVIOUS
  <2>1. Dot \notin Space /\ Dot \notin Letters
    BY DEF Dot, Space, Letters
  <2>2. PICK j \in 1..Len(r) : r[j] = Dot
    <3>1. \E j \in 1..Len(Trim(text)) : Trim(text)[j] = text[i]
      BY <2>1, TrimIs
    <3> QED
      BY <1>2, <1>3, <3>1
  <2>3. j = 1 \/ j = 2
    BY <1>1, <2>2
  <2> QED
    BY <1>1, <2>1, <2>2, <2>3
<1>6. text # <<>>
  <2> SUFFICES ASSUME text = <<>> PROVE FALSE
    OBVIOUS
  <2>1. Trim(text) = <<>>
    BY DEF Trim
  <2>2. Len(Trim(text)) = 2
    BY <1>1, <1>2, <1>3
  <2> QED
    BY <2>1, <2>2
<1> QED
  BY <1>1, <1>4, <1>5, <1>6

\* ... as it is written.
LEMMA RegionIsWritten ==
  ASSUME NEW text \in Seq(Byte), \A i \in 1..Len(text) : text[i] \notin 97..122,
         ParseRegion(text) # None
  PROVE  RegionText[ParseRegion(text)] = Trim(text)
<1> DEFINE named == {region \in DOMAIN RegionText : RegionText[region] = Upper(Trim(text))}
<1>1. named # {} /\ ParseRegion(text) = CHOOSE region \in named : TRUE
  BY DEF ParseRegion
<1>2. RegionText[ParseRegion(text)] = Upper(Trim(text))
  BY <1>1
<1>3. Trim(text) \in Seq(Byte) /\ \A j \in 1..Len(Trim(text)) : Trim(text)[j] \notin 97..122
  BY TrimIs
<1>4. Upper(Trim(text)) = Trim(text)
  BY <1>3, UpperIs
<1> QED
  BY <1>2, <1>4

\* Parsing finds the symbol that a text spells, and no other.
LEMMA ParsedIsSpelled ==
  ASSUME NEW text \in Seq(Byte), NEW s \in Symbols
  PROVE  ParseSymbol(text) = s <=> Spells(text, s)
<1> DEFINE t == Upper(Trim(text))
           n == Len(s.ticker)
           dots == {i \in DOMAIN t : t[i] = Dot}
           m == Max(dots)
           ticker == SubSeq(t, 1, m - 1)
           rest == SubSeq(t, m + 1, Len(t))
           region == ParseRegion(rest)
<1>1. /\ s = [ticker |-> s.ticker, region |-> s.region] /\ s # None
      /\ s.region \in DOMAIN RegionText
      /\ s.ticker \in Seq(Byte) /\ ValidTicker(s.ticker) /\ Upper(s.ticker) = s.ticker
  BY SymbolsAssumption
<1>2. n \in 1..16 /\ Plain(s.ticker) /\ Trim(s.ticker) = s.ticker /\ n \in Nat
  BY <1>1, TickersArePlain, PlainText
<1>3. t \in Seq(Byte) /\ \A i \in 1..Len(t) : t[i] \notin 97..122
  BY TrimIs, UpperIs
<1>4. Len(t) \in Nat /\ DOMAIN t = 1..Len(t)
  BY <1>3, LenProperties
<1>5. ParseSymbol(text) = IF dots = {} THEN None
                          ELSE IF m \in {1, Len(t)} THEN None
                          ELSE IF region = None \/ ~ValidTicker(ticker) THEN None
                          ELSE SecuritySymbol(ticker, region)
  BY DEF ParseSymbol
<1>6. Spells(text, s) <=> /\ Len(t) > n
                          /\ SubSeq(t, 1, n) = s.ticker
                          /\ t[n + 1] = Dot
                          /\ Trim(SubSeq(t, n + 2, Len(t))) = RegionText[s.region]
  BY DEF Spells
<1> HIDE DEF t
<1>7. ASSUME Spells(text, s) PROVE ParseSymbol(text) = s
  <2> DEFINE b == SubSeq(t, n + 2, Len(t))
  <2>1. Len(t) > n /\ SubSeq(t, 1, n) = s.ticker /\ t[n + 1] = Dot
        /\ Trim(b) = RegionText[s.region]
    BY <1>6, <1>7
  <2> HIDE DEF n
  <2>2. /\ n + 1 \in Nat /\ n + 1 <= Len(t) /\ (n + 1) + 1 = n + 2 /\ (n + 1) - 1 = n
        /\ n + 1 \in 1..Len(t)
    BY <1>2, <1>4, <2>1
  <2>3. /\ b \in Seq(Byte) /\ Len(b) = Len(t) - (n + 1)
        /\ \A i \in 1..(Len(t) - (n + 1)) : b[i] = t[(n + 1) + i]
    <3> DEFINE k == n + 1
    <3>1. b = SubSeq(t, k + 1, Len(t))
      BY <2>2
    <3> HIDE DEF k, b
    <3>2. k \in Nat /\ k <= Len(t) /\ Len(t) <= Len(t)
      BY <1>4, <2>2 DEF k
    <3>3. /\ b \in Seq(Byte) /\ Len(b) = Len(t) - k
          /\ \A i \in 1..(Len(t) - k) : b[i] = t[k + i]
      BY <1>3, <1>4, <3>1, <3>2, Slice
    <3> QED
      BY <3>3 DEF k
  <2> HIDE DEF b
  <2>4. ParseRegion(b) = s.region /\ b # <<>> /\ \A i \in 1..Len(b) : b[i] # Dot
    BY <1>1, <2>1, <2>3, RegionIsRead
  <2>5. \A i \in dots : i <= n + 1
    <3> SUFFICES ASSUME NEW i \in 1..Len(t), t[i] = Dot, ~(i <= n + 1) PROVE FALSE
      BY <1>4
    <3>1. i - (n + 1) \in 1..(Len(t) - (n + 1)) /\ (n + 1) + (i - (n + 1)) = i
      BY <1>2, <1>4, <2>2
    <3> QED
      BY <2>3, <2>4, <3>1
  <2>6. n + 1 \in dots /\ dots \in SUBSET Nat
    BY <1>4, <2>1, <2>2
  <2>7. m = n + 1 /\ dots # {}
    <3> HIDE DEF dots
    <3> QED
      BY <2>5, <2>6, GreatestIs
  <2>8. m \notin {1, Len(t)}
    <3>1. Len(b) > 0
      BY <2>3, <2>4
    <3> HIDE DEF m
    <3> QED
      BY <1>2, <1>4, <2>2, <2>3, <2>7, <3>1
  <2>9. ticker = s.ticker /\ rest = b
    <3> HIDE DEF m
    <3> QED
      BY <2>1, <2>2, <2>7 DEF b
  <2> HIDE DEF ticker, rest, m, dots
  <2>10. region = s.region /\ region # None /\ ValidTicker(ticker)
    BY <1>1, <2>4, <2>9, NoneAssumption
  <2>11. SecuritySymbol(ticker, region) = s
    BY <1>1, <1>2, <2>9, <2>10 DEF SecuritySymbol
  <2> HIDE DEF region
  <2> QED
    BY <1>5, <2>7, <2>8, <2>10, <2>11
<1>8. ASSUME ParseSymbol(text) = s PROVE Spells(text, s)
  <2>1. /\ dots # {} /\ m \notin {1, Len(t)} /\ region # None /\ ValidTicker(ticker)
        /\ s = SecuritySymbol(ticker, region)
    <3> HIDE DEF dots, m, ticker, region
    <3> QED
      BY <1>1, <1>5, <1>8
  <2>2. m \in dots
    <3>1. dots \in SUBSET (1..Len(t))
      BY <1>4
    <3> HIDE DEF dots
    <3> QED
      BY <1>4, <2>1, <3>1, GreatestExists
  <2>3. m \in 1..Len(t) /\ t[m] = Dot
    <3> HIDE DEF m
    <3> QED
      BY <1>4, <2>2
  <2> HIDE DEF m, dots
  <2>4. m - 1 \in Nat /\ m \in Nat /\ m < Len(t) /\ m - 1 <= Len(t) /\ (m - 1) + 1 = m
    <3>1. m # Len(t)
      BY <2>1
    <3> DEFINE length == Len(t)
    <3>2. m # length /\ length \in Nat /\ m \in 1..length
      BY <1>4, <2>3, <3>1
    <3> HIDE DEF length
    <3>3. m - 1 \in Nat /\ m \in Nat /\ m < length /\ m - 1 <= length /\ (m - 1) + 1 = m
      BY <3>2
    <3> QED
      BY <3>3 DEF length
  <2>5. /\ ticker \in Seq(Byte) /\ Len(ticker) = m - 1
        /\ \A i \in 1..(m - 1) : ticker[i] = t[i]
    <3>1. ticker = SubSeq(t, 0 + 1, m - 1) /\ 0 <= m - 1 /\ 0 \in Nat /\ (m - 1) - 0 = m - 1
      BY <2>4
    <3> HIDE DEF ticker
    <3>2. /\ ticker \in Seq(Byte) /\ Len(ticker) = (m - 1) - 0
          /\ \A i \in 1..((m - 1) - 0) : ticker[i] = t[0 + i]
      BY <1>3, <2>4, <3>1, Slice
    <3>3. \A i \in 1..(m - 1) : 0 + i = i
      OBVIOUS
    <3> QED
      BY <3>1, <3>2, <3>3
  <2>6. /\ rest \in Seq(Byte) /\ Len(rest) = Len(t) - m
        /\ \A i \in 1..(Len(t) - m) : rest[i] = t[m + i]
    <3>1. m <= Len(t) /\ Len(t) <= Len(t)
      BY <1>4, <2>4
    <3> QED
      BY <1>3, <1>4, <2>4, <3>1, Slice
  <2> HIDE DEF ticker, rest
  <2>7. Upper(ticker) = ticker
    <3>1. \A i \in 1..Len(ticker) : i \in 1..Len(t)
      BY <1>4, <2>4, <2>5
    <3>2. \A i \in 1..Len(ticker) : ticker[i] \notin 97..122
      BY <1>3, <2>5, <3>1
    <3> QED
      BY <2>5, <3>2, UpperIs
  <2>8. Trim(ticker) = ticker
    BY <2>1, <2>5, <2>7, TickersArePlain, PlainText
  <2>9. s.ticker = ticker /\ s.region = region
    BY <2>1, <2>7, <2>8 DEF SecuritySymbol
  <2>10. n = m - 1 /\ n + 1 = m /\ n + 2 = m + 1
    BY <2>4, <2>5, <2>9
  <2>11. \A i \in 1..Len(rest) : rest[i] \notin 97..122
    <3>1. \A i \in 1..Len(rest) : m + i \in 1..Len(t)
      BY <1>4, <2>4, <2>6
    <3> QED
      BY <1>3, <2>6, <3>1
  <2>12. RegionText[region] = Trim(rest)
    BY <2>1, <2>6, <2>11, RegionIsWritten
  <2> HIDE DEF n, region
  <2>13. Len(t) > n
    BY <1>4, <2>4, <2>10
  <2>14. SubSeq(t, 1, n) = s.ticker /\ t[n + 1] = Dot
    BY <2>3, <2>9, <2>10 DEF ticker
  <2>15. Trim(SubSeq(t, n + 2, Len(t))) = RegionText[s.region]
    BY <2>9, <2>10, <2>12 DEF rest
  <2> QED
    BY <1>6, <2>13, <2>14, <2>15 DEF n
<1> QED
  BY <1>7, <1>8

\* What a payload of the gateway names is the symbol that its text is parsed to.
LEMMA TextIs ==
  ASSUME NEW p, IsPayload(p), NEW field
  PROVE  TextOf(p, field) \in Seq(Byte)
<1> DEFINE places == Places(p, field, "delimited")
<1>1. Len(p) \in Nat /\ DOMAIN p = 1..Len(p) /\ \A i \in 1..Len(p) : Fits(p[i])
  BY PayloadIs
<1>2. places \in SUBSET (1..Len(p)) /\ \A i \in places : p[i].wire = "delimited"
  BY <1>1 DEF Places
<1>3. CASE places = {}
  <2>1. TextOf(p, field) = <<>>
    BY <1>3 DEF TextOf
  <2> QED
    BY <2>1
<1>4. CASE places # {}
  <2> DEFINE last == Max(places)
  <2>1. TextOf(p, field) = p[last].text
    BY <1>4 DEF TextOf
  <2>2. last \in places
    <3> HIDE DEF places
    <3> QED
      BY <1>1, <1>2, <1>4, GreatestExists
  <2> HIDE DEF places, last
  <2>3. Fits(p[last]) /\ p[last].wire = "delimited"
    BY <1>1, <1>2, <2>2
  <2>4. p[last].text \in Seq(Byte)
    BY <2>3 DEF Fits
  <2> QED
    BY <2>1, <2>4
<1> QED
  BY <1>3, <1>4

LEMMA QuotesAreSent == \A quote \in SentQuotes : IsPayload(quote)
<1>1. \A p \in PushPayloads : IsPayload(p)
  BY PayloadsAssumption
<1>2. \A p \in AnswerPayloads : \A i \in 1..Len(p) : IsPayload(p[i].row)
  <2>1. \A p \in AnswerPayloads : IsAnswer(p)
    BY PayloadsAssumption
  <2> QED
    BY <2>1 DEF IsAnswer
<1> QED
  BY <1>1, <1>2 DEF SentQuotes

LEMMA SymbolIs ==
  ASSUME NEW quote \in SentQuotes
  PROVE  ParseSymbol(TextOf(quote, 1)) = SymbolOf(quote)
<1> DEFINE text == TextOf(quote, 1)
           named == {s \in Symbols : text \in Spellings[s]}
<1>1. text \in Seq(Byte)
  BY QuotesAreSent, TextIs
<1>2. /\ ParseSymbol(text) \in Symbols \cup {None} /\ None \notin Symbols
      /\ \A s \in Symbols : text \in Spellings[s] <=> Spells(text, s)
  BY SpellingsAssumption, SymbolsAssumption
<1>3. SymbolOf(quote) = IF named = {} THEN None ELSE CHOOSE s \in named : TRUE
  BY DEF SymbolOf
<1> HIDE DEF text
<1>4. \A s \in Symbols : s \in named <=> ParseSymbol(text) = s
  BY <1>1, <1>2, ParsedIsSpelled
<1>5. CASE ParseSymbol(text) = None
  <2>1. named = {}
    BY <1>2, <1>4, <1>5
  <2> QED
    BY <1>3, <1>5, <2>1 DEF text
<1>6. CASE ParseSymbol(text) \in Symbols
  <2>1. named = {ParseSymbol(text)}
    BY <1>4, <1>6
  <2> HIDE DEF named
  <2>2. SymbolOf(quote) = ParseSymbol(text)
    BY <1>3, <2>1
  <2> QED
    BY <2>2 DEF text
<1> QED
  BY <1>2, <1>5, <1>6

\* A push says what its entries say ...
LEMMA PushSays ==
  ASSUME NEW p \in PushPayloads
  PROVE  DecodePushQuote(EncodeEntries(p)) = Says(p, PushSchema)
<1>1. p \in SentQuotes /\ IsPayload(p)
  BY PayloadsAssumption DEF SentQuotes
<1>2. QuoteOf(Fields(EncodeEntries(p)), PushSchema) = Says(p, PushSchema)
  BY <1>1, SchemasAreProper, SymbolIs, QuoteSays
<1> QED
  BY <1>2 DEF DecodePushQuote

\* ... and an answer what its rows say.
LEMMA RowsJoin ==
  ASSUME NEW fields \in Seq(FieldRead),
         \A i \in 1..Len(fields) : fields[i].field = 1 /\ fields[i].wire = Delimited
  PROVE  LET quotes == [i \in 1..Len(fields) |-> DecodeSecurityQuote(fields[i].value)]
         IN  RowsOf(fields) = IF None \in Range(quotes) THEN None ELSE quotes
<1> DEFINE N == Len(fields)
           quotes == [i \in 1..N |-> DecodeSecurityQuote(fields[i].value)]
           Is(f) == f = [n \in 0..N |->
                      IF n = 0 THEN <<>>
                      ELSE IF fields[n].field = 1 /\ fields[n].wire = Delimited
                           THEN Append(f[n - 1], DecodeSecurityQuote(fields[n].value))
                           ELSE f[n - 1]]
           all == CHOOSE f : Is(f)
           first(n) == [i \in 1..n |-> quotes[i]]
           firsts == [n \in 0..N |-> first(n)]
<1>1. N \in Nat /\ fields # None /\ DOMAIN quotes = 1..N
  BY NoneAssumption
<1>2. \A i \in 1..N : /\ fields[i].field = 1 /\ fields[i].wire = Delimited
                      /\ quotes[i] = DecodeSecurityQuote(fields[i].value)
  OBVIOUS
<1>3. RowsOf(fields) = IF None \in Range(all[N]) THEN None ELSE all[N]
  <2>1. RowsOf(fields) = IF fields = None THEN None
                         ELSE IF None \in Range(all[N]) THEN None ELSE all[N]
    BY DEF RowsOf
  <2> HIDE DEF all
  <2> QED
    BY <1>1, <2>1
<1>4. quotes = [i \in 1..N |-> quotes[i]]
  OBVIOUS
<1> HIDE DEF quotes, N
<1>5. first(0) = <<>>
  <2>1. 1..0 = {}
    OBVIOUS
  <2>2. first(0) = [i \in {} |-> quotes[i]]
    BY <2>1
  <2>3. <<>> = [i \in {} |-> quotes[i]]
    OBVIOUS
  <2> QED
    BY <2>2, <2>3
<1>6. \A n \in 1..N : first(n) = Append(first(n - 1), quotes[n])
  <2> SUFFICES ASSUME NEW n \in 1..N PROVE first(n) = Append(first(n - 1), quotes[n])
    OBVIOUS
  <2> DEFINE S == {quotes[i] : i \in 1..n}
             shorter == first(n - 1)
             longer == Append(shorter, quotes[n])
  <2>1. /\ n \in Nat /\ n - 1 \in Nat /\ (n - 1) + 1 = n /\ n \in 1..n
        /\ \A i \in 1..(n - 1) : i \in 1..n /\ i # n
        /\ \A i \in 1..n : i = n \/ i \in 1..(n - 1)
    BY <1>1
  <2>2. shorter \in Seq(S) /\ Len(shorter) = n - 1
    <3>1. \A i \in 1..(n - 1) : quotes[i] \in S
      BY <2>1
    <3> HIDE DEF S
    <3> QED
      BY <2>1, <3>1
  <2>3. quotes[n] \in S /\ \A i \in 1..(n - 1) : shorter[i] = quotes[i]
    BY <2>1
  <2> HIDE DEF S, shorter
  <2>4. /\ longer \in Seq(S) /\ Len(longer) = n /\ longer[n] = quotes[n]
        /\ \A i \in 1..(n - 1) : longer[i] = shorter[i]
    BY <2>1, <2>2, <2>3, AppendProperties
  <2> HIDE DEF longer
  <2>5. \A i \in 1..n : longer[i] = quotes[i]
    BY <2>1, <2>3, <2>4
  <2>6. longer = [i \in 1..n |-> quotes[i]]
    BY <2>1, <2>4, <2>5
  <2> QED
    BY <2>6 DEF longer, shorter
<1> HIDE DEF first
<1>7. Is(firsts)
  <2>1. \A n \in 0..N : firsts[n] =
          IF n = 0 THEN <<>>
          ELSE IF fields[n].field = 1 /\ fields[n].wire = Delimited
               THEN Append(firsts[n - 1], DecodeSecurityQuote(fields[n].value))
               ELSE firsts[n - 1]
    <3> SUFFICES ASSUME NEW n \in 0..N, n # 0
                 PROVE  /\ fields[n].field = 1 /\ fields[n].wire = Delimited
                        /\ firsts[n] = Append(firsts[n - 1], DecodeSecurityQuote(fields[n].value))
      BY <1>5
    <3>1. n \in 1..N /\ n - 1 \in 0..N
      BY <1>1
    <3>2. firsts[n] = first(n) /\ firsts[n - 1] = first(n - 1)
      BY <3>1
    <3> HIDE DEF firsts
    <3> QED
      BY <1>2, <1>6, <3>1, <3>2
  <2>2. firsts = [n \in 0..N |-> firsts[n]]
    OBVIOUS
  <2> HIDE DEF firsts
  <2> QED
    BY <2>1, <2>2
<1>8. Is(all)
  <2> HIDE DEF Is, firsts
  <2> QED
    BY <1>7
<1> HIDE DEF all
<1>9. \A n \in 0..N : all[n] =
        IF n = 0 THEN <<>>
        ELSE IF fields[n].field = 1 /\ fields[n].wire = Delimited
             THEN Append(all[n - 1], DecodeSecurityQuote(fields[n].value))
             ELSE all[n - 1]
  BY <1>8
<1> HIDE DEF Is
<1>10. \A n \in 0..N : all[n] = first(n)
  <2> DEFINE T == {n \in Nat : n <= N => all[n] = first(n)}
  <2>1. 0 \in T
    BY <1>1, <1>5, <1>9
  <2>2. \A n \in Nat : n \in T => n + 1 \in T
    <3> SUFFICES ASSUME NEW n \in Nat, n \in T, n + 1 <= N
                 PROVE  all[n + 1] = first(n + 1)
      OBVIOUS
    <3>1. n + 1 \in 1..N /\ n + 1 \in 0..N /\ n + 1 # 0 /\ (n + 1) - 1 = n /\ n <= N
      BY <1>1
    <3>2. all[n] = first(n)
      BY <3>1
    <3>3. all[n + 1] = Append(all[n], quotes[n + 1])
      BY <1>2, <1>9, <3>1
    <3>4. first(n + 1) = Append(first((n + 1) - 1), quotes[n + 1])
      BY <1>6, <3>1
    <3> QED
      BY <3>1, <3>2, <3>3, <3>4
  <2>3. Nat \subseteq T
    <3> HIDE DEF T
    <3> QED
      BY <2>1, <2>2, SetInduction
  <2> QED
    BY <1>1, <2>3
<1>11. all[N] = quotes
  <2>1. N \in 0..N
    BY <1>1
  <2>2. first(N) = quotes
    BY <1>4 DEF first
  <2> QED
    BY <1>10, <2>1, <2>2
<1> QED
  BY <1>3, <1>11 DEF quotes, N

LEMMA AnswerSays ==
  ASSUME NEW p \in AnswerPayloads
  PROVE  DecodeSecurityQuoteResponse(EncodeEntries(p)) = SaysRows(p)
<1> DEFINE N == Len(p)
           fields == FieldsOf(p)
           quotes == [i \in 1..N |-> DecodeSecurityQuote(fields[i].value)]
           rows == [i \in DOMAIN p |-> Says(p[i].row, QuoteSchema)]
<1>1. IsPayload(p) /\ IsAnswer(p)
  BY PayloadsAssumption DEF IsAnswer
<1>2. \A i \in 1..N : /\ p[i].field = 1 /\ p[i].wire = "delimited"
                      /\ IsPayload(p[i].row) /\ p[i].text = EncodeEntries(p[i].row)
  BY <1>1 DEF IsAnswer
<1>3. Readable(p) /\ DOMAIN p = 1..N /\ N \in Nat
  <2>1. \A i \in 1..N : Sound(p[i])
    BY <1>2 DEF Sound
  <2> QED
    BY <1>1, <2>1, PayloadIs
<1>4. /\ fields \in Seq(FieldRead) /\ Len(fields) = N
      /\ Fields(EncodeEntries(p)) = fields
  BY <1>1, <1>3, FieldsOfReadable
<1>5. \A i \in 1..N : /\ fields[i].field = 1 /\ fields[i].wire = Delimited
                      /\ fields[i].value = EncodeEntries(p[i].row)
  <2> SUFFICES ASSUME NEW i \in 1..N
               PROVE  /\ fields[i].field = 1 /\ fields[i].wire = Delimited
                      /\ fields[i].value = EncodeEntries(p[i].row)
    OBVIOUS
  <2>1. fields[i] = FieldOf(p[i])
    BY DEF FieldsOf
  <2>2. p[i].wire # "varint" /\ p[i].field = 1 /\ p[i].text = EncodeEntries(p[i].row)
    BY <1>2
  <2> HIDE DEF fields
  <2> QED
    BY <2>1, <2>2 DEF FieldOf
<1> HIDE DEF fields
<1>6. \A i \in 1..N : quotes[i] = Says(p[i].row, QuoteSchema)
  <2> SUFFICES ASSUME NEW i \in 1..N
               PROVE  DecodeSecurityQuote(fields[i].value) = Says(p[i].row, QuoteSchema)
    OBVIOUS
  <2>1. p[i].row \in SentQuotes
    BY DEF SentQuotes
  <2>2. IsPayload(p[i].row)
    BY <1>2
  <2>3. QuoteOf(Fields(EncodeEntries(p[i].row)), QuoteSchema) = Says(p[i].row, QuoteSchema)
    BY <2>1, <2>2, SchemasAreProper, SymbolIs, QuoteSays
  <2> QED
    BY <1>5, <2>3 DEF DecodeSecurityQuote
<1>7. quotes = rows
  <2>1. quotes = [i \in 1..N |-> quotes[i]]
    OBVIOUS
  <2> HIDE DEF quotes
  <2> QED
    BY <1>3, <1>6, <2>1
<1>8. RowsOf(fields) = IF None \in Range(quotes) THEN None ELSE quotes
  BY <1>4, <1>5, RowsJoin
<1> HIDE DEF quotes
<1>9. SaysRows(p) = IF None \in Range(rows) THEN None ELSE rows
  BY DEF SaysRows
<1> HIDE DEF rows
<1> QED
  BY <1>4, <1>7, <1>8, <1>9 DEF DecodeSecurityQuoteResponse

\* A frame that is damaged is refused.
LEMMA DamagedIsRefused ==
  ASSUME NEW new \in Messages, new.damage # "none"
  PROVE  DecodeFrame(Bytes(new), MaxPayload).status # "Ok"
<1> DEFINE frame == FrameOf(new)
           bytes == EncodeFrame(frame)
           header == HeaderLength[frame.type]
           data == Bytes(new)
           first == data[1]
<1> SUFFICES ASSUME DecodeFrame(data, MaxPayload).status = "Ok" PROVE FALSE
  OBVIOUS
<1>1. Framed(frame) /\ data = Damaged(bytes, new.damage)
  BY FrameOfIs DEF Bytes, FrameOf
<1> HIDE DEF frame
<1>2. /\ bytes \in Seq(Byte) /\ Len(bytes) = header + Len(frame.payload)
      /\ header \in 5..11 /\ bytes[1] = frame.type
      /\ PayloadLength(bytes, header) = Len(frame.payload)
  BY <1>1, FrameIs
<1>3. frame.type \in {1, 2, 3} /\ DOMAIN HeaderLength = {1, 2, 3}
  BY <1>1 DEF Framed, Shaped, HeaderLength, Request, Response, PushPacket
<1>4. Len(frame.payload) \in Nat
  BY <1>1, PayloadsAre DEF Framed
<1>5. /\ first % 16 \in {1, 2, 3} /\ ~Unsupported(first)
      /\ ~(Len(data) < HeaderLength[first % 16])
      /\ ~(Len(data) < HeaderLength[first % 16] + PayloadLength(data, HeaderLength[first % 16]))
  <2> HIDE DEF data
  <2> QED
    BY <1>3, OkMeans
<1>6. Len(bytes) \in Nat /\ Len(bytes) >= 5 /\ 1 \in DOMAIN bytes
  <2>1. Len(bytes) \in Nat /\ Len(bytes) >= 5
    BY <1>2, <1>4
  <2>2. DOMAIN bytes = 1..Len(bytes)
    BY <1>2, LenProperties
  <2> QED
    BY <2>1, <2>2
<1> HIDE DEF bytes, data, header
<1>7. CASE new.damage = "type"
  <2>1. data = [bytes EXCEPT ![1] = @ + 4]
    BY <1>1, <1>7 DEF Damaged
  <2>2. first = frame.type + 4
    BY <1>2, <1>6, <2>1
  <2>3. \A t \in {1, 2, 3} : (t + 4) % 16 \notin {1, 2, 3}
    OBVIOUS
  <2> HIDE DEF first
  <2> QED
    BY <1>3, <1>5, <2>2, <2>3
<1>8. CASE new.damage = "flag"
  <2>1. data = [bytes EXCEPT ![1] = @ + 32]
    BY <1>1, <1>8 DEF Damaged
  <2>2. first = frame.type + 32
    BY <1>2, <1>6, <2>1
  <2>3. \A t \in {1, 2, 3} : Unsupported(t + 32)
    BY DEF Unsupported
  <2> HIDE DEF first
  <2> QED
    BY <1>3, <1>5, <2>2, <2>3
<1>9. CASE new.damage = "short"
  <2> DEFINE n == Len(bytes) - 1
  <2>1. data = SubSeq(bytes, 1, n)
    BY <1>1, <1>9 DEF Damaged
  <2>2. n \in Nat /\ n >= 4 /\ n <= Len(bytes) /\ n + 1 = Len(bytes)
    BY <1>6
  <2> HIDE DEF n
  <2>3. Len(data) = n /\ \A i \in 1..n : data[i] = bytes[i]
    <3>1. data = SubSeq(bytes, 0 + 1, n) /\ n - 0 = n /\ \A i \in 1..n : 0 + i = i
      BY <2>1, <2>2
    <3>2. LET u == SubSeq(bytes, 0 + 1, n)
          IN  Len(u) = n - 0 /\ \A i \in 1..(n - 0) : u[i] = bytes[0 + i]
      BY <1>2, <2>2, Slice
    <3> QED
      BY <3>1, <3>2
  <2>4. first = frame.type /\ first % 16 = frame.type
    <3>1. 1 \in 1..n
      BY <2>2
    <3>2. \A t \in {1, 2, 3} : t % 16 = t
      OBVIOUS
    <3> QED
      BY <1>2, <1>3, <2>3, <3>1, <3>2
  <2> HIDE DEF first
  <2>5. ~(n < header) /\ ~(n < header + PayloadLength(data, header))
    BY <1>5, <2>3, <2>4 DEF header
  <2>6. PayloadLength(data, header) = PayloadLength(bytes, header)
    <3>1. /\ header - 2 \in 1..n /\ (header - 2) + 1 \in 1..n
          /\ ((header - 2) + 1) + 1 \in 1..n
      BY <1>2, <2>2, <2>5
    <3>2. /\ data[header - 2] = bytes[header - 2]
          /\ data[(header - 2) + 1] = bytes[(header - 2) + 1]
          /\ data[((header - 2) + 1) + 1] = bytes[((header - 2) + 1) + 1]
      BY <2>3, <3>1
    <3> QED
      BY SMT, <3>2 DEF PayloadLength, ReadU24, ReadU16
  <2> QED
    BY <1>2, <1>4, <2>2, <2>5, <2>6
<1> QED
  BY <1>7, <1>8, <1>9, MessagesAre DEF DamageNames

\* What the client makes of the bytes of a message.
LEMMA MessageMakes ==
  ASSUME NEW new \in Messages, HandleMessage(Bytes(new))
  PROVE  outcome' = Expected(new)
<1> DEFINE payload == EncodeEntries(new.entries)
           decoded == DecodeFrame(Bytes(new), MaxPayload)
           got == decoded.frame
           tooLong == Len(payload) > MaxPayload
           delta == Says(new.entries, PushSchema)
<1>1. \/ decoded.status # "Ok" /\ outcome' = Outcome("error", None)
      \/ /\ decoded.status = "Ok"
         /\ \/ got.type = Response /\ HandleResponse(got)
            \/ got.type = Request /\ got.command = Heartbeat /\ HandleHeartbeat(got)
            \/ got.type = PushPacket /\ got.command = QuotePush /\ HandlePush(got)
            \/ /\ got.type # Response
               /\ ~(got.type = Request /\ got.command = Heartbeat)
               /\ ~(got.type = PushPacket /\ got.command = QuotePush)
               /\ outcome' = Outcome("ignored", None)
  BY DEF HandleMessage
<1>2. new.damage # "none" => decoded.status # "Ok"
  BY DamagedIsRefused
<1>3. ASSUME new.damage = "none"
      PROVE  /\ decoded.status = "Ok" <=> ~tooLong
             /\ decoded.status = "Ok" =>
                  /\ got.type = new.type /\ got.command = new.command
                  /\ got.requestId = new.id /\ got.payload = payload
  <2> DEFINE frame == FrameOf(new)
  <2>1. Bytes(new) = EncodeFrame(frame)
    BY <1>3 DEF Bytes, Damaged, FrameOf
  <2>2. /\ Framed(frame) /\ (frame.type = PushPacket => frame.requestId = 0)
        /\ frame.type = new.type /\ frame.command = new.command
        /\ frame.requestId = new.id /\ frame.payload = payload
    BY FrameOfIs
  <2> HIDE DEF frame, payload
  <2>3. LET read == DecodeFrame(EncodeFrame(frame), MaxPayload)
        IN  /\ read.status = "Ok" <=> Len(frame.payload) <= MaxPayload
            /\ read.status = "Ok" =>
                 /\ read.frame.type = frame.type
                 /\ read.frame.command = frame.command
                 /\ read.frame.requestId = frame.requestId
                 /\ read.frame.payload = frame.payload
    BY <2>2, FrameRead, FramesAssumption
  <2>4. Len(payload) <= MaxPayload <=> ~tooLong
    <3>1. Len(payload) \in Nat
      BY <2>2, PayloadsAre DEF Framed
    <3> QED
      BY SMT, <3>1, FramesAssumption
  <2> HIDE DEF tooLong
  <2> QED
    BY <2>1, <2>2, <2>3, <2>4
<1>4. Expected(new) =
        IF new.damage # "none" \/ tooLong THEN Outcome("error", None)
        ELSE CASE new.type = Response ->
                    IF new.id = PendingId
                    THEN Outcome("answer", SaysRows(new.entries))
                    ELSE Outcome("ignored", None)
               [] new.type = Request ->
                    IF new.command = Heartbeat
                    THEN Outcome("heartbeat", new.id)
                    ELSE Outcome("ignored", None)
               [] new.type = PushPacket ->
                    IF new.command # QuotePush \/ delta = None
                    THEN Outcome("ignored", None)
                    ELSE Outcome("delta", delta)
  BY DEF Expected
<1>5. new.type = PushPacket => DecodePushQuote(payload) = delta
  BY MessagesAre, PushSays
<1>6. new.type = Response => DecodeSecurityQuoteResponse(payload) = SaysRows(new.entries)
  BY MessagesAre, AnswerSays
<1>7. new.type \in {Request, Response, PushPacket}
  BY MessagesAre
<1>8. Request # Response /\ Request # PushPacket /\ Response # PushPacket
  BY DEF Request, Response, PushPacket
<1> HIDE DEF payload, decoded, got, tooLong, delta
<1>9. CASE new.damage # "none" \/ tooLong
  BY <1>1, <1>2, <1>3, <1>4, <1>9
<1>10. CASE new.damage = "none" /\ ~tooLong
  <2>1. /\ decoded.status = "Ok" /\ got.type = new.type /\ got.command = new.command
        /\ got.requestId = new.id /\ got.payload = payload
    BY <1>3, <1>10
  <2>2. CASE new.type = Response
    <3>1. HandleResponse(got)
      BY <1>1, <1>8, <2>1, <2>2
    <3>2. outcome' = IF new.id = PendingId THEN Outcome("answer", SaysRows(new.entries))
                     ELSE Outcome("ignored", None)
      BY <1>6, <2>1, <2>2, <3>1 DEF HandleResponse
    <3> QED
      BY <1>4, <1>8, <1>10, <2>2, <3>2
  <2>3. CASE new.type = Request
    <3>1. outcome' = IF new.command = Heartbeat THEN Outcome("heartbeat", new.id)
                     ELSE Outcome("ignored", None)
      BY <1>1, <1>8, <2>1, <2>3 DEF HandleHeartbeat
    <3> QED
      BY <1>4, <1>8, <1>10, <2>3, <3>1
  <2>4. CASE new.type = PushPacket
    <3>1. outcome' = IF new.command # QuotePush \/ delta = None
                     THEN Outcome("ignored", None) ELSE Outcome("delta", delta)
      BY <1>1, <1>5, <1>8, <2>1, <2>4 DEF HandlePush
    <3> QED
      BY <1>4, <1>8, <1>10, <2>4, <3>1
  <2> QED
    BY <1>7, <2>2, <2>3, <2>4
<1> QED
  BY <1>9, <1>10

\* The message that is on its way, with the outcome.
OutcomeInv ==
  /\ sent # None => sent \in Messages /\ stream = Bytes(sent)
  /\ OutcomeIsWhatWasSent

LEMMA OutcomeInvKept ==
  ASSUME RxInv, OutcomeInv, Next
  PROVE  OutcomeInv'
<1>1. ASSUME sent' = None PROVE OutcomeInv'
  BY <1>1 DEF OutcomeInv, OutcomeIsWhatWasSent
<1>2. /\ (up \/ sent = None) /\ (sent = None => Idle)
      /\ (sent # None => sent \in Messages /\ stream = Bytes(sent))
  BY DEF RxInv, Keeping, OutcomeInv
<1>3. ASSUME NEW new \in Messages, StartMessage(new)
      PROVE  OutcomeInv'
  <2>1. sent' = new /\ stream' = Bytes(new) /\ taken' = 0
    BY <1>3 DEF StartMessage
  <2>2. Len(Bytes(new)) # 0
    BY BytesAre
  <2>3. ~Idle'
    BY <2>1, <2>2 DEF Idle
  <2> QED
    BY <2>1, <2>3 DEF OutcomeInv, OutcomeIsWhatWasSent
<1>4. ASSUME NEW n \in 1..MaxChunk, Chunk(n)
      PROVE  OutcomeInv'
  <2> DEFINE bytes == SubSeq(stream, taken + 1, taken + n)
             now == (IF taken - FrameStart = 0 THEN <<>> ELSE rx) \o bytes
  <2>1. /\ up /\ ~Idle /\ taken + n <= FrameEnd /\ taken' = taken + n
        /\ sent' = sent /\ stream' = stream /\ split' = split
        /\ HandleData(bytes, taken - FrameStart, FrameEnd - FrameStart, split = 0 \/ InSecond)
    BY <1>4 DEF Chunk
  <2>2. /\ now = SubSeq(stream, FrameStart + 1, taken + n)
        /\ Len(now) = (taken + n) - FrameStart
    BY <2>1, NowIs
  <2>3. sent \in Messages /\ stream = Bytes(sent)
    BY <1>2, <2>1
  <2>4. ASSUME Idle', split' = 0 PROVE outcome' = Expected(sent)
    <3>1. FrameStart = 0 /\ FrameEnd = Len(stream) /\ taken + n = Len(stream) /\ split = 0
      BY <2>1, <2>4 DEF FrameStart, FrameEnd, InSecond, Idle
    <3>2. stream \in Seq(Byte) /\ Len(stream) \in Nat
      BY DEF RxInv, Keeping
    <3>3. now = stream /\ Len(now) >= FrameEnd - FrameStart
      <4> HIDE DEF now
      <4>0. FrameStart + 1 = 1
        BY <3>1
      <4>1. now = SubSeq(stream, 1, Len(stream))
        BY <2>2, <3>1, <4>0
      <4>2. now = stream
        BY <3>2, <4>1
      <4> QED
        BY <3>1, <3>2, <4>2
    <3>4. HandleMessage(now)
      <4>1. \/ HandleMessage(now)
            \/ ~((split = 0 \/ InSecond) /\ Len(now) >= FrameEnd - FrameStart)
        BY <2>1 DEF HandleData
      <4> QED
        BY <3>1, <3>3, <4>1
    <3> HIDE DEF now
    <3>5. HandleMessage(Bytes(sent))
      BY <2>3, <3>3, <3>4
    <3> QED
      BY <2>3, <3>5, MessageMakes
  <2>5. sent' # None => sent' \in Messages /\ stream' = Bytes(sent')
    BY <2>1, <2>3
  <2>6. OutcomeIsWhatWasSent'
    BY <2>1, <2>4 DEF OutcomeIsWhatWasSent
  <2> QED
    BY <2>5, <2>6 DEF OutcomeInv
<1>5. CASE Finish
  BY <1>1, <1>5 DEF Finish, NoMessage
<1>6. CASE Close
  BY <1>1, <1>6 DEF Close, message
<1>7. CASE Lose
  BY <1>1, <1>7 DEF Lose, NoMessage
<1>8. CASE Connect
  BY <1>1, <1>2, <1>8 DEF Connect, message
<1>9. CASE AskSomething
  BY <1>1, <1>9 DEF AskSomething, Ask, Quiet, message
<1> QED
  BY <1>3, <1>4, <1>5, <1>6, <1>7, <1>8, <1>9 DEF Next

\* However a message is cut into chunks, handle_websocket_event makes of it what it
\* says: for every payload of the gateway, every damage and every width of a varint, the
\* delta, the answer, the heartbeat or the error is the one the message was sent for.
THEOREM OutcomeIsWhatWasSentHolds == Spec => []OutcomeIsWhatWasSent
<1>1. Init => OutcomeInv
  BY DEF Init, OutcomeInv, OutcomeIsWhatWasSent
<1>2. RxInv /\ OutcomeInv /\ [Next]_vars => OutcomeInv'
  <2> SUFFICES ASSUME RxInv, OutcomeInv, [Next]_vars PROVE OutcomeInv'
    OBVIOUS
  <2>1. CASE Next
    BY <2>1, OutcomeInvKept
  <2>2. CASE UNCHANGED vars
    BY <2>2 DEF OutcomeInv, OutcomeIsWhatWasSent, vars, message, Idle
  <2> QED
    BY <2>1, <2>2
<1>3. OutcomeInv => OutcomeIsWhatWasSent
  BY DEF OutcomeInv
<1> QED
  BY <1>1, <1>2, <1>3, RxInvHolds, PTL DEF Spec
===============================================================================
