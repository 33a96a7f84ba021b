------------------------- MODULE PipelineLoopProofs -------------------------
(***************************************************************************)
(* Proofs about PipelineLoop, for any number of pipelines and any width of *)
(* the loop counter.                                                       *)
(*                                                                         *)
(* The loop tests n & (flush - 1) and RunLoop tests flush & (flush - 1).   *)
(* The first part shows what that means in arithmetic: for a flush that    *)
(* passes the second test, the first one is n % flush = 0, and flush       *)
(* divides the size of the word, so the counter may wrap around.  It is an *)
(* induction over the width.  The second part is an invariant of the loop. *)
(***************************************************************************)
EXTENDS PipelineLoop, WellFoundedInduction, TLAPS

-----------------------------------------------------------------------------
(* Induction over the natural numbers, for a set in place of a predicate. *)
LEMMA SetInduction ==
  ASSUME NEW S, 0 \in S, \A k \in Nat : k \in S => k + 1 \in S
  PROVE  Nat \subseteq S
<1> DEFINE T == Nat \ S
<1>1. SUFFICES ASSUME T # {} PROVE FALSE
  OBVIOUS
<1>2. PICK x \in T : \A y \in T : ~ (<<y, x>> \in OpToRel(<, Nat))
  BY <1>1, WFMin, NatLessThanWellFounded
<1>3. \A y \in T : ~ (y < x)
  BY <1>2 DEF OpToRel
<1>4. x # 0 /\ x - 1 \in Nat
  OBVIOUS
<1>5. x - 1 \in S
  BY <1>3, <1>4
<1>6. QED
  BY <1>4, <1>5

-----------------------------------------------------------------------------
(* Powers of two. *)

(* A table of the powers up to k. *)
Table(k, g) ==
  /\ g \in [0..k -> Nat]
  /\ \A j \in 0..k : g[j] = IF j = 0 THEN 1 ELSE 2 * g[j - 1]

(* Powers of two can be tabulated up to any exponent, by induction on a *)
(* set.                                                                 *)
LEMMA TableExists == \A k \in Nat : \E g : Table(k, g)
<1> DEFINE S == {k \in Nat : \E g : Table(k, g)}
<1>1. 0 \in S
  <2>1. Table(0, [j \in 0..0 |-> 1])
    BY DEF Table
  <2>2. QED
    BY <2>1
<1>2. ASSUME NEW k \in Nat, k \in S
      PROVE  k + 1 \in S
  <2>1. PICK g : Table(k, g)
    BY <1>2
  <2> DEFINE h == [j \in 0..(k + 1) |-> IF j = k + 1 THEN 2 * g[k] ELSE g[j]]
  <2>2. h \in [0..(k + 1) -> Nat]
    BY <2>1 DEF Table
  <2>3. \A j \in 0..(k + 1) : h[j] = IF j = 0 THEN 1 ELSE 2 * h[j - 1]
    <3>1. ASSUME NEW j \in 0..k PROVE h[j] = IF j = 0 THEN 1 ELSE 2 * h[j - 1]
      <4>1. h[j] = g[j] /\ (j # 0 => h[j - 1] = g[j - 1])
        OBVIOUS
      <4>2. g[j] = IF j = 0 THEN 1 ELSE 2 * g[j - 1]
        BY <2>1 DEF Table
      <4>3. QED
        BY <4>1, <4>2
    <3>2. h[k + 1] = 2 * h[k]
      OBVIOUS
    <3>3. QED
      BY <3>1, <3>2
  <2>4. Table(k + 1, h)
    BY <2>2, <2>3 DEF Table
  <2>5. QED
    BY <2>4
<1>3. Nat \subseteq S
  <2> HIDE DEF S
  <2>1. QED
    BY <1>1, <1>2, SetInduction
<1>4. QED
  BY <1>3

(* Two such tables agree where both are defined. *)
LEMMA TableUnique ==
  \A k \in Nat : \A l, m \in Nat : \A g, h :
    k <= l /\ k <= m /\ Table(l, g) /\ Table(m, h) => g[k] = h[k]
<1> DEFINE P(k) == \A l, m \in Nat : \A g, h :
                     k <= l /\ k <= m /\ Table(l, g) /\ Table(m, h) => g[k] = h[k]
           S == {k \in Nat : P(k)}
<1>1. P(0)
  BY DEF Table
<1>2. ASSUME NEW k \in Nat, P(k)
      PROVE  P(k + 1)
  <2> SUFFICES ASSUME NEW l \in Nat, NEW m \in Nat, NEW g, NEW h,
                      k + 1 <= l, k + 1 <= m, Table(l, g), Table(m, h)
               PROVE  g[k + 1] = h[k + 1]
    OBVIOUS
  <2>1. g[k] = h[k]
    BY <1>2
  <2>2. g[k + 1] = 2 * g[k] /\ h[k + 1] = 2 * h[k]
    BY DEF Table
  <2>3. QED
    BY <2>1, <2>2
<1>3. 0 \in S /\ \A k \in Nat : k \in S => k + 1 \in S
  BY <1>1, <1>2
<1>4. Nat \subseteq S
  <2> HIDE DEF S
  <2>1. QED
    BY <1>3, SetInduction
<1>5. QED
  BY <1>4

(* The recursive definition of Pow2 defines a function. *)
LEMMA Pow2Def == Pow2 = [k \in Nat |-> IF k = 0 THEN 1 ELSE 2 * Pow2[k - 1]]
<1> DEFINE G(k) == CHOOSE g : Table(k, g)
           f == [k \in Nat |-> G(k)[k]]
<1>1. \A k \in Nat : Table(k, G(k))
  BY TableExists
<1>2. f[0] = 1
  <2>1. Table(0, G(0))
    BY <1>1
  <2> HIDE DEF G
  <2>2. QED
    BY <2>1 DEF Table
<1>3. ASSUME NEW k \in Nat, k # 0
      PROVE  f[k] = 2 * f[k - 1]
  <2>1. Table(k, G(k)) /\ Table(k - 1, G(k - 1)) /\ k - 1 \in Nat
    BY <1>1, <1>3
  <2> HIDE DEF G
  <2>2. G(k)[k] = 2 * G(k)[k - 1]
    BY <1>3, <2>1 DEF Table
  <2>3. G(k)[k - 1] = G(k - 1)[k - 1]
    BY <1>3, <2>1, TableUnique
  <2>4. QED
    BY <2>1, <2>2, <2>3
<1>4. f = [k \in Nat |-> IF k = 0 THEN 1 ELSE 2 * f[k - 1]]
  <2> HIDE DEF G
  <2>1. \A k \in Nat : f[k] = IF k = 0 THEN 1 ELSE 2 * f[k - 1]
    BY <1>2, <1>3
  <2>2. QED
    BY <2>1
<1>5. \E p : p = [k \in Nat |-> IF k = 0 THEN 1 ELSE 2 * p[k - 1]]
  BY <1>4
<1>6. QED
  BY <1>5 DEF Pow2

(* What the recursive function Pow2 computes. *)
LEMMA Pow2Facts ==
  /\ Pow2[0] = 1
  /\ \A k \in Nat : Pow2[k + 1] = 2 * Pow2[k]
  /\ \A k \in Nat : Pow2[k] \in Nat \ {0}
<1>1. \A k \in Nat : Pow2[k] = IF k = 0 THEN 1 ELSE 2 * Pow2[k - 1]
  BY Pow2Def
<1>2. Pow2[0] = 1
  BY <1>1
<1>3. \A k \in Nat : Pow2[k + 1] = 2 * Pow2[k]
  BY <1>1
<1> DEFINE S == {k \in Nat : Pow2[k] \in Nat \ {0}}
<1>4. 0 \in S /\ \A k \in Nat : k \in S => k + 1 \in S
  BY <1>2, <1>3
<1>5. Nat \subseteq S
  <2> HIDE DEF S
  <2>1. QED
    BY <1>4, SetInduction
<1>6. QED
  BY <1>2, <1>3, <1>5

-----------------------------------------------------------------------------
(* Division. *)

(* Quotient and remainder. *)
LEMMA DivMod ==
  ASSUME NEW a \in Nat, NEW p \in Nat \ {0}
  PROVE  /\ a \div p \in Nat /\ a % p \in 0..(p - 1)
         /\ a = p * (a \div p) + (a % p)
OBVIOUS

(* Quotient and remainder are determined by what they satisfy. *)
LEMMA DivModUnique ==
  ASSUME NEW p \in Nat \ {0}, NEW q \in Nat, NEW r \in 0..(p - 1)
  PROVE  (p * q + r) \div p = q /\ (p * q + r) % p = r
OBVIOUS

(* A remainder of zero means a multiple. *)
LEMMA ModZero ==
  ASSUME NEW a \in Nat, NEW p \in Nat \ {0}
  PROVE  a % p = 0 <=> \E q \in Nat : a = p * q
<1>1. a % p = 0 => a = p * (a \div p) /\ a \div p \in Nat
  BY DivMod
<1>2. ASSUME NEW q \in Nat, a = p * q PROVE a % p = 0
  <2>1. a = p * q + 0 /\ p * q \in Nat
    BY <1>2
  <2>2. 0 \in 0..(p - 1)
    OBVIOUS
  <2>3. QED
    BY <2>1, <2>2, DivModUnique
<1>3. QED
  BY <1>1, <1>2

(* Quotient and remainder by two. *)
LEMMA Halves ==
  ASSUME NEW a \in Nat
  PROVE  /\ a \div 2 \in Nat /\ a % 2 \in {0, 1}
         /\ a = 2 * (a \div 2) + (a % 2)
OBVIOUS

(* Dividing by two first. *)
LEMMA DivTwice ==
  ASSUME NEW a \in Nat, NEW p \in Nat \ {0}
  PROVE  a \div (2 * p) = (a \div 2) \div p
<1> DEFINE h == a \div 2
           q == h \div p
           r == 2 * (h % p) + (a % 2)
<1>1. h \in Nat /\ a % 2 \in {0, 1} /\ a = 2 * h + (a % 2)
  BY Halves
<1>2. q \in Nat /\ h % p \in 0..(p - 1) /\ h = p * q + (h % p)
  BY <1>1, DivMod
<1>3. r \in 0..(2 * p - 1)
  BY <1>1, <1>2
<1>4. 2 * h = 2 * (p * q) + 2 * (h % p)
  BY <1>1, <1>2
<1>5. 2 * (p * q) = (2 * p) * q
  BY <1>2
<1>6. a = (2 * p) * q + r
  <2> DEFINE t == h % p
             s == a % 2
             x == (2 * p) * q
  <2>1. r = 2 * t + s /\ t \in Nat /\ s \in Nat /\ x \in Nat
    BY <1>1, <1>2
  <2>2. a = 2 * h + s /\ 2 * h = x + 2 * t
    BY <1>1, <1>4, <1>5
  <2> SUFFICES a = x + r
    OBVIOUS
  <2> HIDE DEF h, q, r, t, s, x
  <2>3. QED
    BY <1>1, <2>1, <2>2
<1>7. 2 * p \in Nat \ {0}
  OBVIOUS
<1> HIDE DEF h, q, r
<1>8. ((2 * p) * q + r) \div (2 * p) = q
  BY <1>2, <1>3, <1>7, DivModUnique
<1>9. QED
  BY <1>6, <1>8 DEF q, h

(* A multiple of 2p is an even number whose half is a multiple of p. *)
LEMMA ModTwice ==
  ASSUME NEW a \in Nat, NEW p \in Nat \ {0}
  PROVE  a % (2 * p) = 0 <=> a % 2 = 0 /\ (a \div 2) % p = 0
<1>1. a \div 2 \in Nat /\ a % 2 \in {0, 1} /\ a = 2 * (a \div 2) + (a % 2)
  BY Halves
<1>2. ASSUME a % (2 * p) = 0 PROVE a % 2 = 0 /\ (a \div 2) % p = 0
  <2>1. 2 * p \in Nat \ {0}
    OBVIOUS
  <2>2. PICK q \in Nat : a = (2 * p) * q
    BY <1>2, <2>1, ModZero
  <2>3. a = 2 * (p * q) /\ p * q \in Nat
    BY <2>2
  <2>4. a % 2 = 0 /\ a \div 2 = p * q
    BY <1>1, <2>3
  <2>5. QED
    BY <1>1, <2>4, ModZero
<1>3. ASSUME a % 2 = 0, (a \div 2) % p = 0 PROVE a % (2 * p) = 0
  <2>1. PICK q \in Nat : a \div 2 = p * q
    BY <1>1, <1>3, ModZero
  <2>2. a = 2 * (p * q)
    BY <1>1, <1>3, <2>1
  <2>3. 2 * (p * q) = (2 * p) * q /\ 2 * p \in Nat \ {0}
    OBVIOUS
  <2>4. QED
    BY <2>2, <2>3, ModZero
<1>4. QED
  BY <1>2, <1>3

-----------------------------------------------------------------------------
(* Bits of words of any width. *)

Bit(a, i) == (a \div Pow2[i]) % 2
DisjointBits(w, a, b) == \A i \in 0..(w - 1) : ~(Bit(a, i) = 1 /\ Bit(b, i) = 1)

(* The bits of a number are its parity and the bits of its half. *)
LEMMA BitFacts ==
  ASSUME NEW a \in Nat
  PROVE  /\ Bit(a, 0) = a % 2
         /\ \A i \in Nat : Bit(a, i + 1) = Bit(a \div 2, i)
         /\ \A i \in Nat : Bit(a, i) \in {0, 1}
<1>1. Bit(a, 0) = a % 2
  BY Pow2Facts DEF Bit
<1>2. ASSUME NEW i \in Nat PROVE Bit(a, i + 1) = Bit(a \div 2, i)
  <2>1. Pow2[i + 1] = 2 * Pow2[i] /\ Pow2[i] \in Nat \ {0}
    BY Pow2Facts
  <2>2. a \div (2 * Pow2[i]) = (a \div 2) \div Pow2[i]
    BY <2>1, DivTwice
  <2>3. QED
    BY <2>1, <2>2 DEF Bit
<1>3. ASSUME NEW i \in Nat PROVE Bit(a, i) \in {0, 1}
  <2>1. a \div Pow2[i] \in Nat
    BY Pow2Facts, DivMod
  <2>2. QED
    BY <2>1, Halves DEF Bit
<1>4. QED
  BY <1>1, <1>2, <1>3

(* The lowest bit and the others. *)
LEMMA DisjointStep ==
  ASSUME NEW w \in Nat, NEW a \in Nat, NEW b \in Nat
  PROVE  DisjointBits(w + 1, a, b) <=>
           ~(a % 2 = 1 /\ b % 2 = 1) /\ DisjointBits(w, a \div 2, b \div 2)
<1>1. Bit(a, 0) = a % 2 /\ Bit(b, 0) = b % 2
  BY BitFacts
<1>2. \A i \in Nat : Bit(a, i + 1) = Bit(a \div 2, i) /\ Bit(b, i + 1) = Bit(b \div 2, i)
  BY BitFacts
<1>3. ASSUME DisjointBits(w + 1, a, b)
      PROVE  ~(a % 2 = 1 /\ b % 2 = 1) /\ DisjointBits(w, a \div 2, b \div 2)
  <2>1. ~(a % 2 = 1 /\ b % 2 = 1)
    BY <1>1, <1>3 DEF DisjointBits
  <2>2. ASSUME NEW i \in 0..(w - 1)
        PROVE  ~(Bit(a \div 2, i) = 1 /\ Bit(b \div 2, i) = 1)
    <3>1. i \in Nat /\ i + 1 \in 0..(w + 1 - 1)
      OBVIOUS
    <3>2. QED
      BY <1>2, <1>3, <3>1 DEF DisjointBits
  <2>3. QED
    BY <2>1, <2>2 DEF DisjointBits
<1>4. ASSUME ~(a % 2 = 1 /\ b % 2 = 1), DisjointBits(w, a \div 2, b \div 2)
      PROVE  DisjointBits(w + 1, a, b)
  <2>1. ASSUME NEW i \in 0..(w + 1 - 1)
        PROVE  ~(Bit(a, i) = 1 /\ Bit(b, i) = 1)
    <3>1. CASE i = 0
      BY <1>1, <1>4, <3>1
    <3>2. CASE i # 0
      <4>1. i - 1 \in Nat /\ i - 1 \in 0..(w - 1) /\ i = (i - 1) + 1
        BY <3>2
      <4>2. Bit(a, i) = Bit(a \div 2, i - 1) /\ Bit(b, i) = Bit(b \div 2, i - 1)
        BY <1>2, <4>1
      <4>3. QED
        BY <1>4, <4>1, <4>2 DEF DisjointBits
    <3>3. QED
      BY <3>1, <3>2
  <2>2. QED
    BY <2>1 DEF DisjointBits
<1>5. QED
  BY <1>3, <1>4

(* A word that has no bit in common with itself is zero. *)
LEMMA DisjointSelf ==
  \A w \in Nat : \A a \in 0..(Pow2[w] - 1) : DisjointBits(w, a, a) => a = 0
<1> DEFINE P(w) == \A a \in 0..(Pow2[w] - 1) : DisjointBits(w, a, a) => a = 0
           S == {w \in Nat : P(w)}
<1>1. P(0)
  BY Pow2Facts
<1>2. ASSUME NEW w \in Nat, P(w) PROVE P(w + 1)
  <2> SUFFICES ASSUME NEW a \in 0..(Pow2[w + 1] - 1), DisjointBits(w + 1, a, a)
               PROVE  a = 0
    OBVIOUS
  <2>1. Pow2[w + 1] = 2 * Pow2[w] /\ Pow2[w] \in Nat \ {0}
    BY Pow2Facts
  <2>2. a \in Nat /\ a \div 2 \in 0..(Pow2[w] - 1) /\ a = 2 * (a \div 2) + (a % 2)
        /\ a % 2 \in {0, 1}
    BY <2>1
  <2>3. a % 2 # 1 /\ DisjointBits(w, a \div 2, a \div 2)
    BY <2>2, DisjointStep
  <2>4. a \div 2 = 0
    BY <1>2, <2>2, <2>3
  <2>5. QED
    BY <2>2, <2>3, <2>4
<1>3. 0 \in S /\ \A w \in Nat : w \in S => w + 1 \in S
  BY <1>1, <1>2
<1>4. Nat \subseteq S
  <2> HIDE DEF S
  <2>1. QED
    BY <1>3, SetInduction
<1>5. QED
  BY <1>4

(* What the masks of the loop mean: a flush that shares no bit with flush - *)
(* 1 divides the size of the word, and n shares none with flush - 1 exactly *)
(* when flush divides n.                                                    *)
LEMMA MaskIsModulus ==
  \A w \in Nat : \A f \in 1..(Pow2[w] - 1) : DisjointBits(w, f, f - 1) =>
    /\ Pow2[w] % f = 0
    /\ \A a \in Nat : DisjointBits(w, a, f - 1) <=> a % f = 0
<1> DEFINE Q(w, f) == /\ Pow2[w] % f = 0
                      /\ \A a \in Nat : DisjointBits(w, a, f - 1) <=> a % f = 0
           P(w) == \A f \in 1..(Pow2[w] - 1) : DisjointBits(w, f, f - 1) => Q(w, f)
           S == {w \in Nat : P(w)}
<1>1. P(0)
  BY Pow2Facts
<1>2. ASSUME NEW w \in Nat, P(w) PROVE P(w + 1)
  <2> SUFFICES ASSUME NEW f \in 1..(Pow2[w + 1] - 1), DisjointBits(w + 1, f, f - 1)
               PROVE  Q(w + 1, f)
    OBVIOUS
  <2> DEFINE h == f \div 2
  <2>1. Pow2[w + 1] = 2 * Pow2[w] /\ Pow2[w] \in Nat \ {0}
    BY Pow2Facts
  <2>2. /\ f \in Nat \ {0} /\ f - 1 \in Nat
        /\ h \in 0..(Pow2[w] - 1) /\ f = 2 * h + (f % 2) /\ f % 2 \in {0, 1}
    BY <2>1
  <2>3. CASE f % 2 = 1
    <3>1. (f - 1) \div 2 = h
      BY <2>2, <2>3
    <3>2. DisjointBits(w, h, h)
      BY <2>2, <3>1, DisjointStep
    <3>3. f = 1
      BY <2>2, <2>3, <3>2, DisjointSelf
    <3>4. \A a \in Nat : a % 1 = 0
      OBVIOUS
    <3>5. \A i \in Nat : Bit(0, i) = 0
      <4>1. ASSUME NEW p \in Nat \ {0} PROVE 0 \div p = 0
        OBVIOUS
      <4>2. QED
        BY <4>1, Pow2Facts DEF Bit
    <3>6. \A a \in Nat : DisjointBits(w + 1, a, 0)
      BY <3>5 DEF DisjointBits
    <3>7. QED
      BY <2>1, <3>3, <3>4, <3>6
  <2>4. CASE f % 2 = 0
    <3>1. h \in 1..(Pow2[w] - 1) /\ f = 2 * h /\ h - 1 \in Nat
      BY <2>2, <2>4
    <3>2. (f - 1) % 2 = 1 /\ (f - 1) \div 2 = h - 1
      BY <3>1
    <3>3. DisjointBits(w, h, h - 1)
      <4>1. DisjointBits(w, f \div 2, (f - 1) \div 2)
        BY <2>2, DisjointStep
      <4>2. QED
        BY <3>2, <4>1
    <3>4. Q(w, h)
      BY <1>2, <3>1, <3>3
    <3> HIDE DEF h
    <3>0. h \in Nat \ {0}
      BY <2>1, <3>1
    <3>5. Pow2[w + 1] % f = 0
      <4>1. (2 * Pow2[w]) % 2 = 0 /\ (2 * Pow2[w]) \div 2 = Pow2[w] /\ 2 * Pow2[w] \in Nat
        BY <2>1
      <4>2. (2 * Pow2[w]) % (2 * h) = 0
        BY <3>0, <3>4, <4>1, ModTwice
      <4>3. QED
        BY <2>1, <3>1, <4>2
    <3>6. ASSUME NEW a \in Nat PROVE DisjointBits(w + 1, a, f - 1) <=> a % f = 0
      <4>1. a \div 2 \in Nat /\ a % 2 \in {0, 1}
        BY Halves
      <4>2. DisjointBits(w + 1, a, f - 1) <=> a % 2 # 1 /\ DisjointBits(w, a \div 2, h - 1)
        <5>1. DisjointBits(w + 1, a, f - 1) <=>
                ~(a % 2 = 1 /\ (f - 1) % 2 = 1) /\ DisjointBits(w, a \div 2, (f - 1) \div 2)
          BY <2>2, DisjointStep
        <5>2. QED
          BY <3>2, <5>1
      <4>3. DisjointBits(w, a \div 2, h - 1) <=> (a \div 2) % h = 0
        BY <3>4, <4>1
      <4>4. a % (2 * h) = 0 <=> a % 2 = 0 /\ (a \div 2) % h = 0
        BY <3>0, ModTwice
      <4>5. QED
        BY <3>1, <4>1, <4>2, <4>3, <4>4
    <3>7. QED
      BY <3>5, <3>6
  <2>5. QED
    BY <2>2, <2>3, <2>4
<1>3. 0 \in S /\ \A w \in Nat : w \in S => w + 1 \in S
  BY <1>1, <1>2
<1>4. Nat \subseteq S
  <2> HIDE DEF S
  <2>1. QED
    BY <1>3, SetInduction
<1>5. QED
  BY <1>4

-----------------------------------------------------------------------------
(* The masks of the loop. *)

(* There is at least one word. *)
LEMMA WordSize == Pow2[W] \in Nat \ {0} /\ W \in Nat
BY Pow2Facts, PipelineLoopAssumption

(* The next value of the counter, modulo a divisor of the word size. *)
LEMMA WrapMod ==
  ASSUME NEW f \in 1..(Pow2[W] - 1), Pow2[W] % f = 0, NEW k \in UINT32
  PROVE  /\ (k + 1) % Pow2[W] \in UINT32
         /\ ((k + 1) % Pow2[W]) % f = IF (k % f) + 1 = f THEN 0 ELSE (k % f) + 1
<1> DEFINE w == Pow2[W]
           q == k \div f
           r == k % f
<1>1. w \in Nat \ {0} /\ k \in 0..(w - 1) /\ f \in Nat \ {0} /\ k \in Nat
  BY WordSize DEF UINT32
<1>2. q \in Nat /\ r \in 0..(f - 1) /\ k = f * q + r
  BY <1>1, DivMod
<1>3. (k + 1) % f = IF r + 1 = f THEN 0 ELSE r + 1
  <2>1. CASE r + 1 = f
    <3> HIDE DEF q, r
    <3>1. k + 1 = f * (q + 1) /\ q + 1 \in Nat /\ k + 1 \in Nat
      BY <1>1, <1>2, <2>1
    <3>2. (k + 1) % f = 0
      BY <1>1, <3>1, ModZero
    <3>3. QED
      BY <2>1, <3>2
  <2>2. CASE r + 1 # f
    <3>1. k + 1 = f * q + (r + 1) /\ r + 1 \in 0..(f - 1)
      BY <1>1, <1>2, <2>2
    <3> HIDE DEF q, r
    <3>2. (f * q + (r + 1)) % f = r + 1
      BY <1>1, <1>2, <3>1, DivModUnique
    <3>3. QED
      BY <2>2, <3>1, <3>2
  <2>3. QED
    BY <2>1, <2>2
<1>4. CASE k + 1 < w
  <2>1. (k + 1) % w = k + 1
    BY <1>1, <1>4
  <2>2. QED
    BY <1>1, <1>3, <1>4, <2>1 DEF UINT32
<1>5. CASE k + 1 = w
  <2>1. (k + 1) % w = 0
    BY <1>1, <1>5
  <2>2. (k + 1) % f = 0
    BY <1>5
  <2>3. r + 1 = f
    BY <1>2, <1>3, <2>2
  <2>4. QED
    BY <1>1, <2>1, <2>3 DEF UINT32
<1>6. QED
  BY <1>1, <1>4, <1>5

(* A flush that RunLoop accepts: the loop skips the flush unless n is a     *)
(* multiple of it.                                                          *)
LEMMA FlushMask ==
  ASSUME NEW f \in UINT32, f # 0, FlushAccepted(f)
  PROVE  /\ f \in 1..(Pow2[W] - 1) /\ Pow2[W] % f = 0
         /\ \A k \in UINT32 : Disjoint(k, Pred(f)) <=> k % f = 0
<1>1. f \in 1..(Pow2[W] - 1) /\ Pow2[W] \in Nat \ {0} /\ W \in Nat
  BY WordSize DEF UINT32
<1>2. Pred(f) = f - 1
  <2>1. f + Pow2[W] - 1 = Pow2[W] * 1 + (f - 1) /\ f - 1 \in 0..(Pow2[W] - 1)
    BY <1>1
  <2>2. (Pow2[W] * 1 + (f - 1)) % Pow2[W] = f - 1
    BY <1>1, <2>1, DivModUnique
  <2>3. QED
    BY <2>1, <2>2 DEF Pred
<1>3. \A a, b : Disjoint(a, b) <=> DisjointBits(W, a, b)
  BY DEF Disjoint, DisjointBits, Bit
<1>4. DisjointBits(W, f, f - 1)
  BY <1>2, <1>3 DEF FlushAccepted
<1>5. Pow2[W] % f = 0 /\ \A a \in Nat : DisjointBits(W, a, f - 1) <=> a % f = 0
  BY <1>1, <1>4, MaskIsModulus
<1>6. \A k \in UINT32 : k \in Nat
  BY DEF UINT32
<1>7. QED
  BY <1>1, <1>2, <1>3, <1>5, <1>6

-----------------------------------------------------------------------------
(* The invariant of the loop. *)

LoopTypeOK ==
  /\ pc \in [Pipelines -> {"idle", "panicked", "run", "test", "ctrl", "stopped", "failed"}]
  /\ ctrl \in [Pipelines -> {"simple", "custom", "nil"}]
  /\ flush \in [Pipelines -> UINT32]
  /\ n \in [Pipelines -> UINT32]
  /\ rc \in [Pipelines -> {-1, 0, 1}]
  /\ since \in [Pipelines -> Nat]
  /\ late \in [Pipelines -> Nat]
  /\ stop \in {0, 1}
  /\ held \in BOOLEAN
  /\ freed \in BOOLEAN

(* The runs since the last flush are what n % flush says, except in the     *)
(* first iteration, which flushes after one run.                            *)
SinceInv(p) ==
  /\ ~Looping(p) => since[p] = 0
  /\ Looping(p) => FlushAccepted(flush[p])
  /\ Looping(p) /\ flush[p] # 0 =>
       LET r == n[p] % flush[p]
       IN /\ pc[p] = "run" =>
               \/ since[p] = IF r = 0 THEN flush[p] - 1 ELSE r - 1
               \/ n[p] = 0 /\ since[p] = 0
          /\ pc[p] = "test" =>
               \/ since[p] = IF r = 0 THEN flush[p] ELSE r
               \/ n[p] = 0 /\ since[p] = 1
  /\ pc[p] = "ctrl" => flush[p] # 0 /\ n[p] % flush[p] = 0 /\ since[p] = 0 /\ ctrl[p] # "nil"

(* A pipeline that watches the controller has run no more often since Stop  *)
(* than since its last flush, until it comes to look at the byte.           *)
LateInv(p) ==
  /\ pc[p] = "idle" => late[p] = 0
  /\ stop = 0 => late[p] = 0
  /\ ctrl[p] = "simple" /\ flush[p] # 0 =>
       /\ pc[p] \in {"run", "test"} => late[p] <= since[p]
       /\ late[p] <= flush[p]

(* The byte is there for as long as a loop reads it. *)
OwnerInv ==
  /\ freed => ~held
  /\ ~held => \A p \in Pipelines : pc[p] # "idle" /\ (ctrl[p] = "simple" => ~Looping(p))

LoopInv == LoopTypeOK /\ \A p \in Pipelines : SinceInv(p)

(* Before RunLoop is called no pipeline has anything to flush. *)
LEMMA LoopInitInv == Init => LoopInv /\ OwnerInv /\ \A p \in Pipelines : LateInv(p)
<1> SUFFICES ASSUME Init PROVE LoopInv /\ OwnerInv /\ \A p \in Pipelines : LateInv(p)
  OBVIOUS
<1>1. 0 \in UINT32
  BY WordSize DEF UINT32
<1>2. LoopTypeOK
  BY <1>1 DEF Init, LoopTypeOK
<1>3. \A p \in Pipelines : SinceInv(p) /\ LateInv(p)
  BY DEF Init, SinceInv, LateInv, Looping
<1>4. OwnerInv
  BY DEF Init, OwnerInv
<1>5. QED
  BY <1>2, <1>3, <1>4 DEF LoopInv

(* A step of one pipeline leaves the others alone. *)
Same(p) ==
  /\ pc'[p] = pc[p] /\ ctrl'[p] = ctrl[p] /\ flush'[p] = flush[p] /\ n'[p] = n[p]
  /\ since'[p] = since[p] /\ late'[p] = late[p]

(* A step keeps what is said of the pipelines it does not move. *)
LEMMA SameKeeps ==
  ASSUME NEW p \in Pipelines, Same(p)
  PROVE  /\ SinceInv(p) => SinceInv(p)'
         /\ LateInv(p) /\ (stop' = 0 => stop = 0) => LateInv(p)'
<1>1. SinceInv(p) => SinceInv(p)'
  BY DEF Same, SinceInv, Looping, FlushAccepted, Disjoint, Pred
<1>2. LateInv(p) /\ (stop' = 0 => stop = 0) => LateInv(p)'
  BY DEF Same, LateInv
<1>3. QED
  BY <1>1, <1>2

(* In the loop, since never exceeds flush, and never reaches the size of    *)
(* the word.                                                                *)
LEMMA SinceBound ==
  ASSUME LoopInv, NEW p \in Pipelines, Looping(p), flush[p] # 0
  PROVE  /\ flush[p] \in 1..(Pow2[W] - 1) /\ Pow2[W] % flush[p] = 0
         /\ n[p] \in UINT32 /\ n[p] % flush[p] \in 0..(flush[p] - 1)
         /\ since[p] \in 0..flush[p]
         /\ pc[p] = "run" => since[p] < flush[p]
         /\ SkipFlush(p) <=> n[p] % flush[p] # 0
         /\ Pow2[W] \in Nat
<1>1. flush[p] \in UINT32 /\ n[p] \in UINT32 /\ since[p] \in Nat /\ FlushAccepted(flush[p])
  BY DEF LoopInv, LoopTypeOK, SinceInv
<1>2. /\ flush[p] \in 1..(Pow2[W] - 1) /\ Pow2[W] % flush[p] = 0
      /\ Disjoint(n[p], Pred(flush[p])) <=> n[p] % flush[p] = 0
  BY <1>1, FlushMask
<1>3. n[p] % flush[p] \in 0..(flush[p] - 1)
  <2>1. n[p] \in Nat /\ flush[p] \in Nat \ {0}
    BY <1>1, <1>2, WordSize DEF UINT32
  <2>2. QED
    BY <2>1, DivMod
<1>4. SinceInv(p)
  BY DEF LoopInv
<1>5. since[p] \in 0..flush[p] /\ (pc[p] = "run" => since[p] < flush[p])
  <2> DEFINE r == n[p] % flush[p]
  <2>1. r \in 0..(flush[p] - 1) /\ flush[p] \in Nat /\ flush[p] >= 1
    BY <1>2, <1>3, WordSize
  <2>2. /\ pc[p] = "run" => \/ since[p] = IF r = 0 THEN flush[p] - 1 ELSE r - 1
                            \/ since[p] = 0
        /\ pc[p] = "test" => \/ since[p] = IF r = 0 THEN flush[p] ELSE r
                             \/ since[p] = 1
        /\ pc[p] = "ctrl" => since[p] = 0
        /\ pc[p] \in {"run", "test", "ctrl"}
    BY <1>4 DEF SinceInv, Looping
  <2> HIDE DEF r
  <2>3. QED
    BY <2>1, <2>2, <1>1
<1>6. QED
  BY <1>1, <1>2, <1>3, <1>5, WordSize DEF SkipFlush

(* The counter of the next iteration. *)
LEMMA NextModulus ==
  ASSUME LoopInv, NEW p \in Pipelines, Looping(p), flush[p] # 0, NextIteration(p)
  PROVE  /\ n'[p] \in UINT32
         /\ n'[p] % flush[p] = LET r == n[p] % flush[p] IN IF r + 1 = flush[p] THEN 0 ELSE r + 1
<1>1. n'[p] = (n[p] + 1) % Pow2[W]
  BY DEF NextIteration, LoopInv, LoopTypeOK
<1>2. QED
  BY <1>1, SinceBound, WrapMod

(* RunLoop starts the loop with its counter at zero, or refuses. *)
LEMMA RunLoopInv ==
  ASSUME LoopInv, NEW p \in Pipelines, NEW f \in Flushes, NEW c \in Ctrls, RunLoop(p, f, c)
  PROVE  /\ LoopTypeOK' /\ SinceInv(p)' /\ \A q \in Pipelines \ {p} : Same(q)
         /\ LateInv(p) => LateInv(p)'
<1> USE DEF LoopInv
<1>1. f \in UINT32 /\ c \in {"simple", "custom", "nil"} /\ 0 \in UINT32
  BY PipelineLoopAssumption, WordSize DEF UINT32
<1>2. /\ pc[p] = "idle" /\ pc'[p] = IF FlushAccepted(f) THEN "run" ELSE "panicked"
      /\ flush'[p] = f /\ ctrl'[p] = c /\ n'[p] = 0 /\ since'[p] = since[p]
      /\ late'[p] = late[p] /\ stop' = stop
  BY DEF RunLoop, LoopTypeOK, ctrlVars
<1>3. LoopTypeOK'
  BY <1>1 DEF RunLoop, LoopTypeOK, ctrlVars
<1>4. since[p] = 0
  BY <1>2 DEF SinceInv, Looping
<1>5. FlushAccepted(flush[p])' <=> FlushAccepted(f)
  BY <1>2 DEF FlushAccepted, Disjoint, Pred
<1>6. SinceInv(p)'
  BY <1>2, <1>4, <1>5 DEF SinceInv, Looping
<1>7. LateInv(p) => LateInv(p)'
  <2>1. f \in Nat
    BY <1>1 DEF UINT32
  <2>2. QED
    BY <1>2, <1>4, <2>1 DEF LateInv
<1>8. \A q \in Pipelines \ {p} : Same(q)
  BY DEF RunLoop, LoopTypeOK, Same
<1>9. QED
  BY <1>3, <1>6, <1>7, <1>8

(* rte_pipeline_run adds one to what has to be flushed. *)
LEMMA RunPipelineInv ==
  ASSUME LoopInv, NEW p \in Pipelines, RunPipeline(p)
  PROVE  /\ LoopTypeOK' /\ SinceInv(p)' /\ \A q \in Pipelines \ {p} : Same(q)
         /\ LateInv(p) => LateInv(p)'
<1> USE DEF LoopInv
<1>1. /\ pc[p] = "run" /\ pc'[p] = "test" /\ Looping(p)
      /\ since'[p] = Count(since[p])
      /\ late'[p] = IF stop = 1 THEN Count(late[p]) ELSE late[p]
      /\ ctrl' = ctrl /\ flush' = flush /\ n' = n /\ stop' = stop
  BY DEF RunPipeline, LoopTypeOK, ctrlVars, Looping
<1>2. \A k \in Nat : Count(k) \in Nat
  BY DEF Count
<1>3. LoopTypeOK'
  BY <1>2 DEF RunPipeline, LoopTypeOK, ctrlVars
<1>4. FlushAccepted(flush[p])' <=> FlushAccepted(flush[p])
  BY <1>1 DEF FlushAccepted, Disjoint, Pred
<1>5. CASE flush[p] = 0
  <2>1. SinceInv(p)'
    BY <1>1, <1>4, <1>5 DEF SinceInv, Looping
  <2>2. LateInv(p) => LateInv(p)'
    BY <1>1, <1>5 DEF LateInv, LoopTypeOK
  <2>3. QED
    BY <1>3, <2>1, <2>2 DEF RunPipeline, LoopTypeOK, Same
<1>6. CASE flush[p] # 0
  <2> DEFINE r == n[p] % flush[p]
  <2>1. /\ since[p] < flush[p] /\ flush[p] \in 1..(Pow2[W] - 1) /\ Pow2[W] \in Nat
        /\ r \in 0..(flush[p] - 1) /\ since[p] \in Nat
    BY <1>1, <1>6, SinceBound DEF LoopTypeOK
  <2>2. since'[p] = since[p] + 1
    BY <1>1, <2>1 DEF Count
  <2>3. \/ since[p] = IF r = 0 THEN flush[p] - 1 ELSE r - 1
        \/ n[p] = 0 /\ since[p] = 0
    BY <1>1, <1>6 DEF SinceInv
  <2>4. \/ since'[p] = IF r = 0 THEN flush[p] ELSE r
        \/ n[p] = 0 /\ since'[p] = 1
    BY <2>1, <2>2, <2>3
  <2>5. SinceInv(p)'
    BY <1>1, <1>4, <2>4 DEF SinceInv, Looping
  <2>6. ASSUME LateInv(p), ctrl[p] = "simple" PROVE late'[p] <= since'[p] /\ late'[p] <= flush[p]
    <3>1. late[p] <= since[p] /\ late[p] \in Nat
      BY <1>1, <1>6, <2>6 DEF LateInv, LoopTypeOK
    <3>2. late'[p] <= late[p] + 1
      BY <1>1, <3>1 DEF Count
    <3>3. late'[p] \in Nat
      BY <1>3 DEF LoopTypeOK
    <3>4. QED
      BY <2>1, <2>2, <3>1, <3>2, <3>3
  <2>7. LateInv(p) => LateInv(p)'
    BY <1>1, <2>6 DEF LateInv, LoopTypeOK
  <2>8. QED
    BY <1>3, <2>5, <2>7 DEF RunPipeline, LoopTypeOK, Same
<1>7. QED
  BY <1>5, <1>6

(* The loop goes on without a flush exactly while the masked counter is not *)
(* zero.                                                                    *)
LEMMA ContinueInv ==
  ASSUME LoopInv, NEW p \in Pipelines, Continue(p)
  PROVE  /\ LoopTypeOK' /\ SinceInv(p)' /\ \A q \in Pipelines \ {p} : Same(q)
         /\ LateInv(p) => LateInv(p)'
<1> USE DEF LoopInv
<1>1. /\ pc[p] = "test" /\ pc'[p] = "run" /\ Looping(p) /\ NextIteration(p) /\ SkipFlush(p)
      /\ n'[p] = (n[p] + 1) % Pow2[W]
      /\ since' = since /\ late' = late /\ ctrl' = ctrl /\ flush' = flush /\ stop' = stop
  BY DEF Continue, NextIteration, LoopTypeOK, ctrlVars, Looping
<1>2. n'[p] \in UINT32
  <2>1. n[p] \in Nat /\ n[p] + 1 \in Nat
    BY DEF LoopTypeOK, UINT32
  <2>2. QED
    BY <1>1, <2>1, WordSize, DivMod DEF UINT32
<1>3. LoopTypeOK'
  BY <1>2 DEF Continue, NextIteration, LoopTypeOK, ctrlVars
<1>4. FlushAccepted(flush[p])' <=> FlushAccepted(flush[p])
  BY <1>1 DEF FlushAccepted, Disjoint, Pred
<1>5. LateInv(p) => LateInv(p)'
  BY <1>1 DEF LateInv
<1>6. SinceInv(p)'
  <2>1. CASE flush[p] = 0
    BY <1>1, <1>4, <2>1 DEF SinceInv, Looping
  <2>2. CASE flush[p] # 0
    <3> DEFINE r == n[p] % flush[p]
               s == n'[p] % flush[p]
    <3>1. r # 0 /\ r \in 0..(flush[p] - 1) /\ flush[p] \in 1..(Pow2[W] - 1) /\ Pow2[W] \in Nat
      BY <1>1, <2>2, SinceBound
    <3>2. s = IF r + 1 = flush[p] THEN 0 ELSE r + 1
      BY <1>1, <2>2, NextModulus
    <3>3. since[p] = r
      <4>1. 0 % flush[p] = 0
        BY <3>1
      <4>2. n[p] # 0
        BY <3>1, <4>1
      <4>3. QED
        BY <1>1, <2>2, <3>1, <4>2 DEF SinceInv
    <3>4. since'[p] = IF s = 0 THEN flush[p] - 1 ELSE s - 1
      <4> HIDE DEF r, s
      <4>1. QED
        BY <1>1, <3>1, <3>2, <3>3
    <3>5. QED
      BY <1>1, <1>4, <3>4 DEF SinceInv, Looping
  <2>3. QED
    BY <2>1, <2>2
<1>7. QED
  BY <1>3, <1>5, <1>6 DEF Continue, NextIteration, LoopTypeOK, Same

(* The counter moves on from a flush, with nothing run since. *)
LEMMA AfterFlush ==
  ASSUME LoopInv, NEW p \in Pipelines, Looping(p), flush[p] # 0, NextIteration(p),
         n[p] % flush[p] = 0, flush' = flush, since'[p] = 0
  PROVE  SinceInv(p)'
<1> DEFINE s == n'[p] % flush[p]
<1>1. flush[p] \in 1..(Pow2[W] - 1) /\ Pow2[W] \in Nat
  BY SinceBound
<1>2. s = IF 0 + 1 = flush[p] THEN 0 ELSE 0 + 1
  BY NextModulus
<1>3. FlushAccepted(flush[p])'
  BY DEF LoopInv, SinceInv, FlushAccepted, Disjoint, Pred
<1>4. since'[p] = IF s = 0 THEN flush[p] - 1 ELSE s - 1
  <2> HIDE DEF s
  <2>1. QED
    BY <1>1, <1>2
<1>5. pc'[p] = "run"
  BY DEF NextIteration, LoopInv, LoopTypeOK
<1>6. QED
  BY <1>3, <1>4, <1>5 DEF SinceInv, Looping

(* rte_pipeline_flush leaves nothing behind. *)
LEMMA FlushInv ==
  ASSUME LoopInv, NEW p \in Pipelines, Flush(p)
  PROVE  /\ LoopTypeOK' /\ SinceInv(p)' /\ \A q \in Pipelines \ {p} : Same(q)
         /\ LateInv(p) => LateInv(p)'
<1> USE DEF LoopInv
<1>1. /\ pc[p] = "test" /\ Looping(p) /\ ~SkipFlush(p) /\ flush[p] # 0
      /\ since'[p] = 0 /\ late' = late /\ ctrl' = ctrl /\ flush' = flush /\ stop' = stop
  BY DEF Flush, LoopTypeOK, ctrlVars, Looping, SkipFlush
<1>2. n[p] % flush[p] = 0
  BY <1>1, SinceBound
<1>3. (n[p] + 1) % Pow2[W] \in UINT32
  <2>1. n[p] \in Nat /\ n[p] + 1 \in Nat
    BY DEF LoopTypeOK, UINT32
  <2>2. QED
    BY <2>1, WordSize, DivMod DEF UINT32
<1>4. FlushAccepted(flush[p])'
  BY <1>1 DEF SinceInv, FlushAccepted, Disjoint, Pred
<1>5. CASE ctrl[p] = "nil" /\ NextIteration(p)
  <2>1. LoopTypeOK'
    BY <1>3, <1>5 DEF Flush, NextIteration, LoopTypeOK, ctrlVars
  <2>2. SinceInv(p)'
    BY <1>1, <1>2, <1>5, AfterFlush
  <2>3. LateInv(p) => LateInv(p)'
    <3>1. pc'[p] = "run"
      BY <1>5 DEF NextIteration, LoopTypeOK
    <3>2. QED
      BY <1>1, <1>5, <3>1 DEF LateInv
  <2>4. QED
    BY <1>5, <2>1, <2>2, <2>3 DEF Flush, NextIteration, LoopTypeOK, Same
<1>6. CASE ctrl[p] # "nil" /\ pc' = [pc EXCEPT ![p] = "ctrl"] /\ UNCHANGED n
  <2>1. LoopTypeOK'
    BY <1>6 DEF Flush, LoopTypeOK, ctrlVars
  <2>2. pc'[p] = "ctrl" /\ n' = n
    BY <1>6 DEF LoopTypeOK
  <2>3. SinceInv(p)'
    BY <1>1, <1>2, <1>4, <1>6, <2>2 DEF SinceInv, Looping
  <2>4. LateInv(p) => LateInv(p)'
    BY <1>1, <2>2 DEF LateInv
  <2>5. QED
    BY <1>6, <2>1, <2>3, <2>4 DEF Flush, LoopTypeOK, Same
<1>7. QED
  BY <1>5, <1>6 DEF Flush

(* The controller is asked right after a flush. *)
LEMMA ControlInv ==
  ASSUME LoopInv, NEW p \in Pipelines, Control(p)
  PROVE  /\ LoopTypeOK' /\ SinceInv(p)' /\ \A q \in Pipelines \ {p} : Same(q)
         /\ LateInv(p) /\ (ctrl[p] = "simple" => ~freed) => LateInv(p)'
<1> USE DEF LoopInv
<1>1. /\ pc[p] = "ctrl" /\ Looping(p)
      /\ since' = since /\ late' = late /\ ctrl' = ctrl /\ flush' = flush /\ stop' = stop
  BY DEF Control, ctrlVars, Looping
<1>2. flush[p] # 0 /\ n[p] % flush[p] = 0 /\ since[p] = 0 /\ ctrl[p] # "nil"
  BY <1>1 DEF SinceInv
<1>3. PICK r \in CtrlResult(p) :
        /\ rc' = [rc EXCEPT ![p] = r]
        /\ \/ r = 0 /\ NextIteration(p)
           \/ r > 0 /\ pc' = [pc EXCEPT ![p] = "stopped"] /\ UNCHANGED n
           \/ r < 0 /\ pc' = [pc EXCEPT ![p] = "failed"] /\ UNCHANGED n
  BY DEF Control
<1>4. r \in {-1, 0, 1}
  BY DEF CtrlResult, LoopTypeOK
<1>5. (n[p] + 1) % Pow2[W] \in UINT32
  <2>1. n[p] \in Nat /\ n[p] + 1 \in Nat
    BY DEF LoopTypeOK, UINT32
  <2>2. QED
    BY <2>1, WordSize, DivMod DEF UINT32
<1>6. CASE r = 0 /\ NextIteration(p)
  <2>1. LoopTypeOK'
    BY <1>3, <1>4, <1>5, <1>6 DEF Control, NextIteration, LoopTypeOK, ctrlVars
  <2>2. SinceInv(p)'
    BY <1>1, <1>2, <1>6, AfterFlush
  <2>3. ASSUME LateInv(p), ctrl[p] = "simple" => ~freed PROVE LateInv(p)'
    <3>1. ctrl[p] = "simple" => stop = 0
      BY <1>6, <2>3 DEF CtrlResult
    <3>2. pc'[p] = "run"
      BY <1>6 DEF NextIteration, LoopTypeOK
    <3>3. QED
      BY <1>1, <1>2, <2>3, <3>1, <3>2 DEF LateInv
  <2>4. QED
    BY <1>6, <2>1, <2>2, <2>3 DEF Control, NextIteration, LoopTypeOK, Same
<1>7. ASSUME NEW x \in {"stopped", "failed"}, pc' = [pc EXCEPT ![p] = x], UNCHANGED n
      PROVE  /\ LoopTypeOK' /\ SinceInv(p)' /\ \A q \in Pipelines \ {p} : Same(q)
             /\ LateInv(p) => LateInv(p)'
  <2>1. LoopTypeOK'
    BY <1>3, <1>4, <1>7 DEF Control, LoopTypeOK, ctrlVars
  <2>2. pc'[p] = x
    BY <1>7 DEF LoopTypeOK
  <2>3. SinceInv(p)'
    BY <1>1, <1>2, <2>2 DEF SinceInv, Looping
  <2>4. LateInv(p) => LateInv(p)'
    BY <1>1, <1>2, <2>2 DEF LateInv
  <2>5. QED
    BY <1>7, <2>1, <2>3, <2>4 DEF Control, LoopTypeOK, Same
<1>8. QED
  BY <1>3, <1>4, <1>6, <1>7

-----------------------------------------------------------------------------
(* Theorems. *)

(* Every step keeps the invariant of the loop. *)
LEMMA LoopStepInv ==
  ASSUME LoopInv, [Next]_vars
  PROVE  LoopInv'
<1>1. ASSUME NEW p \in Pipelines, LoopTypeOK', SinceInv(p)',
             \A q \in Pipelines \ {p} : Same(q)
      PROVE  LoopInv'
  BY <1>1, SameKeeps DEF LoopInv
<1>2. ASSUME NEW p \in Pipelines, LoopStep(p) PROVE LoopInv'
  BY <1>1, <1>2, RunPipelineInv, ContinueInv, FlushInv, ControlInv DEF LoopStep
<1>3. ASSUME NEW p \in Pipelines, NEW f \in Flushes, NEW c \in Ctrls, RunLoop(p, f, c)
      PROVE  LoopInv'
  BY <1>1, <1>3, RunLoopInv
<1>4. CASE Stop \/ Drop \/ Finalize \/ UNCHANGED vars
  <2>1. LoopTypeOK'
    BY <1>4 DEF Stop, Drop, Finalize, vars, loopVars, ctrlVars, LoopInv, LoopTypeOK
  <2>2. \A q \in Pipelines : Same(q)
    BY <1>4 DEF Stop, Drop, Finalize, vars, loopVars, ctrlVars, Same
  <2>3. QED
    BY <2>1, <2>2, SameKeeps DEF LoopInv
<1>5. QED
  BY <1>2, <1>3, <1>4 DEF Next

(* The invariant of run_pipeline_loop holds for any pipelines, any width of *)
(* the counter, and whatever the owner does with the controller.            *)
THEOREM LoopInvariant == Spec => []LoopInv
BY LoopInitInv, LoopStepInv, PTL DEF Spec

(* RunLoop returns, for any width of the counter and any flush it accepts,  *)
(* with every packet flushed: run_pipeline_loop never leaves between        *)
(* rte_pipeline_run and rte_pipeline_flush.                                 *)
THEOREM LoopReturnsFlushed == Spec => []ReturnsFlushed
<1>1. LoopInv => ReturnsFlushed
  BY DEF LoopInv, ReturnsFlushed, SinceInv, Looping
<1>2. QED
  BY <1>1, LoopInvariant, PTL

(* The masks of run_pipeline_loop flush every flush iterations, exactly,    *)
(* whatever the width, and across the wrap of the counter.                  *)
THEOREM LoopFlushesEvery == Spec => FlushEvery
<1>1. ASSUME LoopInv, NEW p \in Pipelines, Flush(p)
      PROVE  since[p] = flush[p] \/ (n[p] = 0 /\ since[p] = 1)
  <2>1. pc[p] = "test" /\ Looping(p) /\ flush[p] # 0 /\ ~SkipFlush(p)
    BY <1>1 DEF Flush, Looping, SkipFlush
  <2>2. n[p] % flush[p] = 0
    BY <1>1, <2>1, SinceBound
  <2>3. QED
    BY <1>1, <2>1, <2>2 DEF LoopInv, SinceInv
<1>2. LoopInv /\ [Next]_vars =>
        [\A p \in Pipelines : Flush(p) => since[p] = flush[p] \/ (n[p] = 0 /\ since[p] = 1)]_vars
  BY <1>1
<1>3. QED
  BY <1>2, LoopInvariant, PTL DEF Spec, FlushEvery

(* If the owner keeps the controller until the loops have returned, no loop *)
(* reads the byte after the finalizer has freed it.                         *)
LEMMA OwnerStepInv ==
  ASSUME KeepAlive, LoopInv, OwnerInv, [Next]_vars
  PROVE  OwnerInv'
<1> USE DEF OwnerInv
<1>1. ASSUME NEW p \in Pipelines, LoopStep(p) PROVE OwnerInv'
  <2>1. Looping(p) /\ pc'[p] # "idle" /\ ctrl' = ctrl /\ held' = held /\ freed' = freed
        /\ \A q \in Pipelines \ {p} : pc'[q] = pc[q]
    BY <1>1 DEF LoopStep, RunPipeline, Continue, Flush, Control, NextIteration, ctrlVars,
       Looping, LoopInv, LoopTypeOK
  <2>2. QED
    BY <2>1 DEF Looping
<1>2. ASSUME NEW p \in Pipelines, NEW f \in Flushes, NEW c \in Ctrls, RunLoop(p, f, c)
      PROVE  OwnerInv'
  BY <1>2 DEF RunLoop, ctrlVars
<1>3. CASE Stop \/ Drop \/ Finalize \/ UNCHANGED vars
  BY <1>3 DEF Stop, Drop, Finalize, vars, loopVars, ctrlVars, Looping
<1>4. QED
  BY <1>1, <1>2, <1>3 DEF Next

(* Every step keeps the bound on the iterations after Stop, if the byte is *)
(* not freed.                                                              *)
LEMMA LateStepInv ==
  ASSUME LoopInv, OwnerInv, \A p \in Pipelines : LateInv(p), [Next]_vars
  PROVE  \A p \in Pipelines : LateInv(p)'
<1>1. ASSUME NEW p \in Pipelines, LateInv(p)', \A q \in Pipelines \ {p} : Same(q), stop' = stop
      PROVE  \A q \in Pipelines : LateInv(q)'
  BY <1>1, SameKeeps
<1>2. ASSUME NEW p \in Pipelines, LoopStep(p) PROVE \A q \in Pipelines : LateInv(q)'
  <2>1. stop' = stop
    BY <1>2 DEF LoopStep, RunPipeline, Continue, Flush, Control, ctrlVars
  <2>2. Control(p) => (ctrl[p] = "simple" => ~freed)
    BY DEF Control, OwnerInv, Looping
  <2>3. QED
    BY <1>1, <1>2, <2>1, <2>2, RunPipelineInv, ContinueInv, FlushInv, ControlInv DEF LoopStep
<1>3. ASSUME NEW p \in Pipelines, NEW f \in Flushes, NEW c \in Ctrls, RunLoop(p, f, c)
      PROVE  \A q \in Pipelines : LateInv(q)'
  BY <1>1, <1>3, RunLoopInv DEF RunLoop, ctrlVars
<1>4. CASE Stop \/ Drop \/ Finalize \/ UNCHANGED vars
  <2>1. (\A q \in Pipelines : Same(q)) /\ (stop' = 0 => stop = 0)
    BY <1>4 DEF Stop, Drop, Finalize, vars, loopVars, ctrlVars, Same
  <2>2. QED
    BY <2>1, SameKeeps
<1>5. QED
  BY <1>2, <1>3, <1>4 DEF Next

(* After Stop every pipeline that watches the controller runs at most flush *)
(* more times, provided that the owner keeps the controller.                *)
THEOREM LoopStopsWithinFlush ==
  ASSUME KeepAlive
  PROVE  Spec => []StopsWithinFlush
<1> DEFINE Inv == LoopInv /\ OwnerInv /\ \A p \in Pipelines : LateInv(p)
<1>1. Init => Inv
  BY LoopInitInv
<1>2. Inv /\ [Next]_vars => Inv'
  BY LoopStepInv, OwnerStepInv, LateStepInv
<1>3. Inv => StopsWithinFlush
  BY DEF LateInv, StopsWithinFlush
<1>4. QED
  BY <1>1, <1>2, <1>3, PTL DEF Spec
=============================================================================
