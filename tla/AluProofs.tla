----------------------------- MODULE AluProofs -----------------------------
(***************************************************************************)
(* What MCAlu states of the computing instructions, for every pair of      *)
(* operands and for bytes of two to eight bits; the program's words, of    *)
(* four bytes of eight bits, are the largest.                              *)
(*                                                                         *)
(* The invariant is only that the operands are words (AluInv).  The work   *)
(* is in the arithmetic it rests on: a quotient and a remainder are        *)
(* determined by x = d * q + r (DivIs), a product of two words is known    *)
(* modulo a word from the products of words they are congruent to          *)
(* (ProductMod), and a word is determined by its bits (WordIsBits), which  *)
(* every shift, mask and byte permutation places (BitShr, BitShl, BitNot,  *)
(* FromBitsIs, FromBytesBits).  What is proved for every number of bits    *)
(* (Pow2, FromBits, SameBits) is proved from the least one that fails it.  *)
(***************************************************************************)
EXTENDS MCAlu, TLAPS, FiniteSetTheorems, WellFoundedInduction

-----------------------------------------------------------------------------
(* Induction. *)

LEMMA LeastNat ==
  ASSUME NEW T \in SUBSET Nat, T # {}
  PROVE  \E n \in T : \A k \in T : n <= k
<1> DEFINE Less == {p \in Nat \X Nat : p[1] < p[2]}
<1>1. IsWellFoundedOn(Less, Nat)
  BY NatLessThanWellFounded DEF OpToRel
<1>2. \A k, n \in Nat : k < n => <<k, n>> \in Less
  OBVIOUS
<1> HIDE DEF Less
<1>3. PICK n \in T : \A k \in T : ~ (<<k, n>> \in Less)
  BY <1>1, WFMin
<1>4. \A k \in T : ~ (k < n)
  BY <1>2, <1>3
<1> QED BY <1>4

\* A set of numbers that has 0 and with each number the next has them all.
LEMMA Induction ==
  ASSUME NEW S \in SUBSET Nat, 0 \in S, \A n \in S : n + 1 \in S
  PROVE  S = Nat
<1> SUFFICES ASSUME NEW m \in Nat, m \notin S PROVE FALSE
  OBVIOUS
<1>1. PICK n \in Nat \ S : \A k \in Nat \ S : n <= k
  BY LeastNat
<1>2. n # 0 /\ n - 1 \in Nat
  BY <1>1
<1>3. n - 1 \in S
  BY <1>1, <1>2
<1>4. (n - 1) + 1 \in S
  BY <1>3
<1> QED BY <1>1, <1>2, <1>4

-----------------------------------------------------------------------------
(* Division by a positive number, rounded down. *)

LEMMA DivMod ==
    ASSUME NEW x \in Int, NEW d \in Nat, d > 0
    PROVE  x = d * (x \div d) + (x % d) /\ x \div d \in Int /\ x % d \in 0 .. d - 1
<1>1. x = d * (x \div d) + (x % d)
  OBVIOUS
<1>2. x % d \in 0 .. d - 1
  OBVIOUS
<1>3. x \div d \in Int
  OBVIOUS
<1> QED BY <1>1, <1>2, <1>3

\* Two multiples of d that differ by less than d are the same.
LEMMA SameMultiple ==
    ASSUME NEW d \in Nat, NEW p \in Int, NEW q \in Int, d * p < d * q + d, d * q < d * p + d
    PROVE  p = q
<1>1. CASE p >= q + 1
  <2>1. d * p >= d * (q + 1)
    BY <1>1
  <2> QED BY <2>1
<1>2. CASE q >= p + 1
  <2>1. d * q >= d * (p + 1)
    BY <1>2
  <2> QED BY <2>1
<1> QED BY <1>1, <1>2

LEMMA DivIs ==
    ASSUME NEW x \in Int, NEW d \in Nat, d > 0, NEW q \in Int, NEW r \in 0 .. d - 1, x = d * q + r
    PROVE  x \div d = q /\ x % d = r
<1> DEFINE p == x \div d
           s == x % d
<1>1. x = d * p + s /\ p \in Int /\ s \in 0 .. d - 1
  BY DivMod
<1> HIDE DEF p, s
<1> DEFINE dp == d * p
           dq == d * q
<1>2. dp \in Int /\ dq \in Int /\ x = dp + s /\ x = dq + r
  BY <1>1
<1> HIDE DEF dp, dq
<1>3. dp < dq + d /\ dq < dp + d
  BY <1>1, <1>2
<1>4. p = q
  BY <1>1, <1>3, SameMultiple DEF dp, dq
<1>5. s = r
  BY <1>1, <1>2, <1>4 DEF dp, dq
<1> QED BY <1>4, <1>5 DEF p, s

\* A quotient has the sign of the dividend and is no larger than it.
LEMMA DivNat ==
    ASSUME NEW x \in Nat, NEW d \in Nat, d > 0
    PROVE  x \div d \in Nat /\ d * (x \div d) <= x
<1> DEFINE q == x \div d
<1>1. x = d * q + (x % d) /\ q \in Int /\ x % d \in 0 .. d - 1
  BY DivMod
<1> HIDE DEF q
<1>2. d * q \in Int /\ d * q > -d /\ d * q <= x
  BY <1>1
<1>3. CASE q <= -1
  <2>1. d * q <= d * (-1)
    BY <1>1, <1>3
  <2> QED BY <1>2, <2>1
<1> QED BY <1>1, <1>2, <1>3 DEF q

\* A low digit below p and a high one below q make a number below p * q.
LEMMA TwoDigits ==
    ASSUME NEW p \in Nat, NEW q \in Nat, p > 0, q > 0, NEW r \in 0 .. p - 1, NEW s \in 0 .. q - 1
    PROVE  p * s + r \in 0 .. p * q - 1 /\ p * q \in Nat /\ p * q > 0
<1>1. p * s <= p * (q - 1) /\ p * s \in Nat
  OBVIOUS
<1>2. p * (q - 1) = p * q - p /\ p * q \in Nat
  OBVIOUS
<1> QED BY <1>1, <1>2

\* Dividing by p * q is dividing by p and then by q.
LEMMA DivTwice ==
    ASSUME NEW x \in Int, NEW p \in Nat, NEW q \in Nat, p > 0, q > 0
    PROVE  /\ x \div (p * q) = (x \div p) \div q
           /\ (x % (p * q)) \div p = (x \div p) % q
           /\ (x % (p * q)) % p = x % p
           /\ p * q \in Nat /\ p * q > 0
<1> DEFINE u == x \div p
           r == x % p
           v == u \div q
           s == u % q
<1>1. x = p * u + r /\ u \in Int /\ r \in 0 .. p - 1
  BY DivMod
<1>2. u = q * v + s /\ v \in Int /\ s \in 0 .. q - 1
  <2> HIDE DEF u
  <2> QED BY <1>1, DivMod
<1> HIDE DEF u, r, v, s
<1>3. p * s + r \in 0 .. p * q - 1 /\ p * q \in Nat /\ p * q > 0
  BY <1>1, <1>2, TwoDigits
<1>4. x = (p * q) * v + (p * s + r)
  BY <1>1, <1>2
<1>5. x \div (p * q) = v /\ x % (p * q) = p * s + r
  <2> DEFINE d == p * q
             e == p * s + r
  <2>1. d \in Nat /\ d > 0 /\ e \in 0 .. d - 1 /\ x = d * v + e
    BY <1>3, <1>4
  <2> HIDE DEF d, e
  <2>2. x \div d = v /\ x % d = e
    BY <1>2, <2>1, DivIs
  <2> QED BY <2>2 DEF d, e
<1>6. (p * s + r) \div p = s /\ (p * s + r) % p = r
  <2> DEFINE e == p * s + r
  <2>1. e \in Int
    BY <1>1, <1>2
  <2>2. e \div p = s /\ e % p = r
    BY <1>1, <1>2, <2>1, DivIs
  <2> QED BY <2>2
<1> QED BY <1>3, <1>5, <1>6 DEF u, r, v, s

-----------------------------------------------------------------------------
(* Powers of two. *)

Powers(g, n) == g = [k \in 0 .. n |-> IF k = 0 THEN 1 ELSE 2 * g[k - 1]]

LEMMA PowersAt ==
    ASSUME NEW n \in Nat, NEW g, Powers(g, n)
    PROVE  g[0] = 1 /\ \A k \in 0 .. n - 1 : g[k + 1] = 2 * g[k]
<1>1. \A k \in 0 .. n : g[k] = IF k = 0 THEN 1 ELSE 2 * g[k - 1]
  BY DEF Powers
<1>2. ASSUME NEW k \in 0 .. n - 1 PROVE g[k + 1] = 2 * g[k]
  <2>1. k + 1 \in 0 .. n /\ k + 1 # 0 /\ (k + 1) - 1 = k
    OBVIOUS
  <2> QED BY <1>1, <2>1
<1> QED BY <1>1, <1>2

LEMMA PowersExist == \A n \in Nat : \E g : Powers(g, n)
<1> DEFINE S == {n \in Nat : \E g : Powers(g, n)}
<1>1. 0 \in S
  <2>1. Powers([k \in 0 .. 0 |-> 1], 0)
    BY DEF Powers
  <2> QED BY <2>1
<1>2. ASSUME NEW n \in S PROVE n + 1 \in S
  <2>1. PICK g : Powers(g, n)
    BY <1>2
  <2> DEFINE h == [k \in 0 .. n + 1 |-> IF k = n + 1 THEN 2 * g[n] ELSE g[k]]
  <2>2. n \in Nat /\ \A k \in 0 .. n : h[k] = g[k]
    BY <1>2
  <2>3. h = [k \in 0 .. n + 1 |-> h[k]] /\ h[n + 1] = 2 * g[n]
    BY <2>2
  <2>4. \A k \in 0 .. n : g[k] = IF k = 0 THEN 1 ELSE 2 * g[k - 1]
    BY <2>1 DEF Powers
  <2> HIDE DEF h
  <2>5. ASSUME NEW k \in 0 .. n + 1 PROVE h[k] = IF k = 0 THEN 1 ELSE 2 * h[k - 1]
    <3>1. CASE k = n + 1
      <4>1. k # 0 /\ k - 1 = n /\ n \in 0 .. n
        BY <2>2, <3>1
      <4> QED BY <2>2, <2>3, <3>1, <4>1
    <3>2. CASE k \in 0 .. n
      <4>1. h[k] = g[k] /\ (k # 0 => h[k - 1] = g[k - 1])
        BY <2>2, <3>2
      <4> QED BY <2>4, <3>2, <4>1
    <3> QED BY <2>2, <3>1, <3>2
  <2>6. Powers(h, n + 1)
    BY <2>3, <2>5 DEF Powers
  <2> QED BY <2>2, <2>6
<1> HIDE DEF S
<1>3. S = Nat
  BY <1>1, <1>2, Induction DEF S
<1> QED BY <1>3 DEF S

\* All the tables of powers agree where they overlap.
LEMMA PowersAgree ==
    \A k \in Nat : \A m, n \in Nat : \A g, h :
        k <= m /\ k <= n /\ Powers(g, m) /\ Powers(h, n) => g[k] = h[k]
<1> DEFINE S == {k \in Nat : \A m, n \in Nat : \A g, h :
                   k <= m /\ k <= n /\ Powers(g, m) /\ Powers(h, n) => g[k] = h[k]}
<1>1. 0 \in S
  BY PowersAt
<1>2. ASSUME NEW k \in S PROVE k + 1 \in S
  <2> SUFFICES ASSUME NEW m \in Nat, NEW n \in Nat, NEW g, NEW h, k + 1 <= m, k + 1 <= n,
                      Powers(g, m), Powers(h, n)
               PROVE  g[k + 1] = h[k + 1]
    BY <1>2
  <2>1. k \in Nat /\ g[k] = h[k]
    BY <1>2
  <2>2. k \in 0 .. m - 1 /\ k \in 0 .. n - 1
    BY <2>1
  <2> QED BY <2>1, <2>2, PowersAt
<1> HIDE DEF S
<1>3. S = Nat
  BY <1>1, <1>2, Induction DEF S
<1> QED BY <1>3 DEF S

LEMMA Pow2Step == Pow2[0] = 1 /\ \A n \in Nat : Pow2[n + 1] = 2 * Pow2[n]
<1> DEFINE P(n) == CHOOSE g : Powers(g, n)
           f == [n \in Nat |-> P(n)[n]]
<1>1. \A n \in Nat : Powers(P(n), n)
  BY PowersExist
<1>2. \A n \in Nat : f[n] = P(n)[n]
  OBVIOUS
<1>3. f = [n \in Nat |-> f[n]]
  OBVIOUS
<1> HIDE DEF P, f
<1>4. f[0] = 1
  BY <1>1, <1>2, PowersAt
<1>5. ASSUME NEW n \in Nat PROVE f[n + 1] = 2 * f[n]
  <2>1. Powers(P(n + 1), n + 1) /\ Powers(P(n), n) /\ n \in 0 .. (n + 1) - 1 /\ n + 1 \in Nat
    BY <1>1
  <2>2. P(n + 1)[n + 1] = 2 * P(n + 1)[n]
    BY <2>1, PowersAt
  <2>3. P(n + 1)[n] = P(n)[n]
    <3> DEFINE g == P(n + 1)
               h == P(n)
               m == n + 1
    <3>1. m \in Nat /\ n <= m /\ Powers(g, m) /\ Powers(h, n)
      BY <2>1
    <3> HIDE DEF g, h, m
    <3>2. g[n] = h[n]
      BY <3>1, PowersAgree
    <3> QED BY <3>2 DEF g, h, m
  <2> QED BY <1>2, <2>1, <2>2, <2>3
<1>6. \A n \in Nat : f[n] = IF n = 0 THEN 1 ELSE 2 * f[n - 1]
  <2> SUFFICES ASSUME NEW n \in Nat PROVE f[n] = IF n = 0 THEN 1 ELSE 2 * f[n - 1]
    OBVIOUS
  <2>1. CASE n = 0
    BY <1>4, <2>1
  <2>2. CASE n # 0
    <3>1. n - 1 \in Nat /\ (n - 1) + 1 = n
      BY <2>2
    <3>2. f[(n - 1) + 1] = 2 * f[n - 1]
      BY <1>5, <3>1
    <3> QED BY <2>2, <3>1, <3>2
  <2> QED BY <2>1, <2>2
<1>7. f = [n \in Nat |-> IF n = 0 THEN 1 ELSE 2 * f[n - 1]]
  BY <1>3, <1>6
<1>8. Pow2 = [n \in Nat |-> IF n = 0 THEN 1 ELSE 2 * Pow2[n - 1]]
  BY <1>7 DEF Pow2
<1>9. \A n \in Nat : Pow2[n] = IF n = 0 THEN 1 ELSE 2 * Pow2[n - 1]
  BY <1>8
<1>10. ASSUME NEW n \in Nat PROVE Pow2[n + 1] = 2 * Pow2[n]
  <2>1. n + 1 \in Nat /\ n + 1 # 0 /\ (n + 1) - 1 = n
    OBVIOUS
  <2> QED BY <1>9, <2>1
<1> QED BY <1>9, <1>10

LEMMA Pow2Nat == \A n \in Nat : Pow2[n] \in Nat /\ Pow2[n] > 0
<1> DEFINE S == {n \in Nat : Pow2[n] \in Nat /\ Pow2[n] > 0}
<1>1. 0 \in S
  BY Pow2Step
<1>2. ASSUME NEW n \in S PROVE n + 1 \in S
  BY <1>2, Pow2Step
<1> HIDE DEF S
<1>3. S = Nat
  BY <1>1, <1>2, Induction DEF S
<1> QED BY <1>3 DEF S

LEMMA Pow2Add == \A m, n \in Nat : Pow2[m + n] = Pow2[m] * Pow2[n]
<1> SUFFICES ASSUME NEW m \in Nat PROVE \A n \in Nat : Pow2[m + n] = Pow2[m] * Pow2[n]
  OBVIOUS
<1> DEFINE S == {n \in Nat : Pow2[m + n] = Pow2[m] * Pow2[n]}
<1>1. 0 \in S
  <2>1. m + 0 = m /\ Pow2[m] \in Nat
    BY Pow2Nat
  <2> QED BY <2>1, Pow2Step
<1>2. ASSUME NEW n \in S PROVE n + 1 \in S
  <2>1. n \in Nat /\ Pow2[m + n] = Pow2[m] * Pow2[n] /\ m + (n + 1) = (m + n) + 1 /\ m + n \in Nat
    BY <1>2
  <2>2. Pow2[(m + n) + 1] = 2 * Pow2[m + n] /\ Pow2[n + 1] = 2 * Pow2[n]
    BY <2>1, Pow2Step
  <2>3. Pow2[m] \in Nat /\ Pow2[n] \in Nat
    BY <2>1, Pow2Nat
  <2>4. 2 * (Pow2[m] * Pow2[n]) = Pow2[m] * (2 * Pow2[n])
    BY <2>3
  <2> QED BY <2>1, <2>2, <2>4
<1> HIDE DEF S
<1>3. S = Nat
  BY <1>1, <1>2, Induction DEF S
<1> QED BY <1>3 DEF S

\* The powers below 2^n divide it, with an even quotient.
LEMMA Pow2Below ==
    ASSUME NEW n \in Nat, NEW k \in 0 .. n - 1
    PROVE  Pow2[n] = Pow2[k] * (2 * Pow2[n - k - 1]) /\ Pow2[k] < Pow2[n]
<1> DEFINE j == n - k - 1
<1>1. j \in Nat /\ k \in Nat /\ k + (j + 1) = n /\ j + 1 \in Nat
  OBVIOUS
<1> HIDE DEF j
<1>2. Pow2[n] = Pow2[k] * Pow2[j + 1] /\ Pow2[j + 1] = 2 * Pow2[j]
  BY <1>1, Pow2Add, Pow2Step
<1>3. Pow2[k] \in Nat /\ Pow2[k] > 0 /\ Pow2[j] \in Nat /\ Pow2[j] > 0
  BY <1>1, Pow2Nat
<1>4. Pow2[k] * (2 * Pow2[j]) >= Pow2[k] * 2
  BY <1>3
<1> QED BY <1>2, <1>3, <1>4 DEF j

-----------------------------------------------------------------------------
(* The sizes of bytes, halfwords and words. *)

LEMMA Sizes ==
    \E k \in 2 .. 8 : /\ XLEN = 4 * k /\ BYTE = Pow2[k] /\ HalfMod = Pow2[2 * k]
                      /\ HalfMod * BYTE = Pow2[3 * k] /\ WordMod = Pow2[4 * k]
<1>1. PICK k \in 2 .. 8 : Pow2[k] = BYTE
  BY BitsAssumption
<1>2. /\ k \in Nat /\ 2 * k \in Nat /\ 3 * k \in Nat /\ 4 * k \in Nat
      /\ k + k = 2 * k /\ 2 * k + k = 3 * k /\ 2 * k + 2 * k = 4 * k
  OBVIOUS
<1>3. HalfMod = Pow2[2 * k]
  BY <1>1, <1>2, Pow2Add DEF HalfMod
<1>4. HalfMod * BYTE = Pow2[3 * k] /\ WordMod = Pow2[4 * k]
  BY <1>1, <1>2, <1>3, Pow2Add DEF WordMod
<1>5. 4 * k \in 1 .. 32
  OBVIOUS
<1>6. ASSUME NEW n \in 1 .. 32, Pow2[n] = WordMod PROVE n = 4 * k
  <2>1. n < 4 * k => Pow2[n] < Pow2[4 * k]
    BY <1>2, Pow2Below
  <2>2. 4 * k < n => Pow2[4 * k] < Pow2[n]
    BY <1>2, Pow2Below
  <2>3. Pow2[4 * k] \in Nat
    BY <1>2, Pow2Nat
  <2> QED BY <1>4, <1>6, <2>1, <2>2, <2>3
<1>7. XLEN = 4 * k
  BY <1>4, <1>5, <1>6 DEF XLEN
<1> QED BY <1>1, <1>3, <1>4, <1>7

LEMMA WordBits == XLEN \in Nat /\ XLEN >= 8 /\ WordMod = Pow2[XLEN] /\ WordMod \in Nat /\ WordMod > 0
<1>1. PICK k \in 2 .. 8 : XLEN = 4 * k /\ WordMod = Pow2[4 * k]
  BY Sizes
<1>2. 4 * k \in Nat /\ 4 * k >= 8
  OBVIOUS
<1> QED BY <1>1, <1>2, Pow2Nat

-----------------------------------------------------------------------------
(* Signed words. *)

\* The operands of every instruction are words.
AluInv == a \in Word /\ b \in Word

LEMMA HalfWord ==
    /\ WordMod = 2 * (WordMod \div 2) /\ WordMod \div 2 \in Nat /\ WordMod \div 2 > 0
    /\ MinInt = -(WordMod \div 2) /\ WordMod \div 2 = Pow2[XLEN - 1]
<1> DEFINE h == Pow2[XLEN - 1]
<1>1. XLEN - 1 \in Nat /\ (XLEN - 1) + 1 = XLEN
  BY WordBits
<1>2. WordMod = 2 * h /\ h \in Nat /\ h > 0
  BY <1>1, WordBits, Pow2Step, Pow2Nat
<1> HIDE DEF h
<1>3. WordMod \div 2 = h
  BY <1>2
<1> QED BY <1>2, <1>3 DEF MinInt, h

LEMMA WrapIs ==
    ASSUME NEW x \in Int
    PROVE  /\ Wrap(x) \in Word
           /\ \E k \in Int : x = WordMod * k + Wrap(x)
  BY WordBits, DivMod DEF Wrap, Word

LEMMA WrapSame ==
    ASSUME NEW x \in Word, NEW y \in Int, NEW k \in Int, y = WordMod * k + x
    PROVE  Wrap(y) = x
<1>1. x \in 0 .. WordMod - 1
  BY DEF Word
<1> QED BY <1>1, WordBits, DivIs DEF Wrap

LEMMA SignedIs ==
    ASSUME NEW x \in Word
    PROVE  /\ Signed(x) \in MinInt .. -MinInt - 1
           /\ \E k \in {0, -1} : Signed(x) = WordMod * k + x
  BY HalfWord DEF Signed, Word

LEMMA SignedWrap ==
    ASSUME NEW x \in MinInt .. -MinInt - 1
    PROVE  Wrap(x) \in Word /\ Signed(Wrap(x)) = x /\ FromI32(x) = Wrap(x)
<1> DEFINE h == WordMod \div 2
<1>1. x \in Int /\ -h <= x /\ x < h /\ WordMod = 2 * h /\ h \in Nat /\ h > 0
  BY HalfWord
<1> HIDE DEF h
<1>2. CASE x >= 0
  <2>1. x \in Word /\ x = WordMod * 0 + x
    BY <1>1, <1>2 DEF Word
  <2>2. Wrap(x) = x
    BY <1>1, <2>1, WrapSame
  <2> QED BY <1>1, <1>2, <2>1, <2>2, HalfWord DEF Signed, FromI32, h
<1>3. CASE x < 0
  <2>1. x + WordMod \in Word /\ x = WordMod * (-1) + (x + WordMod)
    BY <1>1, <1>3 DEF Word
  <2>2. Wrap(x) = x + WordMod
    <3> DEFINE y == x + WordMod
    <3>1. y \in Word /\ x = WordMod * (-1) + y
      BY <2>1
    <3> HIDE DEF y
    <3>2. Wrap(x) = y
      BY <1>1, <3>1, WrapSame
    <3> QED BY <3>2 DEF y
  <2> QED BY <1>1, <1>3, <2>1, <2>2, HalfWord DEF Signed, FromI32, h
<1> QED BY <1>1, <1>2, <1>3

\* Products agree modulo the size of a word if their factors do.
LEMMA ProductMod ==
    ASSUME NEW w \in Int, NEW x \in Int, NEW y \in Int, NEW i \in Int, NEW j \in Int
    PROVE  (w * i + x) * (w * j + y) = w * (x * j + y * i + w * (i * j)) + x * y
<1> DEFINE u == w * i
           v == w * j
<1>1. u \in Int /\ v \in Int
  OBVIOUS
<1>2. (u + x) * (v + y) = u * v + u * y + x * v + x * y
  <2> HIDE DEF u, v
  <2> QED BY <1>1
<1>3. u * v = w * (w * (i * j)) /\ u * y = w * (y * i) /\ x * v = w * (x * j)
  OBVIOUS
<1>4. \A p, q, r \in Int : w * p + w * q + w * r = w * (r + q + p)
  OBVIOUS
<1>5. w * (i * j) \in Int /\ y * i \in Int /\ x * j \in Int /\ x * y \in Int
  OBVIOUS
<1>6. w * (w * (i * j)) + w * (y * i) + w * (x * j) = w * (x * j + y * i + w * (i * j))
  BY <1>4, <1>5
<1> QED BY <1>2, <1>3, <1>5, <1>6

-----------------------------------------------------------------------------
(* Multiplication. *)

LEMMA DispatchM ==
    ASSUME NEW x, NEW y, NEW op \in OpsM
    PROVE  AluResult(op, x, y) = aluM(op, x, y)
  BY DEF AluResult, OpsM, OpsI, OpsA, OpsZba, OpsZbb, OpsZbs

\* A factor that a signed word holds and one that a word holds, signed or not,
\* have a product whose upper half a signed word holds.
LEMMA UpperHalf ==
    ASSUME NEW h \in Nat, h > 0, NEW x \in -h .. h - 1, NEW y \in -h .. 2 * h - 1
    PROVE  (x * y) \div (2 * h) \in -h .. h - 1
<1>1. x * y \in Int /\ x * y < h * (2 * h) /\ x * y >= -(h * (2 * h))
  <2>1. h * (2 * h) = 2 * (h * h) /\ h * h \in Nat /\ h * h > 0
    OBVIOUS
  <2>2. CASE y >= 0
    <3>1. x * y <= (h - 1) * y /\ x * y >= -(h * y)
      BY <2>2
    <3>2. (h - 1) * y <= h * y /\ h * y <= h * (2 * h - 1) /\ h * (2 * h - 1) = h * (2 * h) - h
      BY <2>2
    <3> QED BY <3>1, <3>2, <2>1
  <2>3. CASE y < 0
    <3> DEFINE z == -y
    <3>1. z \in 1 .. h /\ y = -z
      BY <2>3
    <3> HIDE DEF z
    <3>2. x * y = -(x * z) /\ x * z \in Int
      BY <3>1
    <3>3. x * z <= h * z /\ x * z >= -(h * z) /\ h * z <= h * h
      BY <3>1
    <3> QED BY <2>1, <3>2, <3>3
  <2> QED BY <2>2, <2>3
<1> DEFINE q == (x * y) \div (2 * h)
           p == x * y
           w == 2 * h
<1>2. p = w * q + (p % w) /\ q \in Int /\ p % w \in 0 .. w - 1
  <2>1. p \in Int /\ w \in Nat /\ w > 0
    BY <1>1
  <2> HIDE DEF p, w
  <2>2. p = w * (p \div w) + (p % w) /\ p \div w \in Int /\ p % w \in 0 .. w - 1
    BY <2>1, DivMod
  <2> QED BY <2>2 DEF p, w
<1>3. p < w * h /\ p >= w * (-h) /\ p \in Int
  BY <1>1
<1> HIDE DEF q, p
<1>4. w * q \in Int /\ w * q < w * h /\ w * q > w * (-h) - w
  BY <1>2, <1>3
<1>5. q < h
  <2> SUFFICES ASSUME q >= h PROVE FALSE
    BY <1>2
  <2>1. w * q >= w * h
    BY <1>2
  <2> QED BY <1>4, <2>1
<1>6. q >= -h
  <2> SUFFICES ASSUME q <= -h - 1 PROVE FALSE
    BY <1>2
  <2>1. w * q <= w * (-h - 1) /\ w * (-h - 1) = w * (-h) - w
    BY <1>2
  <2> QED BY <1>4, <2>1
<1> QED BY <1>2, <1>5, <1>6 DEF q

LEMMA HalvesOf ==
    ASSUME NEW x \in Word, NEW y \in Word, NEW s \in Int, NEW t \in Int,
           NEW i \in Int, NEW j \in Int, s = WordMod * i + x, t = WordMod * j + y,
           (s * t) \div WordMod \in MinInt .. -MinInt - 1
    PROVE  Signed(Wrap((s * t) \div WordMod)) * WordMod + Wrap(x * y) = s * t
<1> DEFINE q == (s * t) \div WordMod
           r == (s * t) % WordMod
<1>1. s * t \in Int /\ x \in Int /\ y \in Int /\ x * y \in Int
  BY WordBits DEF Word
<1>2. s * t = WordMod * q + r /\ q \in Int /\ r \in 0 .. WordMod - 1
  <2> DEFINE p == s * t
  <2>1. p \in Int
    BY <1>1
  <2> HIDE DEF p
  <2>2. p = WordMod * (p \div WordMod) + (p % WordMod) /\ p \div WordMod \in Int
        /\ p % WordMod \in 0 .. WordMod - 1
    BY <2>1, WordBits, DivMod
  <2> QED BY <2>2 DEF p
<1>3. Signed(Wrap(q)) = q
  BY SignedWrap
<1> DEFINE k == x * j + y * i + WordMod * (i * j)
<1>4. s * t = WordMod * k + x * y /\ k \in Int
  BY <1>1, WordBits, ProductMod
<1> HIDE DEF q, r, k
<1>5. x * y = WordMod * (q - k) + r /\ q - k \in Int
  <2> DEFINE p == x * y
             st == s * t
             wk == WordMod * k
             wq == WordMod * q
  <2>1. WordMod * (q - k) = wq - wk /\ wk \in Int /\ wq \in Int
    BY <1>2, <1>4, WordBits
  <2>2. p \in Int /\ st = wq + r /\ st = wk + p
    BY <1>1, <1>2, <1>4
  <2> HIDE DEF p, wk, wq, st
  <2>3. p = (wq - wk) + r
    BY <1>2, <2>1, <2>2
  <2> QED BY <1>2, <1>4, <2>1, <2>3 DEF p
<1>6. Wrap(x * y) = r
  <2> DEFINE p == x * y
             e == q - k
  <2>1. p \in Int /\ e \in Int /\ p = WordMod * e + r /\ r \in Word
    BY <1>1, <1>2, <1>5 DEF Word
  <2> HIDE DEF p, e
  <2>2. Wrap(p) = r
    BY <2>1, WrapSame
  <2> QED BY <2>2 DEF p
<1>7. q * WordMod = WordMod * q
  BY <1>2, WordBits
<1> QED BY <1>2, <1>3, <1>6, <1>7 DEF q

LEMMA Halves == AluInv => ProductHalves
<1> SUFFICES ASSUME AluInv PROVE ProductHalves
  OBVIOUS
<1> DEFINE h == WordMod \div 2
<1>1. a \in Word /\ b \in Word /\ a \in Nat /\ b \in 0 .. 2 * h - 1 /\ b \in Nat
  BY HalfWord DEF AluInv, Word
<1>2. WordMod = 2 * h /\ h \in Nat /\ h > 0 /\ MinInt = -h
  BY HalfWord
<1> HIDE DEF h
<1>3. PICK i \in {0, -1} : Signed(a) = WordMod * i + a
  BY <1>1, SignedIs
<1>4. PICK j \in {0, -1} : Signed(b) = WordMod * j + b
  BY <1>1, SignedIs
<1>5. Signed(a) \in -h .. h - 1 /\ Signed(b) \in -h .. h - 1 /\ Signed(b) \in -h .. 2 * h - 1
      /\ b \in -h .. 2 * h - 1
  BY <1>1, <1>2, SignedIs
<1>6. (Signed(a) * Signed(b)) \div WordMod \in MinInt .. -MinInt - 1
  <2> DEFINE s == Signed(a)
             t == Signed(b)
  <2>1. s \in -h .. h - 1 /\ t \in -h .. 2 * h - 1
    BY <1>5
  <2> HIDE DEF s, t
  <2>2. (s * t) \div (2 * h) \in -h .. h - 1
    BY <1>2, <2>1, UpperHalf
  <2>3. -MinInt - 1 = h - 1
    BY <1>2
  <2> QED BY <1>2, <2>2, <2>3 DEF s, t
<1>7. (Signed(a) * b) \div WordMod \in MinInt .. -MinInt - 1
  <2> DEFINE s == Signed(a)
             t == b
  <2>1. s \in -h .. h - 1 /\ t \in -h .. 2 * h - 1
    BY <1>5
  <2> HIDE DEF s, t
  <2>2. (s * t) \div (2 * h) \in -h .. h - 1
    BY <1>2, <2>1, UpperHalf
  <2>3. -MinInt - 1 = h - 1
    BY <1>2
  <2> QED BY <1>2, <2>2, <2>3 DEF s, t
<1>8. /\ Alu("MUL") = Wrap(a * b) /\ Alu("MULH") = Wrap((Signed(a) * Signed(b)) \div WordMod)
      /\ Alu("MULHSU") = Wrap((Signed(a) * b) \div WordMod)
      /\ Alu("MULHU") = (a * b) \div WordMod
  BY DispatchM DEF Alu, OpsM, aluM, mulh, mulhsu
<1>9. Signed(Alu("MULH")) * WordMod + Alu("MUL") = Signed(a) * Signed(b)
  <2> DEFINE s == Signed(a)
             t == Signed(b)
  <2>1. s \in Int /\ t \in Int /\ i \in Int /\ j \in Int /\ s = WordMod * i + a /\ t = WordMod * j + b
        /\ (s * t) \div WordMod \in MinInt .. -MinInt - 1
    BY <1>3, <1>4, <1>5, <1>6
  <2> HIDE DEF s, t
  <2>2. Signed(Wrap((s * t) \div WordMod)) * WordMod + Wrap(a * b) = s * t
    BY <1>1, <2>1, HalvesOf, SMTT(30)
  <2> QED BY <1>8, <2>2 DEF s, t
<1>10. Signed(Alu("MULHSU")) * WordMod + Alu("MUL") = Signed(a) * b
  <2> DEFINE s == Signed(a)
  <2>1. s \in Int /\ b \in Int /\ i \in Int /\ s = WordMod * i + a /\ b = WordMod * 0 + b
        /\ (s * b) \div WordMod \in MinInt .. -MinInt - 1
    BY <1>1, <1>2, <1>3, <1>5, <1>7
  <2> HIDE DEF s
  <2>2. Signed(Wrap((s * b) \div WordMod)) * WordMod + Wrap(a * b) = s * b
    BY <1>1, <2>1, HalvesOf
  <2> QED BY <1>8, <2>2 DEF s
<1>11. Alu("MULHU") * WordMod + Alu("MUL") = a * b
  <2> DEFINE p == a * b
  <2>1. p \in Int
    BY <1>1
  <2>2. p = WordMod * (p \div WordMod) + (p % WordMod) /\ p \div WordMod \in Int
    BY <2>1, WordBits, DivMod
  <2> QED BY <1>8, <2>2, WordBits DEF Wrap
<1> QED BY <1>9, <1>10, <1>11 DEF ProductHalves

-----------------------------------------------------------------------------
(* Division. *)

\* The division that rounds towards zero: the remainder has the dividend's sign.
LEMMA Truncated ==
    ASSUME NEW x \in Int, NEW y \in Int, y # 0
    PROVE  /\ DivTrunc(x, y) \in Int /\ Rem(x, y) \in Int
           /\ DivTrunc(x, y) * y + Rem(x, y) = x
           /\ Abs(Rem(x, y)) < Abs(y)
           /\ Rem(x, y) = 0 \/ (Rem(x, y) < 0) = (x < 0)
           /\ Abs(Rem(x, y)) <= Abs(x)
           /\ Abs(DivTrunc(x, y)) * Abs(y) <= Abs(x)
           /\ DivTrunc(x, y) > 0 => (x < 0) = (y < 0)
<1> DEFINE u == Abs(x)
           v == Abs(y)
           q == u \div v
           r == u % v
<1>1. u \in Nat /\ v \in Nat /\ v > 0 /\ (x = u \/ x = -u) /\ (y = v \/ y = -v)
      /\ (x < 0 => x = -u) /\ (x >= 0 => x = u) /\ (y < 0 => y = -v) /\ (y >= 0 => y = v)
  BY DEF Abs
<1>2. u = v * q + r /\ q \in Int /\ r \in 0 .. v - 1 /\ q \in Nat /\ v * q <= u
  <2> HIDE DEF u, v
  <2> QED BY <1>1, DivMod, DivNat
<1>3. /\ DivTrunc(x, y) = IF (x < 0) = (y < 0) THEN q ELSE -q
      /\ Rem(x, y) = IF x < 0 THEN -r ELSE r
  <2>1. Rem(x, y) = IF x < 0 THEN -(u % v) ELSE x % v
    BY DEF Rem
  <2> HIDE DEF v
  <2>2. x >= 0 => x = u
    BY <1>1
  <2> HIDE DEF u
  <2> QED BY <1>1, <2>1, <2>2 DEF DivTrunc, u, v
<1> HIDE DEF q, r, u, v
<1> DEFINE Q == DivTrunc(x, y)
           R == Rem(x, y)
           vq == v * q
<1>4. vq \in Nat /\ u = vq + r /\ vq <= u
  BY <1>1, <1>2
<1>5. Q * y = IF x < 0 THEN -vq ELSE vq
  <2>1. q * v = vq /\ (-q) * (-v) = vq /\ q * (-v) = -vq /\ (-q) * v = -vq
    BY <1>1, <1>2
  <2>2. CASE x < 0 /\ y < 0
    BY <1>1, <1>3, <2>1, <2>2
  <2>3. CASE x < 0 /\ y >= 0
    BY <1>1, <1>3, <2>1, <2>3
  <2>4. CASE x >= 0 /\ y < 0
    BY <1>1, <1>3, <2>1, <2>4
  <2>5. CASE x >= 0 /\ y >= 0
    BY <1>1, <1>3, <2>1, <2>5
  <2> QED BY <1>1, <2>2, <2>3, <2>4, <2>5
<1> HIDE DEF vq
<1>6. Q \in Int /\ R \in Int /\ Q * y + R = x
  BY <1>1, <1>2, <1>3, <1>4, <1>5
<1>7. Abs(R) = r /\ (R = 0 \/ (R < 0) = (x < 0)) /\ r <= u
  BY <1>1, <1>2, <1>3, <1>4 DEF Abs
<1>8. Abs(Q) = q /\ (Q > 0 => (x < 0) = (y < 0))
  BY <1>2, <1>3 DEF Abs
<1>9. Abs(Q) * v <= u
  BY <1>1, <1>2, <1>4, <1>8 DEF vq
<1>10. Abs(R) < v /\ Abs(R) <= u
  BY <1>1, <1>2, <1>7
<1>11. Abs(R) < Abs(y) /\ Abs(R) <= Abs(x) /\ Abs(Q) * Abs(y) <= Abs(x)
  BY <1>9, <1>10 DEF u, v
<1> QED BY <1>6, <1>7, <1>8, <1>11

\* A quotient of signed words is one, but for the most negative by -1.
LEMMA QuotientFits ==
    ASSUME NEW h \in Nat, h > 0, NEW x \in -h .. h - 1, NEW y \in -h .. h - 1, y # 0,
           ~(x = -h /\ y = -1)
    PROVE  DivTrunc(x, y) \in -h .. h - 1 /\ Rem(x, y) \in -h .. h - 1
<1> DEFINE q == DivTrunc(x, y)
           r == Rem(x, y)
<1>1. /\ q \in Int /\ r \in Int /\ Abs(r) < Abs(y) /\ Abs(q) * Abs(y) <= Abs(x)
      /\ q > 0 => (x < 0) = (y < 0)
  BY Truncated
<1> HIDE DEF q, r
<1>2. Abs(x) \in 0 .. h /\ Abs(y) \in 1 .. h /\ Abs(q) \in Nat
  BY <1>1 DEF Abs
<1>3. r \in -h .. h - 1
  BY <1>1, <1>2 DEF Abs
<1>4. Abs(q) * 1 <= Abs(q) * Abs(y)
  <2> DEFINE u == Abs(q)
             v == Abs(y)
  <2> HIDE DEF u, v
  <2>1. u \in Nat /\ v \in Nat /\ 1 <= v
    BY <1>2 DEF u, v
  <2>2. u * 1 <= u * v
    BY <2>1
  <2> QED BY <2>2 DEF u, v
<1>5. Abs(q) <= Abs(x) /\ Abs(q) <= h
  <2> DEFINE p == Abs(q) * Abs(y)
  <2>1. p \in Int
    BY <1>2
  <2> HIDE DEF p
  <2>2. Abs(q) <= p /\ p <= Abs(x)
    BY <1>1, <1>2, <1>4 DEF p
  <2> QED BY <1>2, <2>1, <2>2
<1>6. CASE q = h
  <2>1. Abs(q) = h /\ Abs(x) = h /\ x = -h /\ y < 0
    BY <1>1, <1>2, <1>5, <1>6 DEF Abs
  <2>2. h * Abs(y) <= h
    BY <1>1, <2>1
  <2>3. Abs(y) = 1
    <3> DEFINE v == Abs(y)
    <3>1. v \in Nat /\ v >= 1 /\ h * v <= h
      BY <1>2, <2>2
    <3> HIDE DEF v
    <3>2. v >= 2 => h * v >= h * 2
      BY <3>1
    <3>3. v = 1
      BY <3>1, <3>2
    <3> QED BY <3>3 DEF v
  <2> QED BY <2>1, <2>3 DEF Abs
<1>7. q # h => q \in -h .. h - 1
  BY <1>1, <1>5 DEF Abs
<1> QED BY <1>3, <1>6, <1>7 DEF q, r

\* Signed quotient and remainder, taken as words, divide the operands' words.
LEMMA DividesWords ==
    ASSUME NEW x \in Word, NEW y \in Word, NEW q \in MinInt .. -MinInt - 1, NEW r \in MinInt .. -MinInt - 1,
           NEW m \in Int, q * Signed(y) + r = WordMod * m + Signed(x)
    PROVE  Wrap(Wrap(q) * y + Wrap(r)) = x
<1> DEFINE W == WordMod
<1>0. W \in Int /\ x \in Int /\ y \in Int /\ q \in Int /\ r \in Int
  BY WordBits, HalfWord DEF Word
<1>1. PICK i \in Int : q = W * i + Wrap(q)
  BY <1>0, WrapIs
<1>2. PICK j \in Int : Signed(y) = W * j + y
  BY SignedIs
<1>3. PICK k \in Int : r = W * k + Wrap(r)
  BY <1>0, WrapIs
<1>4. PICK l \in Int : Signed(x) = W * l + x
  BY SignedIs
<1> DEFINE u == Wrap(q)
           v == Wrap(r)
           n == u * j + y * i + W * (i * j)
<1>5. u \in Int /\ v \in Int
  BY <1>0, WrapIs DEF Word
<1>6. q * Signed(y) = W * n + u * y /\ n \in Int
  <2> HIDE DEF u, W
  <2>1. q = W * i + u /\ Signed(y) = W * j + y
    BY <1>1, <1>2 DEF u
  <2>2. (W * i + u) * (W * j + y) = W * (u * j + y * i + W * (i * j)) + u * y
    BY <1>0, <1>5, ProductMod
  <2>3. n \in Int
    BY <1>0, <1>5
  <2> QED BY <2>1, <2>2, <2>3
<1> HIDE DEF u, v, n, W
<1> DEFINE uy == u * y
           e == m + l - n - k
           Wn == W * n
           Wk == W * k
           Wm == W * m
           Wl == W * l
<1>7. uy \in Int /\ Wn \in Int /\ Wk \in Int /\ Wm \in Int /\ Wl \in Int /\ e \in Int
  BY <1>0, <1>5, <1>6
<1>8. W * e = Wm + Wl - Wn - Wk
  BY <1>0, <1>6
<1>9. (Wn + uy) + (Wk + v) = Wm + (Wl + x)
  BY <1>3, <1>4, <1>6 DEF W, v
<1> HIDE DEF uy, e, Wn, Wk, Wm, Wl
<1>10. uy + v = W * e + x
  BY <1>0, <1>5, <1>7, <1>8, <1>9
<1>11. Wrap(uy + v) = x
  <2> DEFINE z == uy + v
  <2>1. z \in Int /\ z = WordMod * e + x
    BY <1>5, <1>7, <1>10 DEF W
  <2> HIDE DEF z
  <2>2. Wrap(z) = x
    BY <1>7, <2>1, WrapSame
  <2> QED BY <2>2 DEF z
<1> QED BY <1>11 DEF uy, u, v

LEMMA SignedDivision ==
    ASSUME NEW x \in Word, NEW y \in Word
    PROVE  /\ div(x, y) \in Word /\ rem(x, y) \in Word
           /\ Wrap(div(x, y) * y + rem(x, y)) = x
           /\ y = 0 => div(x, y) = WordMod - 1
           /\ y # 0 => /\ Abs(Signed(rem(x, y))) < Abs(Signed(y))
                       /\ Signed(rem(x, y)) = 0 \/ (Signed(rem(x, y)) < 0) = (Signed(x) < 0)
                       /\ \/ Signed(x) = MinInt /\ Signed(y) = -1
                          \/ Signed(div(x, y)) * Signed(y) + Signed(rem(x, y)) = Signed(x)
<1> DEFINE h == WordMod \div 2
           s == Signed(x)
           t == Signed(y)
           I == MinInt .. -MinInt - 1
<1>1. WordMod = 2 * h /\ h \in Nat /\ h > 0 /\ MinInt = -h /\ WordMod \in Int
  BY HalfWord, WordBits
<1>2. s \in I /\ t \in I
  BY SignedIs
<1>3. t = 0 <=> y = 0
  BY HalfWord DEF Signed, Word
<1> HIDE DEF h, s, t
<1>4. I = -h .. h - 1 /\ s \in Int /\ t \in Int
  BY <1>1, <1>2
<1> HIDE DEF I
\* What remains is one quotient q and one remainder r per case.
<1>5. ASSUME NEW q \in I, NEW r \in I, NEW m \in Int, div(x, y) = FromI32(q), rem(x, y) = FromI32(r),
             q * t + r = WordMod * m + s
      PROVE  /\ div(x, y) = Wrap(q) /\ rem(x, y) = Wrap(r) /\ Signed(Wrap(q)) = q /\ Signed(Wrap(r)) = r
             /\ div(x, y) \in Word /\ rem(x, y) \in Word
             /\ Wrap(div(x, y) * y + rem(x, y)) = x
  <2>1. /\ Wrap(q) \in Word /\ Signed(Wrap(q)) = q /\ FromI32(q) = Wrap(q)
        /\ Wrap(r) \in Word /\ Signed(Wrap(r)) = r /\ FromI32(r) = Wrap(r)
    BY SignedWrap DEF I
  <2>2. Wrap(Wrap(q) * y + Wrap(r)) = x
    BY <1>5, DividesWords DEF I, s, t
  <2> QED BY <1>5, <2>1, <2>2
<1>6. CASE y = 0
  <2>1. div(x, y) = FromI32(-1) /\ rem(x, y) = FromI32(s) /\ -1 \in I
    BY <1>1, <1>4, <1>6 DEF div, rem, s
  <2>2. t = 0 /\ (-1) * t + s = WordMod * 0 + s
    BY <1>1, <1>3, <1>4, <1>6
  <2>3. /\ div(x, y) = Wrap(-1) /\ div(x, y) \in Word /\ rem(x, y) \in Word
        /\ Wrap(div(x, y) * y + rem(x, y)) = x
    BY <1>2, <1>5, <2>1, <2>2
  <2>4. Wrap(-1) = WordMod - 1
    <3> DEFINE z == WordMod - 1
    <3>1. z \in Word /\ -1 = WordMod * (-1) + z
      BY <1>1 DEF Word
    <3> HIDE DEF z
    <3>2. Wrap(-1) = z
      BY <3>1, WrapSame
    <3> QED BY <3>2 DEF z
  <2> QED BY <1>6, <2>3, <2>4
<1>7. CASE y # 0 /\ s = MinInt /\ t = -1
  <2>1. div(x, y) = FromI32(MinInt) /\ rem(x, y) = FromI32(0) /\ MinInt \in I /\ 0 \in I
    BY <1>1, <1>4, <1>7 DEF div, rem, s, t
  <2>2. MinInt * t + 0 = WordMod * 1 + s
    BY <1>1, <1>7
  <2>3. /\ div(x, y) \in Word /\ rem(x, y) \in Word /\ rem(x, y) = Wrap(0) /\ Signed(Wrap(0)) = 0
        /\ Wrap(div(x, y) * y + rem(x, y)) = x
    BY <1>5, <2>1, <2>2
  <2> QED BY <1>7, <2>3 DEF Abs, s, t
<1>8. CASE y # 0 /\ ~(s = MinInt /\ t = -1)
  <2> DEFINE q == DivTrunc(s, t)
             r == Rem(s, t)
  <2>1. div(x, y) = FromI32(q) /\ rem(x, y) = FromI32(r)
    BY <1>8 DEF div, rem, s, t
  <2>2. q \in I /\ r \in I
    BY <1>1, <1>2, <1>3, <1>4, <1>8, QuotientFits
  <2>3. q * t + r = s /\ Abs(r) < Abs(t) /\ (r = 0 \/ (r < 0) = (s < 0))
    BY <1>3, <1>4, <1>8, Truncated
  <2> HIDE DEF q, r
  <2>4. q * t + r = WordMod * 0 + s
    BY <1>1, <1>4, <2>3
  <2>5. /\ div(x, y) = Wrap(q) /\ rem(x, y) = Wrap(r) /\ Signed(Wrap(q)) = q /\ Signed(Wrap(r)) = r
        /\ div(x, y) \in Word /\ rem(x, y) \in Word
        /\ Wrap(div(x, y) * y + rem(x, y)) = x
    BY <1>5, <2>1, <2>2, <2>4
  <2> QED BY <1>8, <2>3, <2>5 DEF s, t
<1> QED BY <1>6, <1>7, <1>8

LEMMA Divisions == AluInv => DivisionExact
<1> SUFFICES ASSUME AluInv PROVE DivisionExact
  OBVIOUS
<1>1. a \in Word /\ b \in Word /\ a \in Nat /\ b \in Nat
  BY WordBits DEF AluInv, Word
<1>2. /\ Alu("DIV") = div(a, b) /\ Alu("REM") = rem(a, b)
      /\ Alu("DIVU") = IF b = 0 THEN WordMod - 1 ELSE a \div b
      /\ Alu("REMU") = IF b = 0 THEN a ELSE a % b
  BY DispatchM DEF Alu, OpsM, aluM
<1>3. Wrap(a) = a
  <2>1. a = WordMod * 0 + a
    BY <1>1, WordBits
  <2> QED BY <1>1, <2>1, WrapSame
<1>4. /\ Alu("DIV") \in Word /\ Alu("REM") \in Word
      /\ Wrap(Alu("DIV") * b + Alu("REM")) = a
      /\ b = 0 => Alu("DIV") = WordMod - 1
      /\ b # 0 => /\ Abs(Signed(Alu("REM"))) < Abs(Signed(b))
                  /\ Signed(Alu("REM")) = 0 \/ (Signed(Alu("REM")) < 0) = (Signed(a) < 0)
                  /\ \/ Signed(a) = MinInt /\ Signed(b) = -1
                     \/ Signed(Alu("DIV")) * Signed(b) + Signed(Alu("REM")) = Signed(a)
  BY <1>1, <1>2, SignedDivision
<1>5. CASE b = 0
  <2>1. (WordMod - 1) * b + a = a
    BY <1>1, <1>5, WordBits
  <2> QED BY <1>2, <1>3, <1>4, <1>5, <2>1 DEF DivisionExact
<1>6. CASE b # 0
  <2> DEFINE q == a \div b
             r == a % b
  <2>1. a = b * q + r /\ q \in Int /\ r \in 0 .. b - 1 /\ b * q <= a
    BY <1>1, <1>6, DivMod, DivNat
  <2> HIDE DEF q, r
  <2>2. q * b = b * q
    BY <1>1, <2>1
  <2>3. Alu("DIVU") = q /\ Alu("REMU") = r
    BY <1>2, <1>6 DEF q, r
  <2>4. Alu("REMU") < b /\ Alu("DIVU") * b <= a /\ Alu("DIVU") * b + Alu("REMU") = a
    BY <1>1, <2>1, <2>2, <2>3
  <2>5. Wrap(Alu("DIVU") * b + Alu("REMU")) = a
    BY <1>3, <2>4
  <2> HIDE DEF Alu
  <2> QED BY <1>4, <1>6, <2>4, <2>5 DEF DivisionExact
<1> QED BY <1>5, <1>6

-----------------------------------------------------------------------------
(* Bits. *)

LEMMA BitIs ==
    ASSUME NEW x \in Int, NEW n \in Nat
    PROVE  /\ Shr(x, n) \in Int /\ Bit(x, n) \in {0, 1}
           /\ x = Pow2[n] * Shr(x, n) + (x % Pow2[n]) /\ x % Pow2[n] \in 0 .. Pow2[n] - 1
           /\ Pow2[n] \in Nat /\ Pow2[n] > 0
<1>1. Pow2[n] \in Nat /\ Pow2[n] > 0
  BY Pow2Nat
<1>2. x = Pow2[n] * (x \div Pow2[n]) + (x % Pow2[n]) /\ x \div Pow2[n] \in Int /\ x % Pow2[n] \in 0 .. Pow2[n] - 1
  BY <1>1, DivMod
<1>3. \A u \in Int : u % 2 \in {0, 1}
  OBVIOUS
<1> QED BY <1>1, <1>2, <1>3 DEF Shr, Bit

\* Bit n of a number is the lowest of its part above the n low bits.
LEMMA BitOf ==
    ASSUME NEW x \in Int, NEW n \in Nat, NEW q \in Int, NEW r \in 0 .. Pow2[n] - 1, x = Pow2[n] * q + r
    PROVE  Bit(x, n) = q % 2 /\ Shr(x, n) = q
<1>1. x \div Pow2[n] = q
  BY Pow2Nat, DivIs
<1> QED BY <1>1 DEF Bit, Shr

LEMMA BitShr ==
    ASSUME NEW x \in Int, NEW n \in Nat, NEW i \in Nat
    PROVE  Bit(Shr(x, n), i) = Bit(x, i + n)
<1>1. Pow2[n + i] = Pow2[n] * Pow2[i] /\ n + i = i + n
  BY Pow2Add
<1>2. x \div (Pow2[n] * Pow2[i]) = (x \div Pow2[n]) \div Pow2[i]
  BY Pow2Nat, DivTwice
<1> QED BY <1>1, <1>2 DEF Bit, Shr

\* A multiple of 2^n does not reach the bits below n.
LEMMA BitBelow ==
    ASSUME NEW x \in Int, NEW y \in Int, NEW n \in Nat, NEW i \in 0 .. n - 1
    PROVE  Bit(x + Pow2[n] * y, i) = Bit(x, i)
<1> DEFINE p == Pow2[i]
           c == Pow2[n - i - 1]
           u == Shr(x, i)
           r == x % Pow2[i]
           e == c * y
<1>1. i \in Nat /\ n - i - 1 \in Nat
  OBVIOUS
<1>2. x = p * u + r /\ u \in Int /\ r \in 0 .. p - 1 /\ p \in Nat
  BY <1>1, BitIs
<1>3. Pow2[n] = p * (2 * c) /\ c \in Nat
  BY <1>1, Pow2Below, Pow2Nat
<1> HIDE DEF p, c, u, r
<1>4. e \in Int
  BY <1>3
<1>5. Pow2[n] * y = p * (2 * e)
  BY <1>2, <1>3
<1> HIDE DEF e
<1>6. x + p * (2 * e) = p * (u + 2 * e) + r
  BY <1>2, <1>4
<1>7. Bit(x + Pow2[n] * y, i) = (u + 2 * e) % 2
  <2> DEFINE z == x + p * (2 * e)
             q == u + 2 * e
  <2>1. z \in Int /\ q \in Int /\ z = Pow2[i] * q + r /\ r \in 0 .. Pow2[i] - 1
    BY <1>2, <1>4, <1>6 DEF p
  <2> HIDE DEF z, q
  <2>2. Bit(z, i) = q % 2
    BY <1>1, <2>1, BitOf
  <2> QED BY <1>5, <2>2 DEF z, q
<1>8. (u + 2 * e) % 2 = u % 2
  BY <1>2, <1>4
<1> QED BY <1>7, <1>8 DEF Bit, u

\* Above a low part of m bits the bits are the high part's.
LEMMA BitAbove ==
    ASSUME NEW m \in Nat, NEW x \in 0 .. Pow2[m] - 1, NEW y \in Int, NEW i \in Nat, i >= m
    PROVE  Bit(x + Pow2[m] * y, i) = Bit(y, i - m)
<1> DEFINE z == x + Pow2[m] * y
           j == i - m
<1>1. j \in Nat /\ i = j + m /\ Pow2[m] \in Nat
  BY Pow2Nat
<1>2. z \in Int /\ z = Pow2[m] * y + x
  BY <1>1
<1> HIDE DEF z, j
<1>3. Shr(z, m) = y
  BY <1>2, BitOf
<1>4. Bit(Shr(z, m), j) = Bit(z, j + m)
  BY <1>1, <1>2, BitShr
<1> QED BY <1>1, <1>3, <1>4 DEF z, j

LEMMA BitOfZero ==
    ASSUME NEW i \in Nat
    PROVE  Bit(0, i) = 0
<1>1. 0 = Pow2[i] * 0 + 0 /\ 0 \in 0 .. Pow2[i] - 1
  BY Pow2Nat
<1>2. Bit(0, i) = 0 % 2
  BY <1>1, BitOf
<1> QED BY <1>2

LEMMA BitBeyond ==
    ASSUME NEW m \in Nat, NEW x \in 0 .. Pow2[m] - 1, NEW i \in Nat, i >= m
    PROVE  Bit(x, i) = 0
<1>1. x + Pow2[m] * 0 = x /\ i - m \in Nat
  BY Pow2Nat
<1>2. Bit(x + Pow2[m] * 0, i) = Bit(0, i - m)
  BY BitAbove
<1> QED BY <1>1, <1>2, BitOfZero

LEMMA BitMod ==
    ASSUME NEW x \in Int, NEW m \in Nat, NEW i \in 0 .. m - 1
    PROVE  Bit(x % Pow2[m], i) = Bit(x, i)
<1> DEFINE r == x % Pow2[m]
           q == Shr(x, m)
<1>1. x = Pow2[m] * q + r /\ q \in Int /\ r \in 0 .. Pow2[m] - 1 /\ Pow2[m] \in Nat
  BY BitIs
<1> HIDE DEF r, q
<1>2. x = r + Pow2[m] * q /\ r \in Int
  BY <1>1
<1> QED BY <1>1, <1>2, BitBelow DEF r

\* The bits of a word, and of a number taken modulo a word.
LEMMA BitWrap ==
    ASSUME NEW x \in Int, NEW i \in Bits
    PROVE  Bit(x % WordMod, i) = Bit(x, i) /\ x % WordMod \in Word
  BY WordBits, BitMod, DivMod DEF Bits, Word

LEMMA BitOutside ==
    ASSUME NEW x \in Word, NEW i \in Nat, i >= XLEN
    PROVE  Bit(x, i) = 0
  BY WordBits, BitBeyond DEF Word

LEMMA BitShl ==
    ASSUME NEW x \in Int, NEW n \in Nat, NEW i \in Bits
    PROVE  Bit(Shl(x, n), i) = (IF i >= n THEN Bit(x, i - n) ELSE 0) /\ Shl(x, n) \in Word
<1>1. Pow2[n] \in Nat /\ Pow2[n] > 0 /\ i \in Nat
  BY Pow2Nat, WordBits DEF Bits
<1>2. x * Pow2[n] \in Int /\ x * Pow2[n] = 0 + Pow2[n] * x
  BY <1>1
<1>3. Bit(Shl(x, n), i) = Bit(0 + Pow2[n] * x, i) /\ Shl(x, n) \in Word
  BY <1>2, BitWrap DEF Shl
<1>4. CASE i >= n
  <2>1. 0 \in 0 .. Pow2[n] - 1
    BY <1>1
  <2> QED BY <1>1, <1>3, <1>4, <2>1, BitAbove
<1>5. CASE i < n
  <2>1. i \in 0 .. n - 1
    BY <1>1, <1>5
  <2> QED BY <1>1, <1>3, <1>5, <2>1, BitBelow, BitOfZero
<1> QED BY <1>1, <1>4, <1>5

LEMMA BitNot ==
    ASSUME NEW x \in Word, NEW i \in Bits
    PROVE  Bit(NotW(x), i) = 1 - Bit(x, i) /\ NotW(x) \in Word
<1> DEFINE p == Pow2[i]
           c == Pow2[XLEN - i - 1]
           u == Shr(x, i)
           r == x % Pow2[i]
<1>1. i \in Nat /\ i \in 0 .. XLEN - 1 /\ x \in Int /\ XLEN \in Nat /\ XLEN - i - 1 \in Nat
  BY WordBits DEF Bits, Word
<1>2. x = p * u + r /\ u \in Int /\ r \in 0 .. p - 1 /\ p \in Nat /\ p > 0
  BY <1>1, BitIs
<1>3. WordMod = p * (2 * c) /\ c \in Nat
  BY <1>1, WordBits, Pow2Below, Pow2Nat
<1> HIDE DEF p, c, u, r
<1> DEFINE q == 2 * c - 1 - u
           s == p - 1 - r
<1>4. NotW(x) = p * q + s
  <2>1. p * q = p * (2 * c) - p - p * u
    BY <1>2, <1>3
  <2> QED BY <1>2, <1>3, <2>1 DEF NotW
<1>5. q \in Int /\ s \in 0 .. p - 1 /\ NotW(x) \in Word
  BY <1>2, <1>3, WordBits DEF NotW, Word
<1>6. q % 2 = 1 - (u % 2)
  BY <1>2, <1>3
<1> HIDE DEF q, s
<1>7. Bit(NotW(x), i) = q % 2
  <2> DEFINE z == NotW(x)
  <2>1. z \in Int /\ z = Pow2[i] * q + s /\ s \in 0 .. Pow2[i] - 1
    BY <1>4, <1>5, WordBits DEF p, Word
  <2> HIDE DEF z
  <2> QED BY <1>1, <1>5, <2>1, BitOf DEF z
<1> QED BY <1>5, <1>6, <1>7 DEF Bit, u

\* The lowest bit of 2^n - 1 that is not set is bit n.
LEMMA BitOfOnes ==
    ASSUME NEW n \in Nat, NEW i \in 0 .. n - 1
    PROVE  Bit(Pow2[n] - 1, i) = 1
<1> DEFINE p == Pow2[i]
           c == Pow2[n - i - 1]
           q == 2 * c - 1
<1>1. i \in Nat /\ n - i - 1 \in Nat
  OBVIOUS
<1>2. Pow2[n] = p * (2 * c) /\ c \in Nat /\ p \in Nat /\ p > 0
  BY <1>1, Pow2Below, Pow2Nat
<1> HIDE DEF p, c
<1>3. p * (2 * c) - 1 = p * q + (p - 1) /\ q % 2 = 1 /\ q \in Int /\ p - 1 \in 0 .. p - 1
  BY <1>2
<1>4. Bit(p * (2 * c) - 1, i) = q % 2
  <2> DEFINE z == p * (2 * c) - 1
             r == p - 1
  <2>1. z \in Int /\ z = Pow2[i] * q + r /\ r \in 0 .. Pow2[i] - 1
    BY <1>2, <1>3 DEF p
  <2> HIDE DEF z, q, r
  <2>2. Bit(z, i) = q % 2
    BY <1>1, <1>3, <2>1, BitOf
  <2> QED BY <2>2 DEF z
<1> QED BY <1>2, <1>3, <1>4

LEMMA BitOfPow2 ==
    ASSUME NEW n \in Nat, NEW i \in Nat
    PROVE  Bit(Pow2[n], i) = IF i = n THEN 1 ELSE 0
<1>1. Pow2[n] \in Nat /\ Pow2[n] > 0 /\ Pow2[n] = 0 + Pow2[n] * 1 /\ 0 \in 0 .. Pow2[n] - 1
  BY Pow2Nat
<1>2. CASE i < n
  <2>1. i \in 0 .. n - 1
    BY <1>2
  <2>2. Bit(0 + Pow2[n] * 1, i) = Bit(0, i)
    BY <2>1, BitBelow
  <2> QED BY <1>1, <1>2, <2>2, BitOfZero
<1>3. CASE i >= n
  <2>1. Bit(0 + Pow2[n] * 1, i) = Bit(1, i - n)
    BY <1>1, <1>3, BitAbove
  <2>2. i = n => Bit(1, i - n) = 1
    BY Pow2Step DEF Bit, Shr
  <2>3. i # n => Bit(1, i - n) = 0
    <3> SUFFICES ASSUME i # n PROVE Bit(1, i - n) = 0
      OBVIOUS
    <3>1. i - n \in Nat /\ i - n >= 1 /\ 1 \in 0 .. Pow2[1] - 1 /\ 1 \in Nat
      <4>1. Pow2[0 + 1] = 2 * Pow2[0]
        BY Pow2Step
      <4> QED BY <1>3, <4>1, Pow2Step
    <3> QED BY <3>1, BitBeyond
  <2> QED BY <1>1, <2>1, <2>2, <2>3
<1> QED BY <1>2, <1>3

-----------------------------------------------------------------------------
(* Words put together from bits. *)

\* The sums that FromBits builds up, as a function g of how far it has come.
Sums(g, f, n) == g = [k \in 0 .. n |-> IF k = 0 THEN 0 ELSE g[k - 1] + f[k - 1] * Pow2[k - 1]]

LEMMA SumsAt ==
    ASSUME NEW n \in Nat, NEW f, NEW g, Sums(g, f, n)
    PROVE  g[0] = 0 /\ \A k \in 0 .. n - 1 : g[k + 1] = g[k] + f[k] * Pow2[k]
<1>1. \A k \in 0 .. n : g[k] = IF k = 0 THEN 0 ELSE g[k - 1] + f[k - 1] * Pow2[k - 1]
  BY DEF Sums
<1>2. ASSUME NEW k \in 0 .. n - 1 PROVE g[k + 1] = g[k] + f[k] * Pow2[k]
  <2>1. k + 1 \in 0 .. n /\ k + 1 # 0 /\ (k + 1) - 1 = k
    OBVIOUS
  <2> QED BY <1>1, <2>1
<1> QED BY <1>1, <1>2

LEMMA SumsExist ==
    ASSUME NEW f
    PROVE  \A n \in Nat : \E g : Sums(g, f, n)
<1> DEFINE S == {n \in Nat : \E g : Sums(g, f, n)}
<1>1. 0 \in S
  <2>1. Sums([k \in 0 .. 0 |-> 0], f, 0)
    BY DEF Sums
  <2> QED BY <2>1
<1>2. ASSUME NEW n \in S PROVE n + 1 \in S
  <2>1. PICK g : Sums(g, f, n)
    BY <1>2
  <2> DEFINE h == [k \in 0 .. n + 1 |-> IF k = n + 1 THEN g[n] + f[n] * Pow2[n] ELSE g[k]]
  <2>2. n \in Nat /\ \A k \in 0 .. n : h[k] = g[k]
    BY <1>2
  <2>3. h = [k \in 0 .. n + 1 |-> h[k]] /\ h[n + 1] = g[n] + f[n] * Pow2[n]
    BY <2>2
  <2>4. \A k \in 0 .. n : g[k] = IF k = 0 THEN 0 ELSE g[k - 1] + f[k - 1] * Pow2[k - 1]
    BY <2>1 DEF Sums
  <2> HIDE DEF h
  <2>5. ASSUME NEW k \in 0 .. n + 1 PROVE h[k] = IF k = 0 THEN 0 ELSE h[k - 1] + f[k - 1] * Pow2[k - 1]
    <3>1. CASE k = n + 1
      <4>1. k # 0 /\ k - 1 = n /\ n \in 0 .. n
        BY <2>2, <3>1
      <4> QED BY <2>2, <2>3, <3>1, <4>1
    <3>2. CASE k \in 0 .. n
      <4>1. h[k] = g[k] /\ (k # 0 => h[k - 1] = g[k - 1])
        BY <2>2, <3>2
      <4> QED BY <2>4, <3>2, <4>1
    <3> QED BY <2>2, <3>1, <3>2
  <2>6. Sums(h, f, n + 1)
    BY <2>3, <2>5 DEF Sums
  <2> QED BY <2>2, <2>6
<1> HIDE DEF S
<1>3. S = Nat
  BY <1>1, <1>2, Induction DEF S
<1> QED BY <1>3 DEF S

\* FromBits(f) is the word whose bits are f.
LEMMA FromBitsIs ==
    ASSUME NEW f, \A n \in Bits : f[n] \in {0, 1}
    PROVE  FromBits(f) \in Word /\ \A i \in Bits : Bit(FromBits(f), i) = f[i]
<1> DEFINE g == CHOOSE s : Sums(s, f, XLEN)
           Made(k) == g[k] \in 0 .. Pow2[k] - 1 /\ \A i \in 0 .. k - 1 : Bit(g[k], i) = f[i]
           S == {k \in Nat : k <= XLEN => Made(k)}
<1>0. XLEN \in Nat
  BY WordBits
<1>1. FromBits(f) = g[XLEN]
  BY DEF FromBits, Sums
<1>2. Sums(g, f, XLEN)
  BY <1>0, SumsExist
<1> HIDE DEF g
<1>3. g[0] = 0 /\ \A k \in 0 .. XLEN - 1 : g[k + 1] = g[k] + f[k] * Pow2[k]
  BY <1>0, <1>2, SumsAt
<1>4. 0 \in S
  BY <1>3, Pow2Nat
<1>5. ASSUME NEW k \in S PROVE k + 1 \in S
  <2> SUFFICES ASSUME k + 1 <= XLEN PROVE Made(k + 1)
    BY <1>5
  <2>1. k \in Nat /\ k \in 0 .. XLEN - 1 /\ k \in Bits /\ Made(k)
    BY <1>0, <1>5 DEF Bits
  <2>2. Pow2[k] \in Nat /\ Pow2[k] > 0 /\ Pow2[k + 1] = 2 * Pow2[k] /\ f[k] \in {0, 1}
    BY <2>1, Pow2Nat, Pow2Step
  <2>3. g[k + 1] = g[k] + Pow2[k] * f[k] /\ g[k] \in 0 .. Pow2[k] - 1
    <3>1. f[k] * Pow2[k] = Pow2[k] * f[k]
      BY <2>2
    <3> QED BY <1>3, <2>1, <3>1
  <2>4. g[k + 1] \in 0 .. Pow2[k + 1] - 1
    <3>1. Pow2[k] * f[k] \in {0, Pow2[k]}
      BY <2>2
    <3> QED BY <2>2, <2>3, <3>1
  <2>5. Bit(g[k + 1], k) = f[k]
    <3>1. Bit(g[k] + Pow2[k] * f[k], k) = Bit(f[k], k - k)
      BY <2>1, <2>2, <2>3, BitAbove
    <3>2. k - k = 0 /\ Bit(f[k], 0) = f[k]
      BY <2>1, <2>2, Pow2Step DEF Bit, Shr
    <3> QED BY <2>3, <3>1, <3>2
  <2>6. ASSUME NEW i \in 0 .. k - 1 PROVE Bit(g[k + 1], i) = f[i]
    <3> DEFINE u == g[k]
               v == f[k]
    <3>0. u \in Int /\ v \in Int
      BY <2>2, <2>3
    <3> HIDE DEF u, v
    <3>1. Bit(u + Pow2[k] * v, i) = Bit(u, i)
      BY <2>1, <3>0, BitBelow
    <3>2. Bit(g[k], i) = f[i]
      BY <2>1
    <3> QED BY <2>3, <3>1, <3>2 DEF u, v
  <2>7. \A i \in 0 .. (k + 1) - 1 : i = k \/ i \in 0 .. k - 1
    BY <2>1
  <2> QED BY <2>4, <2>5, <2>6, <2>7
<1> HIDE DEF S
<1>6. S = Nat
  BY <1>4, <1>5, Induction DEF S
<1>7. Made(XLEN)
  BY <1>0, <1>6 DEF S
<1> QED BY <1>1, <1>7, WordBits DEF Word, Bits

LEMMA BitwiseIs ==
    ASSUME NEW x \in Int, NEW y \in Int
    PROVE  /\ And(x, y) \in Word /\ Or(x, y) \in Word /\ Xor(x, y) \in Word
           /\ \A i \in Bits : /\ Bit(And(x, y), i) = Bool(Bit(x, i) = 1 /\ Bit(y, i) = 1)
                              /\ Bit(Or(x, y), i) = Bool(Bit(x, i) = 1 \/ Bit(y, i) = 1)
                              /\ Bit(Xor(x, y), i) = Bool(Bit(x, i) # Bit(y, i))
<1>1. ASSUME NEW f, \A n \in Bits : f[n] \in {0, 1}
      PROVE  FromBits(f) \in Word /\ \A i \in Bits : Bit(FromBits(f), i) = f[i]
  BY <1>1, FromBitsIs
<1> DEFINE f == [n \in Bits |-> Bool(Bit(x, n) = 1 /\ Bit(y, n) = 1)]
           g == [n \in Bits |-> Bool(Bit(x, n) = 1 \/ Bit(y, n) = 1)]
           h == [n \in Bits |-> Bool(Bit(x, n) # Bit(y, n))]
<1>2. And(x, y) = FromBits(f) /\ Or(x, y) = FromBits(g) /\ Xor(x, y) = FromBits(h)
  BY DEF And, Or, Xor, Bits
<1>3. \A n \in Bits : f[n] \in {0, 1} /\ g[n] \in {0, 1} /\ h[n] \in {0, 1}
  BY DEF Bool
<1>4. \A n \in Bits : /\ f[n] = Bool(Bit(x, n) = 1 /\ Bit(y, n) = 1)
                      /\ g[n] = Bool(Bit(x, n) = 1 \/ Bit(y, n) = 1)
                      /\ h[n] = Bool(Bit(x, n) # Bit(y, n))
  OBVIOUS
<1> HIDE DEF f, g, h
<1>5. FromBits(f) \in Word /\ \A i \in Bits : Bit(FromBits(f), i) = f[i]
  BY <1>1, <1>3
<1>6. FromBits(g) \in Word /\ \A i \in Bits : Bit(FromBits(g), i) = g[i]
  BY <1>1, <1>3
<1>7. FromBits(h) \in Word /\ \A i \in Bits : Bit(FromBits(h), i) = h[i]
  BY <1>1, <1>3
<1> QED BY <1>2, <1>4, <1>5, <1>6, <1>7

\* A word is its bits.
LEMMA SameBits ==
    \A n \in Nat : \A x, y \in 0 .. Pow2[n] - 1 : (\A i \in 0 .. n - 1 : Bit(x, i) = Bit(y, i)) => x = y
<1> DEFINE S == {n \in Nat : \A x, y \in 0 .. Pow2[n] - 1 :
                   (\A i \in 0 .. n - 1 : Bit(x, i) = Bit(y, i)) => x = y}
<1>1. 0 \in S
  BY Pow2Step
<1>2. ASSUME NEW n \in S PROVE n + 1 \in S
  <2>0. n \in Nat /\ Pow2[n] \in Nat /\ Pow2[n] > 0 /\ Pow2[n + 1] = 2 * Pow2[n]
    BY <1>2, Pow2Nat, Pow2Step
  <2> SUFFICES ASSUME NEW x \in 0 .. Pow2[n + 1] - 1, NEW y \in 0 .. Pow2[n + 1] - 1,
                      \A i \in 0 .. (n + 1) - 1 : Bit(x, i) = Bit(y, i)
               PROVE  x = y
    BY <2>0
  <2> DEFINE p == Pow2[n]
  <2>1. ASSUME NEW z \in 0 .. Pow2[n + 1] - 1
        PROVE  /\ z = p * Bit(z, n) + (z % p) /\ z % p \in 0 .. p - 1 /\ Bit(z, n) \in {0, 1}
               /\ \A i \in 0 .. n - 1 : Bit(z % p, i) = Bit(z, i)
    <3>0. z \in Int
      BY <2>0
    <3>1. z \in Int /\ z = p * Shr(z, n) + (z % p) /\ z % p \in 0 .. p - 1 /\ Shr(z, n) \in Int
      BY <2>0, <3>0, BitIs
    <3>2. Shr(z, n) \in {0, 1}
      <4> DEFINE q == Shr(z, n)
      <4> HIDE DEF q, p
      <4>1. p * q \in Int /\ p * q < p * 2 /\ p * q > -p /\ q \in Int
        BY <2>0, <3>1 DEF q, p
      <4>2. q >= 2 => p * q >= p * 2
        BY <2>0, <4>1 DEF p
      <4>3. q <= -1 => p * q <= p * (-1)
        BY <2>0, <4>1 DEF p
      <4>4. p * (-1) = -p /\ p \in Int
        BY <2>0 DEF p
      <4>5. q \in {0, 1}
        BY <4>1, <4>2, <4>3, <4>4
      <4> QED BY <4>5 DEF q
    <3>3. Bit(z, n) = Shr(z, n)
      BY <3>2 DEF Bit
    <3>4. \A i \in 0 .. n - 1 : Bit(z % p, i) = Bit(z, i)
      BY <2>0, <3>1, BitMod
    <3> QED BY <3>1, <3>2, <3>3, <3>4
  <2>2. Bit(x, n) = Bit(y, n)
    BY <2>0
  <2>3. x % p = y % p
    <3>1. \A i \in 0 .. n - 1 : Bit(x % p, i) = Bit(y % p, i)
      BY <2>0, <2>1
    <3>2. x % p \in 0 .. Pow2[n] - 1 /\ y % p \in 0 .. Pow2[n] - 1
      BY <2>1
    <3> HIDE DEF p
    <3> QED BY <1>2, <3>1, <3>2
  <2> HIDE DEF p
  <2> QED BY <2>1, <2>2, <2>3
<1> HIDE DEF S
<1>3. S = Nat
  BY <1>1, <1>2, Induction DEF S
<1> QED BY <1>3 DEF S

LEMMA WordIsBits ==
    ASSUME NEW x \in Word, NEW y \in Word, \A i \in Bits : Bit(x, i) = Bit(y, i)
    PROVE  x = y
<1>1. XLEN \in Nat /\ x \in 0 .. Pow2[XLEN] - 1 /\ y \in 0 .. Pow2[XLEN] - 1
  BY WordBits DEF Word
<1>2. \A i \in 0 .. XLEN - 1 : Bit(x, i) = Bit(y, i)
  BY DEF Bits
<1> QED BY <1>1, <1>2, SameBits

-----------------------------------------------------------------------------
(* Orders. *)

\* The top bit tells the upper half of the numbers of m bits.
LEMMA TopBit ==
    ASSUME NEW m \in Nat, m >= 1, NEW v \in 0 .. Pow2[m] - 1
    PROVE  Bit(v, m - 1) = IF v < Pow2[m] \div 2 THEN 0 ELSE 1
<1> DEFINE p == Pow2[m - 1]
<1>1. m - 1 \in Nat /\ (m - 1) + 1 = m
  OBVIOUS
<1>2. Pow2[m] = 2 * p /\ p \in Nat /\ p > 0
  BY <1>1, Pow2Step, Pow2Nat
<1> HIDE DEF p
<1>3. Pow2[m] \div 2 = p /\ v \in Int
  BY <1>2
<1>4. CASE v < p
  <2>1. v \in 0 .. p - 1 /\ v = p * 0 + v
    BY <1>2, <1>3, <1>4
  <2>2. Bit(v, m - 1) = 0 % 2
    BY <1>1, <1>3, <2>1, BitOf DEF p
  <2> QED BY <1>3, <1>4, <2>2
<1>5. CASE v >= p
  <2> DEFINE r == v - p
             q == 1
             n == m - 1
  <2>1. r \in 0 .. p - 1 /\ q \in Int /\ n \in Nat /\ v = p * q + r
    BY <1>1, <1>2, <1>3, <1>5
  <2> HIDE DEF r, q
  <2>2. r \in 0 .. Pow2[n] - 1 /\ v = Pow2[n] * q + r
    BY <2>1 DEF p
  <2> HIDE DEF n
  <2>3. Bit(v, n) = q % 2
    <3>1. v \in Int /\ n \in Nat /\ q \in Int
      BY <1>3, <2>1
    <3> QED BY <2>2, <3>1, BitOf
  <2>4. Bit(v, m - 1) = 1
    BY <2>3 DEF n, q
  <2> QED BY <1>2, <1>3, <1>5, <2>4
<1> QED BY <1>2, <1>3, <1>4, <1>5

LEMMA DispatchOther ==
    ASSUME NEW x, NEW y
    PROVE  /\ \A op \in OpsI : AluResult(op, x, y) = aluI(op, x, y)
           /\ \A op \in OpsA : AluResult(op, x, y) = aluA(op, x, y)
           /\ \A op \in OpsZbb : AluResult(op, x, y) = aluZbb(op, x, y)
           /\ \A op \in OpsZbs : AluResult(op, x, y) = aluZbs(op, x, y)
<1>1. ASSUME NEW op \in OpsI PROVE AluResult(op, x, y) = aluI(op, x, y)
  BY <1>1 DEF AluResult, OpsM, OpsI, OpsA, OpsZba, OpsZbb, OpsZbs
<1>2. ASSUME NEW op \in OpsA PROVE AluResult(op, x, y) = aluA(op, x, y)
  BY <1>2 DEF AluResult, OpsM, OpsI, OpsA, OpsZba, OpsZbb, OpsZbs
<1>3. ASSUME NEW op \in OpsZbb PROVE AluResult(op, x, y) = aluZbb(op, x, y)
  BY <1>3 DEF AluResult, OpsM, OpsI, OpsA, OpsZba, OpsZbb, OpsZbs
<1>4. ASSUME NEW op \in OpsZbs PROVE AluResult(op, x, y) = aluZbs(op, x, y)
  BY <1>4 DEF AluResult, OpsM, OpsI, OpsA, OpsZba, OpsZbb, OpsZbs
<1> QED BY <1>1, <1>2, <1>3, <1>4

\* What each instruction of zbb computes.
LEMMA ResultsZbb ==
    ASSUME NEW x, NEW y
    PROVE  /\ AluResult("MIN", x, y) = MinS(x, y) /\ AluResult("MAX", x, y) = MaxS(x, y)
           /\ AluResult("MINU", x, y) = MinU(x, y) /\ AluResult("MAXU", x, y) = MaxU(x, y)
           /\ AluResult("CLZ", x, y) = Clz(x) /\ AluResult("CTZ", x, y) = Ctz(x)
           /\ AluResult("CPOP", x, y) = Cpop(x)
           /\ AluResult("SEXT_B", x, y) = SignExtend(x % BYTE, BYTE)
           /\ AluResult("SEXT_H", x, y) = SignExtend(x % HalfMod, HalfMod)
           /\ AluResult("ROL", x, y) = Or(Shl(x, Shamt(y)), Shr(x, Complement(Shamt(y))))
           /\ AluResult("ROR", x, y) = Or(Shr(x, Shamt(y)), Shl(x, Complement(Shamt(y))))
           /\ AluResult("ORC_B", x, y)
                = FromBytes([i \in 0 .. 3 |-> IF ByteOf(x, i) # 0 THEN BYTE - 1 ELSE 0])
           /\ AluResult("REV8", x, y) = FromBytes([i \in 0 .. 3 |-> ByteOf(x, 3 - i)])
<1>1. \A op \in {"MIN", "MAX", "MINU", "MAXU", "CLZ", "CTZ", "CPOP", "SEXT_B", "SEXT_H",
                  "ROL", "ROR", "ORC_B", "REV8"} :
        AluResult(op, x, y) = aluZbb(op, x, y)
  BY DispatchOther DEF OpsZbb
<1>2. aluZbb("MIN", x, y) = MinS(x, y)
  BY DEF aluZbb
<1>3. aluZbb("MAX", x, y) = MaxS(x, y)
  BY DEF aluZbb
<1>4. aluZbb("MINU", x, y) = MinU(x, y)
  BY DEF aluZbb
<1>5. aluZbb("MAXU", x, y) = MaxU(x, y)
  BY DEF aluZbb
<1>6. aluZbb("CLZ", x, y) = Clz(x)
  BY DEF aluZbb
<1>7. aluZbb("CTZ", x, y) = Ctz(x)
  BY DEF aluZbb
<1>8. aluZbb("CPOP", x, y) = Cpop(x)
  BY DEF aluZbb
<1>9. aluZbb("SEXT_B", x, y) = SignExtend(x % BYTE, BYTE)
  BY DEF aluZbb
<1>10. aluZbb("SEXT_H", x, y) = SignExtend(x % HalfMod, HalfMod)
  BY DEF aluZbb
<1>11. aluZbb("ROL", x, y) = Or(Shl(x, Shamt(y)), Shr(x, Complement(Shamt(y))))
  BY DEF aluZbb
<1>12. aluZbb("ROR", x, y) = Or(Shr(x, Shamt(y)), Shl(x, Complement(Shamt(y))))
  BY DEF aluZbb
<1>13. aluZbb("ORC_B", x, y) = FromBytes([i \in 0 .. 3 |-> IF ByteOf(x, i) # 0 THEN BYTE - 1 ELSE 0])
  BY Zenon DEF aluZbb
<1>14. aluZbb("REV8", x, y) = FromBytes([i \in 0 .. 3 |-> ByteOf(x, 3 - i)])
  BY Zenon DEF aluZbb
<1> QED BY <1>1, <1>2, <1>3, <1>4, <1>5, <1>6, <1>7, <1>8, <1>9, <1>10, <1>11, <1>12, <1>13, <1>14

LEMMA Orders == AluInv => OrdersAgree
<1> SUFFICES ASSUME AluInv PROVE OrdersAgree
  OBVIOUS
<1> DEFINE h == WordMod \div 2
<1>1. a \in Word /\ b \in Word /\ a \in 0 .. WordMod - 1 /\ b \in 0 .. WordMod - 1
  BY DEF AluInv, Word
<1>2. WordMod = 2 * h /\ h \in Nat /\ h > 0 /\ XLEN \in Nat /\ XLEN >= 1 /\ WordMod = Pow2[XLEN]
  BY HalfWord, WordBits
<1>3. Bit(a, XLEN - 1) = (IF a < h THEN 0 ELSE 1) /\ Bit(b, XLEN - 1) = (IF b < h THEN 0 ELSE 1)
  BY <1>1, <1>2, TopBit
<1>4. Signed(a) = (IF a < h THEN a ELSE a - WordMod) /\ Signed(b) = (IF b < h THEN b ELSE b - WordMod)
  BY DEF Signed
<1> HIDE DEF h
<1>5. /\ Alu("SLT") = Bool(Signed(a) < Signed(b)) /\ Alu("SLTU") = Bool(a < b)
  BY DispatchOther DEF Alu, aluI, OpsI
<1>6. /\ Alu("MIN") = MinS(a, b) /\ Alu("MAX") = MaxS(a, b)
      /\ Alu("MINU") = MinU(a, b) /\ Alu("MAXU") = MaxU(a, b)
  BY ResultsZbb DEF Alu
<1>7. /\ Alu("AMOMIN_W") = MinS(a, b) /\ Alu("AMOMAX_W") = MaxS(a, b)
      /\ Alu("AMOMINU_W") = MinU(a, b) /\ Alu("AMOMAXU_W") = MaxU(a, b)
  BY DispatchOther DEF Alu, aluA, OpsA
<1> HIDE DEF Alu
<1>8. {Alu("MIN"), Alu("MAX")} = {a, b} /\ {Alu("MINU"), Alu("MAXU")} = {a, b}
  BY <1>6 DEF MinS, MaxS, MinU, MaxU
<1>9. Signed(a) < Signed(b) => a # b
  BY <1>1, <1>2, <1>4
<1>10. (Alu("SLT") = 1) = (Alu("MIN") = a /\ a # b)
  BY <1>5, <1>6, <1>9 DEF Bool, MinS
<1>11. (Alu("SLTU") = 1) = (Alu("MAXU") = b /\ a # b)
  BY <1>1, <1>2, <1>5, <1>6 DEF Bool, MaxU
<1>12. (Alu("SLT") = Alu("SLTU")) = (a = b \/ Bit(a, XLEN - 1) = Bit(b, XLEN - 1))
  BY <1>1, <1>2, <1>3, <1>4, <1>5 DEF Bool
<1>13. /\ branchTaken("BLT", a, b) = (Signed(a) < Signed(b)) /\ branchTaken("BLTU", a, b) = (a < b)
       /\ branchTaken("BGE", a, b) = (Signed(a) >= Signed(b)) /\ branchTaken("BGEU", a, b) = (a >= b)
       /\ branchTaken("BEQ", a, b) = (a = b) /\ branchTaken("BNE", a, b) = (a # b)
       /\ branchTaken("BGE", b, a) = (Signed(b) >= Signed(a))
  BY DEF branchTaken
<1>14. Signed(a) \in Int /\ Signed(b) \in Int /\ (Signed(a) = Signed(b) <=> a = b)
  BY <1>1, <1>2, <1>4
<1>15. branchTaken("BLT", a, b) = (Alu("SLT") = 1) /\ branchTaken("BLTU", a, b) = (Alu("SLTU") = 1)
  BY <1>5, <1>13 DEF Bool
<1>16. /\ branchTaken("BGE", a, b) = ~ branchTaken("BLT", a, b)
       /\ branchTaken("BGEU", a, b) = ~ branchTaken("BLTU", a, b)
  BY <1>1, <1>14 DEF branchTaken
<1>17. /\ branchTaken("BEQ", a, b) = (branchTaken("BGE", a, b) /\ branchTaken("BGE", b, a))
       /\ branchTaken("BNE", a, b) = ~ branchTaken("BEQ", a, b)
  BY <1>14 DEF branchTaken
<1> QED BY <1>6, <1>7, <1>8, <1>10, <1>11, <1>12, <1>15, <1>16, <1>17 DEF OrdersAgree

-----------------------------------------------------------------------------
(* Where the bits of a result come from. *)

LEMMA BitOfMinusOne ==
    ASSUME NEW i \in Nat
    PROVE  Bit(-1, i) = 1
<1> DEFINE p == Pow2[i]
           r == p - 1
           z == -1
<1>1. p \in Nat /\ p > 0
  BY Pow2Nat
<1> HIDE DEF p
<1>2. p * z = -p /\ z \in Int /\ z % 2 = 1
  <2>1. ASSUME NEW u \in Int, u = -1 PROVE u % 2 = 1
    <3>1. ASSUME NEW d \in Nat, d = 2 PROVE u % d = 1
      <4>1. u = d * (u \div d) + (u % d) /\ u \div d \in Int /\ u % d \in 0 .. d - 1
        BY <3>1, DivMod
      <4> DEFINE e == u \div d
                 s == u % d
      <4> HIDE DEF e, s
      <4>2. u = d * e + s /\ e \in Int /\ s \in 0 .. d - 1
        BY <4>1 DEF e, s
      <4>3. s = 1
        BY <2>1, <3>1, <4>2
      <4> QED BY <4>3 DEF s
    <3> QED BY <3>1
  <2>2. z \in Int /\ z = -1
    OBVIOUS
  <2> HIDE DEF z
  <2>3. z % 2 = 1
    BY <2>1, <2>2
  <2> QED BY <1>1, <2>2, <2>3
<1>3. r \in 0 .. p - 1 /\ z = p * z + r
  BY <1>1, <1>2
<1> HIDE DEF r, z
<1>4. r \in 0 .. Pow2[i] - 1 /\ z = Pow2[i] * z + r
  BY <1>3 DEF p
<1>5. Bit(z, i) = z % 2
  BY <1>2, <1>4, BitOf
<1> QED BY <1>2, <1>5 DEF z

\* The sign fills the bits above a word.
LEMMA BitSigned ==
    ASSUME NEW x \in Word, NEW j \in Nat
    PROVE  Bit(Signed(x), j) = Bit(x, IF j > XLEN - 1 THEN XLEN - 1 ELSE j)
<1> DEFINE h == WordMod \div 2
<1>1. /\ XLEN \in Nat /\ XLEN >= 1 /\ WordMod = Pow2[XLEN] /\ WordMod \in Nat
      /\ x \in 0 .. Pow2[XLEN] - 1 /\ x \in Int
  BY WordBits DEF Word
<1>2. Bit(x, XLEN - 1) = IF x < h THEN 0 ELSE 1
  BY <1>1, TopBit
<1>3. CASE x < h
  <2>1. Signed(x) = x
    BY <1>3 DEF Signed
  <2>2. j >= XLEN => Bit(x, j) = 0
    BY <1>1, BitBeyond
  <2> QED BY <1>1, <1>2, <1>3, <2>1, <2>2
<1>4. CASE ~(x < h)
  <2>1. Signed(x) = x + Pow2[XLEN] * (-1)
    BY <1>1, <1>4 DEF Signed
  <2>2. j \in 0 .. XLEN - 1 => Bit(x + Pow2[XLEN] * (-1), j) = Bit(x, j)
    BY <1>1, BitBelow
  <2>3. j >= XLEN => Bit(x + Pow2[XLEN] * (-1), j) = Bit(-1, j - XLEN) /\ j - XLEN \in Nat
    BY <1>1, BitAbove
  <2>4. j >= XLEN => Bit(-1, j - XLEN) = 1
    BY <2>3, BitOfMinusOne
  <2> QED BY <1>1, <1>2, <1>4, <2>1, <2>2, <2>3, <2>4
<1> QED BY <1>3, <1>4

LEMMA SignExtendBits ==
    ASSUME NEW m \in 1 .. XLEN, NEW v \in 0 .. Pow2[m] - 1, NEW i \in Bits
    PROVE  Bit(SignExtend(v, Pow2[m]), i) = IF i < m THEN Bit(v, i) ELSE Bit(v, m - 1)
<1> DEFINE h == Pow2[m] \div 2
           c == XLEN - m
           y == Pow2[c] - 1
<1>1. m \in Nat /\ m >= 1 /\ i \in Nat /\ i < XLEN /\ XLEN \in Nat /\ c \in Nat /\ m + c = XLEN
  BY WordBits DEF Bits
<1> HIDE DEF c
<1>2. Pow2[m] \in Nat /\ Pow2[c] \in Nat /\ WordMod = Pow2[m] * Pow2[c] /\ v \in Int /\ y \in Int
  <2>1. Pow2[m] \in Nat /\ Pow2[c] \in Nat
    BY <1>1, Pow2Nat
  <2>2. Pow2[m + c] = Pow2[m] * Pow2[c]
    BY <1>1, Pow2Add
  <2>3. WordMod = Pow2[m] * Pow2[c]
    BY <1>1, <2>2, WordBits
  <2> QED BY <2>1, <2>3
<1>3. Bit(v, m - 1) = IF v < h THEN 0 ELSE 1
  BY <1>1, TopBit
<1>4. CASE v < h
  <2>1. SignExtend(v, Pow2[m]) = v
    BY <1>4 DEF SignExtend
  <2>2. i >= m => Bit(v, i) = 0
    BY <1>1, BitBeyond
  <2> QED BY <1>1, <1>3, <1>4, <2>1, <2>2
<1>5. CASE ~(v < h)
  <2>1. SignExtend(v, Pow2[m]) = v + Pow2[m] * y
    <3>1. WordMod - Pow2[m] = Pow2[m] * y
      BY <1>2
    <3> QED BY <1>5, <3>1 DEF SignExtend
  <2> HIDE DEF y
  <2>2. i < m => Bit(v + Pow2[m] * y, i) = Bit(v, i)
    BY <1>1, <1>2, BitBelow
  <2>3. i >= m => Bit(v + Pow2[m] * y, i) = Bit(y, i - m) /\ i - m \in 0 .. c - 1
    BY <1>1, <1>2, BitAbove DEF c
  <2>4. i >= m => Bit(y, i - m) = 1
    BY <1>1, <2>3, BitOfOnes DEF y
  <2> QED BY <1>1, <1>3, <1>5, <2>1, <2>2, <2>3, <2>4
<1> QED BY <1>4, <1>5

LEMMA ByteBits ==
    ASSUME NEW k \in 2 .. 8, XLEN = 4 * k, BYTE = Pow2[k], HalfMod = Pow2[2 * k], HalfMod * BYTE = Pow2[3 * k],
           NEW x \in Word, NEW j \in 0 .. 3, NEW i \in 0 .. k - 1
    PROVE  Bit(ByteOf(x, j), i) = Bit(x, j * k + i) /\ ByteOf(x, j) \in 0 .. Pow2[k] - 1
<1>1. x \in Int /\ j * k \in Nat /\ k \in Nat /\ i \in Nat /\ i + j * k = j * k + i
  BY WordBits DEF Word
<1>2. ByteOf(x, j) = Shr(x, j * k) % Pow2[k]
  <2>1. CASE j = 0
    <3>1. x \div 1 = x /\ j * k = 0
      BY <1>1, <2>1
    <3> QED BY <2>1, <3>1, Pow2Step DEF ByteOf, Shr
  <2>2. CASE j = 1
    BY <1>1, <2>2 DEF ByteOf, Shr
  <2>3. CASE j = 2
    BY <2>3 DEF ByteOf, Shr
  <2>4. CASE j = 3
    BY <2>4 DEF ByteOf, Shr
  <2> QED BY <2>1, <2>2, <2>3, <2>4
<1> DEFINE u == Shr(x, j * k)
<1>3. u \in Int
  BY <1>1, BitIs
<1>4. Bit(u, i) = Bit(x, i + j * k)
  BY <1>1, BitShr
<1> HIDE DEF u
<1>5. Bit(u % Pow2[k], i) = Bit(u, i) /\ u % Pow2[k] \in 0 .. Pow2[k] - 1
  <2>1. Bit(u % Pow2[k], i) = Bit(u, i)
    BY <1>1, <1>3, BitMod
  <2>2. u % Pow2[k] \in 0 .. Pow2[k] - 1
    BY <1>1, <1>3, BitIs
  <2> QED BY <2>1, <2>2
<1> QED BY <1>1, <1>2, <1>4, <1>5 DEF u

\* The bits of four bytes put together are the bytes'.
LEMMA FromBytesBits ==
    ASSUME NEW k \in 2 .. 8, BYTE = Pow2[k], HalfMod = Pow2[2 * k],
           NEW f, \A j \in 0 .. 3 : f[j] \in 0 .. Pow2[k] - 1,
           NEW j \in 0 .. 3, NEW i \in 0 .. k - 1
    PROVE  Bit(FromBytes(f), j * k + i) = Bit(f[j], i)
<1> DEFINE p == Pow2[k]
           lo == f[0] + p * f[1]
           hi == f[2] + p * f[3]
<1>1. k \in Nat /\ p \in Nat /\ p > 0 /\ 2 * k \in Nat /\ Pow2[2 * k] = p * p /\ i \in Nat
  <2>1. k + k = 2 * k /\ k \in Nat /\ i \in Nat /\ 2 * k \in Nat
    OBVIOUS
  <2>2. Pow2[k] \in Nat /\ Pow2[k] > 0
    BY <2>1, Pow2Nat
  <2>3. Pow2[k + k] = Pow2[k] * Pow2[k]
    BY <2>1, Pow2Add
  <2> QED BY <2>1, <2>2, <2>3
<1>2. /\ f[0] \in 0 .. p - 1 /\ f[1] \in 0 .. p - 1 /\ f[2] \in 0 .. p - 1 /\ f[3] \in 0 .. p - 1
  OBVIOUS
<1> HIDE DEF p
<1>3. ASSUME NEW x \in 0 .. p - 1, NEW y \in 0 .. p - 1
      PROVE  /\ x + p * y \in 0 .. Pow2[2 * k] - 1
             /\ Bit(x + p * y, i) = Bit(x, i) /\ Bit(x + p * y, k + i) = Bit(y, i)
  <2>1. p * y + x \in 0 .. p * p - 1
    BY <1>1, TwoDigits
  <2>2. x + p * y = p * y + x /\ x \in Int /\ y \in Int
    BY <1>1
  <2>3. Bit(x + p * y, i) = Bit(x, i)
    BY <1>1, <2>2, BitBelow DEF p
  <2>4. Bit(x + p * y, k + i) = Bit(y, (k + i) - k) /\ (k + i) - k = i
    BY <1>1, <2>2, BitAbove DEF p
  <2> QED BY <1>1, <2>1, <2>2, <2>3, <2>4
<1>4. /\ lo \in 0 .. Pow2[2 * k] - 1 /\ Bit(lo, i) = Bit(f[0], i) /\ Bit(lo, k + i) = Bit(f[1], i)
      /\ hi \in 0 .. Pow2[2 * k] - 1 /\ Bit(hi, i) = Bit(f[2], i) /\ Bit(hi, k + i) = Bit(f[3], i)
  BY <1>2, <1>3
<1>5. FromBytes(f) = lo + Pow2[2 * k] * hi
  BY DEF FromBytes, p
<1> HIDE DEF lo, hi
<1>6. lo \in Int /\ hi \in Int
  BY <1>4, <1>1
<1>7. /\ i \in 0 .. 2 * k - 1 /\ k + i \in 0 .. 2 * k - 1 /\ i + 2 * k >= 2 * k /\ k + i + 2 * k >= 2 * k
      /\ (i + 2 * k) - 2 * k = i /\ (k + i + 2 * k) - 2 * k = k + i
      /\ i + 2 * k \in Nat /\ k + i + 2 * k \in Nat
  BY <1>1
<1>8. ASSUME NEW e \in 0 .. 2 * k - 1 PROVE Bit(FromBytes(f), e) = Bit(lo, e)
  <2> DEFINE n == 2 * k
  <2>1. n \in Nat /\ e \in 0 .. n - 1
    BY <1>1
  <2> HIDE DEF n
  <2>2. Bit(lo + Pow2[n] * hi, e) = Bit(lo, e)
    BY <1>6, <2>1, BitBelow
  <2> QED BY <1>5, <2>2 DEF n
<1>9. ASSUME NEW e \in Nat, e >= 2 * k PROVE Bit(FromBytes(f), e) = Bit(hi, e - 2 * k)
  <2> DEFINE n == 2 * k
  <2>1. n \in Nat /\ e >= n /\ lo \in 0 .. Pow2[n] - 1
    BY <1>1, <1>4, <1>9
  <2> HIDE DEF n
  <2>2. Bit(lo + Pow2[n] * hi, e) = Bit(hi, e - n)
    BY <1>6, <2>1, BitAbove
  <2> QED BY <1>5, <2>2 DEF n
<1>10. CASE j = 0
  <2>1. j * k + i = i
    BY <1>1, <1>10
  <2> QED BY <1>4, <1>7, <1>8, <1>10, <2>1
<1>11. CASE j = 1
  <2>1. j * k + i = k + i
    BY <1>1, <1>11
  <2> QED BY <1>4, <1>7, <1>8, <1>11, <2>1
<1>12. CASE j = 2
  <2>1. j * k + i = i + 2 * k
    BY <1>1, <1>12
  <2>2. Bit(FromBytes(f), i + 2 * k) = Bit(hi, (i + 2 * k) - 2 * k)
    BY <1>7, <1>9
  <2> QED BY <1>4, <1>7, <1>12, <2>1, <2>2
<1>13. CASE j = 3
  <2>1. j * k + i = k + i + 2 * k
    BY <1>1, <1>13
  <2>2. Bit(FromBytes(f), k + i + 2 * k) = Bit(hi, (k + i + 2 * k) - 2 * k)
    BY <1>7, <1>9
  <2> QED BY <1>4, <1>7, <1>13, <2>1, <2>2
<1> QED BY <1>10, <1>11, <1>12, <1>13

\* The bit a result takes from position s of x: none from outside the word.
From(x, s) == IF s \in Bits THEN Bit(x, s) ELSE 0

LEMMA FromIs ==
    ASSUME NEW x \in Word, NEW s
    PROVE  From(x, s) \in {0, 1}
<1>1. CASE s \in Bits
  <2>1. x \in Int /\ s \in Nat
    BY <1>1, WordBits DEF Word, Bits
  <2> QED BY <1>1, <2>1, BitIs DEF From
<1> QED BY <1>1 DEF From

LEMMA ShamtIs ==
    ASSUME NEW y \in Word
    PROVE  Shamt(y) \in Bits /\ Shamt(y) \in Nat
<1>1. y \in Int /\ XLEN \in Nat /\ XLEN > 0
  BY WordBits DEF Word
<1>2. y % XLEN \in 0 .. XLEN - 1
  BY <1>1, DivMod
<1> QED BY <1>1, <1>2 DEF Shamt, Bits

LEMMA ShiftBits ==
    ASSUME NEW x \in Word, NEW n \in Bits, NEW i \in Bits
    PROVE  /\ Bit(Shl(x, n), i) = From(x, i - n)
           /\ Bit(Shr(x, n), i) = From(x, i + n)
           /\ Bit(Wrap(Signed(x) \div Pow2[n]), i) = From(x, IF i + n > XLEN - 1 THEN XLEN - 1 ELSE i + n)
<1>1. x \in Int /\ n \in Nat /\ i \in Nat /\ XLEN \in Nat /\ XLEN >= 8 /\ n < XLEN /\ i < XLEN /\ i + n \in Nat
  BY WordBits DEF Word, Bits
<1>2. \A s \in Int : s \in Bits <=> s >= 0 /\ s < XLEN
  BY <1>1 DEF Bits
<1>3. Bit(Shl(x, n), i) = From(x, i - n)
  BY <1>1, <1>2, BitShl DEF From
<1>4. Bit(Shr(x, n), i) = From(x, i + n)
  <2>1. Bit(Shr(x, n), i) = Bit(x, i + n)
    BY <1>1, BitShr
  <2>2. i + n >= XLEN => Bit(x, i + n) = 0
    BY <1>1, BitOutside
  <2> QED BY <1>1, <1>2, <2>1, <2>2 DEF From
<1>5. Bit(Wrap(Signed(x) \div Pow2[n]), i) = From(x, IF i + n > XLEN - 1 THEN XLEN - 1 ELSE i + n)
  <2> DEFINE s == Signed(x)
             j == i + n
  <2>1. s \in Int
    BY <1>1, WordBits DEF Signed
  <2>2. Bit(s, j) = Bit(x, IF j > XLEN - 1 THEN XLEN - 1 ELSE j)
    BY <1>1, BitSigned
  <2> HIDE DEF s
  <2>3. Shr(s, n) \in Int /\ Bit(Shr(s, n), i) = Bit(s, j)
    <3>1. Shr(s, n) \in Int
      BY <1>1, <2>1, BitIs
    <3>2. Bit(Shr(s, n), i) = Bit(s, j)
      BY <1>1, <2>1, BitShr
    <3> QED BY <3>1, <3>2
  <2> DEFINE u == Shr(s, n)
  <2> HIDE DEF u
  <2>4. Bit(Wrap(u), i) = Bit(u, i)
    BY <2>3, BitWrap DEF Wrap, u
  <2>5. Bit(Wrap(Signed(x) \div Pow2[n]), i) = Bit(x, IF j > XLEN - 1 THEN XLEN - 1 ELSE j)
    BY <2>2, <2>3, <2>4 DEF u, Shr, s
  <2>6. (IF j > XLEN - 1 THEN XLEN - 1 ELSE j) \in Bits
    BY <1>1, <1>2
  <2> QED BY <2>5, <2>6 DEF From
<1> QED BY <1>3, <1>4, <1>5

\* A rotation is the two shifts put together: where one has a bit the other has none.
LEMMA RotateBits ==
    ASSUME NEW x \in Word, NEW n \in Bits, NEW i \in Bits
    PROVE  /\ Bit(Or(Shl(x, n), Shr(x, Complement(n))), i) = From(x, (i - n) % XLEN)
           /\ Bit(Or(Shr(x, n), Shl(x, Complement(n))), i) = From(x, (i + n) % XLEN)
<1> DEFINE m == Complement(n)
<1>1. x \in Int /\ n \in Nat /\ i \in Nat /\ XLEN \in Nat /\ XLEN >= 8 /\ n < XLEN /\ i < XLEN
  BY WordBits DEF Word, Bits
<1>2. \A s \in Int : s \in Bits <=> s >= 0 /\ s < XLEN
  BY <1>1 DEF Bits
<1>3. ASSUME NEW z \in Int, NEW q \in Int, NEW r \in Bits, z = XLEN * q + r PROVE z % XLEN = r
  BY <1>1, <1>3, DivIs DEF Bits
<1>4. m = IF n = 0 THEN 0 ELSE XLEN - n
  <2>1. CASE n = 0
    <3> DEFINE z == XLEN - n
               q == 1
               r == 0
    <3>1. z \in Int /\ q \in Int /\ r \in Bits /\ z = XLEN * q + r
      BY <1>1, <1>2, <2>1
    <3> HIDE DEF z, q, r
    <3>2. z % XLEN = r
      BY <1>3, <3>1
    <3> QED BY <2>1, <3>2 DEF z, r, Complement
  <2>2. CASE n # 0
    <3> DEFINE z == XLEN - n
               q == 0
    <3>1. z \in Int /\ q \in Int /\ z \in Bits /\ z = XLEN * q + z
      BY <1>1, <1>2, <2>2
    <3> HIDE DEF z, q
    <3>2. z % XLEN = z
      BY <1>3, <3>1
    <3> QED BY <2>2, <3>2 DEF z, Complement
  <2> QED BY <2>1, <2>2
<1>5. m \in Bits
  BY <1>1, <1>2, <1>4
<1> HIDE DEF m
<1>6. /\ Bit(Shl(x, n), i) = From(x, i - n) /\ Bit(Shr(x, m), i) = From(x, i + m)
      /\ Bit(Shr(x, n), i) = From(x, i + n) /\ Bit(Shl(x, m), i) = From(x, i - m)
  BY <1>5, ShiftBits
<1>7. \A s : From(x, s) \in {0, 1}
  BY FromIs
<1>8. /\ Bit(Or(Shl(x, n), Shr(x, m)), i) = Bool(From(x, i - n) = 1 \/ From(x, i + m) = 1)
      /\ Bit(Or(Shr(x, n), Shl(x, m)), i) = Bool(From(x, i + n) = 1 \/ From(x, i - m) = 1)
  <2>1. m \in Nat
    BY <1>1, <1>4
  <2>2. Shl(x, n) \in Word /\ Shl(x, m) \in Word
    BY <1>1, <2>1, BitShl
  <2>3. Shl(x, n) \in Int /\ Shr(x, m) \in Int /\ Shr(x, n) \in Int /\ Shl(x, m) \in Int
    BY <1>1, <2>1, <2>2, BitIs, WordBits DEF Word
  <2> QED BY <1>6, <2>3, BitwiseIs
<1>9. (i - n) % XLEN = IF i >= n THEN i - n ELSE i - n + XLEN
  <2>1. CASE i >= n
    <3> DEFINE z == i - n
               q == 0
    <3>1. z \in Int /\ q \in Int /\ z \in Bits /\ z = XLEN * q + z
      BY <1>1, <1>2, <2>1
    <3> HIDE DEF z, q
    <3>2. z % XLEN = z
      BY <1>3, <3>1
    <3> QED BY <2>1, <3>2 DEF z
  <2>2. CASE i < n
    <3> DEFINE z == i - n
               q == -1
               r == i - n + XLEN
    <3>1. z \in Int /\ q \in Int /\ r \in Bits /\ z = XLEN * q + r
      BY <1>1, <1>2, <2>2
    <3> HIDE DEF z, q, r
    <3>2. z % XLEN = r
      BY <1>3, <3>1
    <3> QED BY <1>1, <2>2, <3>2 DEF z, r
  <2> QED BY <1>1, <2>1, <2>2
<1>10. (i + n) % XLEN = IF i + n < XLEN THEN i + n ELSE i + n - XLEN
  <2>1. CASE i + n < XLEN
    <3> DEFINE z == i + n
               q == 0
    <3>1. z \in Int /\ q \in Int /\ z \in Bits /\ z = XLEN * q + z
      BY <1>1, <1>2, <2>1
    <3> HIDE DEF z, q
    <3>2. z % XLEN = z
      BY <1>3, <3>1
    <3> QED BY <2>1, <3>2 DEF z
  <2>2. CASE i + n >= XLEN
    <3> DEFINE z == i + n
               q == 1
               r == i + n - XLEN
    <3>1. z \in Int /\ q \in Int /\ r \in Bits /\ z = XLEN * q + r
      BY <1>1, <1>2, <2>2
    <3> HIDE DEF z, q, r
    <3>2. z % XLEN = r
      BY <1>3, <3>1
    <3> QED BY <1>1, <2>2, <3>2 DEF z, r
  <2> QED BY <1>1, <2>1, <2>2
<1>11. \A s \in Int : s < 0 \/ s >= XLEN => From(x, s) = 0
  BY <1>1, <1>2 DEF From
<1>12. CASE n = 0
  <2>1. i - n = i /\ i + n = i /\ i + m = i /\ i - m = i /\ (i - n) % XLEN = i /\ (i + n) % XLEN = i
    BY <1>1, <1>4, <1>9, <1>10, <1>12
  <2> QED BY <1>7, <1>8, <2>1 DEF Bool, m
<1>13. CASE n # 0
  <2>1. i + m = i - n + XLEN /\ i - m = i + n - XLEN
    BY <1>1, <1>4, <1>13
  <2>2. Bool(From(x, i - n) = 1 \/ From(x, i + m) = 1) = From(x, (i - n) % XLEN)
    <3>1. CASE i >= n
      <4>1. From(x, i + m) = 0 /\ (i - n) % XLEN = i - n
        BY <1>1, <1>9, <1>11, <2>1, <3>1
      <4> QED BY <1>7, <4>1 DEF Bool
    <3>2. CASE i < n
      <4>1. From(x, i - n) = 0 /\ (i - n) % XLEN = i + m
        BY <1>1, <1>9, <1>11, <2>1, <3>2
      <4> QED BY <1>7, <4>1 DEF Bool
    <3> QED BY <1>1, <3>1, <3>2
  <2>3. Bool(From(x, i + n) = 1 \/ From(x, i - m) = 1) = From(x, (i + n) % XLEN)
    <3>1. CASE i + n < XLEN
      <4>1. From(x, i - m) = 0 /\ (i + n) % XLEN = i + n
        BY <1>1, <1>10, <1>11, <2>1, <3>1
      <4> QED BY <1>7, <4>1 DEF Bool
    <3>2. CASE i + n >= XLEN
      <4>1. From(x, i + n) = 0 /\ (i + n) % XLEN = i - m
        BY <1>1, <1>10, <1>11, <2>1, <3>2
      <4> QED BY <1>7, <4>1 DEF Bool
    <3> QED BY <1>1, <3>1, <3>2
  <2> QED BY <1>8, <2>2, <2>3 DEF m
<1> QED BY <1>12, <1>13

\* A position of the word is a byte and a position in the byte.
LEMMA BytePlace ==
    ASSUME NEW k \in 2 .. 8, XLEN = 4 * k, NEW i \in Bits
    PROVE  /\ XLEN \div 4 = k /\ i \div k \in 0 .. 3 /\ i % k \in 0 .. k - 1
           /\ i = (i \div k) * k + (i % k)
           /\ (3 - (i \div k)) * k + (i % k) \in Bits
<1>1. k \in Nat /\ k > 0 /\ i \in Int /\ i >= 0 /\ i < 4 * k
  BY DEF Bits
<1>2. XLEN \div 4 = k
  BY <1>1
<1> DEFINE j == i \div k
           r == i % k
<1>3. i = k * j + r /\ j \in Int /\ r \in 0 .. k - 1
  BY <1>1, DivMod
<1> HIDE DEF j, r
<1>4. j \in 0 .. 3
  <2>1. j < 0 => k * j <= k * (-1)
    BY <1>1, <1>3
  <2>2. j > 3 => k * j >= k * 4
    BY <1>1, <1>3
  <2>3. k * j \in Int /\ k * (-1) = -k /\ k * 4 = 4 * k
    BY <1>1, <1>3
  <2> QED BY <1>1, <1>3, <2>1, <2>2, <2>3
<1>5. k * j = j * k /\ j * k \in Int
  BY <1>1, <1>4
<1>6. (3 - j) * k + r \in Bits
  <2>1. (3 - j) * k = 3 * k - j * k /\ j * k >= 0 /\ j * k <= 3 * k
    BY <1>1, <1>4
  <2>2. (3 - j) * k + r \in 0 .. XLEN - 1
    BY <1>1, <1>3, <1>5, <2>1
  <2> QED BY <2>2 DEF Bits
<1> QED BY <1>2, <1>3, <1>4, <1>5, <1>6 DEF j, r

LEMMA Rev8Bits ==
    ASSUME NEW x \in Word, NEW i \in Bits
    PROVE  Bit(FromBytes([j \in 0 .. 3 |-> ByteOf(x, 3 - j)]), i)
             = From(x, (3 - (i \div (XLEN \div 4))) * (XLEN \div 4) + (i % (XLEN \div 4)))
<1>1. PICK k \in 2 .. 8 : /\ XLEN = 4 * k /\ BYTE = Pow2[k] /\ HalfMod = Pow2[2 * k]
                          /\ HalfMod * BYTE = Pow2[3 * k]
  BY Sizes
<1> DEFINE j == i \div k
           r == i % k
           f == [e \in 0 .. 3 |-> ByteOf(x, 3 - e)]
<1>2. XLEN \div 4 = k /\ j \in 0 .. 3 /\ r \in 0 .. k - 1 /\ i = j * k + r /\ (3 - j) * k + r \in Bits
  BY <1>1, BytePlace
<1> HIDE DEF j, r
<1>3. \A e \in 0 .. 3 : f[e] = ByteOf(x, 3 - e) /\ 3 - e \in 0 .. 3
  OBVIOUS
<1> HIDE DEF f
<1>4. ASSUME NEW e \in 0 .. 3
      PROVE  Bit(ByteOf(x, e), r) = Bit(x, e * k + r) /\ ByteOf(x, e) \in 0 .. Pow2[k] - 1
  BY <1>1, <1>2, ByteBits
<1>5. \A e \in 0 .. 3 : f[e] \in 0 .. Pow2[k] - 1
  BY <1>3, <1>4
<1>6. Bit(FromBytes(f), j * k + r) = Bit(f[j], r)
  BY <1>1, <1>2, <1>5, FromBytesBits
<1>7. Bit(f[j], r) = Bit(x, (3 - j) * k + r)
  BY <1>2, <1>3, <1>4
<1>8. Bit(FromBytes(f), i) = From(x, (3 - j) * k + r)
  BY <1>2, <1>6, <1>7 DEF From
<1> QED BY <1>2, <1>8 DEF f, j, r

LEMMA OrcBits ==
    ASSUME NEW x \in Word, NEW i \in Bits
    PROVE  Bit(FromBytes([j \in 0 .. 3 |-> IF ByteOf(x, j) # 0 THEN BYTE - 1 ELSE 0]), i)
             = Bool(ByteOf(x, i \div (XLEN \div 4)) # 0)
<1>1. PICK k \in 2 .. 8 : XLEN = 4 * k /\ BYTE = Pow2[k] /\ HalfMod = Pow2[2 * k]
  BY Sizes
<1> DEFINE j == i \div k
           r == i % k
           f == [e \in 0 .. 3 |-> IF ByteOf(x, e) # 0 THEN BYTE - 1 ELSE 0]
<1>2. XLEN \div 4 = k /\ j \in 0 .. 3 /\ r \in 0 .. k - 1 /\ i = j * k + r
  BY <1>1, BytePlace
<1> HIDE DEF j, r
<1>3. \A e \in 0 .. 3 : f[e] = IF ByteOf(x, e) # 0 THEN Pow2[k] - 1 ELSE 0
  BY <1>1
<1> HIDE DEF f
<1>4. k \in Nat /\ r \in Nat /\ Pow2[k] \in Nat /\ Pow2[k] > 0
  <2>1. k \in Nat
    OBVIOUS
  <2> QED BY <1>2, <2>1, Pow2Nat
<1>5. \A e \in 0 .. 3 : f[e] \in 0 .. Pow2[k] - 1
  BY <1>3, <1>4
<1>6. Bit(FromBytes(f), j * k + r) = Bit(f[j], r)
  BY <1>1, <1>2, <1>5, FromBytesBits
<1>7. Bit(Pow2[k] - 1, r) = 1 /\ Bit(0, r) = 0
  BY <1>2, <1>4, BitOfOnes, BitOfZero
<1>8. Bit(FromBytes(f), i) = Bool(ByteOf(x, j) # 0)
  BY <1>2, <1>3, <1>6, <1>7 DEF Bool
<1> QED BY <1>2, <1>8 DEF f, j

LEMMA SextBits ==
    ASSUME NEW x \in Word, NEW i \in Bits
    PROVE  /\ Bit(SignExtend(x % BYTE, BYTE), i)
                = From(x, IF i < XLEN \div 4 THEN i ELSE XLEN \div 4 - 1)
           /\ Bit(SignExtend(x % HalfMod, HalfMod), i)
                = From(x, IF i < 2 * (XLEN \div 4) THEN i ELSE 2 * (XLEN \div 4) - 1)
<1>1. PICK k \in 2 .. 8 : XLEN = 4 * k /\ BYTE = Pow2[k] /\ HalfMod = Pow2[2 * k]
  BY Sizes
<1>2. XLEN \div 4 = k
  BY <1>1, BytePlace
<1>3. x \in Int /\ i \in Nat /\ i < XLEN
  BY WordBits DEF Word, Bits
<1>4. ASSUME NEW m \in 1 .. XLEN
      PROVE  Bit(SignExtend(x % Pow2[m], Pow2[m]), i) = From(x, IF i < m THEN i ELSE m - 1)
  <2>1. m \in Nat /\ m - 1 \in 0 .. m - 1 /\ XLEN \in Nat /\ m <= XLEN
    BY WordBits
  <2> DEFINE v == x % Pow2[m]
  <2>2. v \in 0 .. Pow2[m] - 1
    BY <1>3, <2>1, BitIs
  <2>3. \A e \in 0 .. m - 1 : Bit(v, e) = Bit(x, e)
    BY <1>3, <2>1, BitMod
  <2> HIDE DEF v
  <2>4. Bit(SignExtend(v, Pow2[m]), i) = IF i < m THEN Bit(v, i) ELSE Bit(v, m - 1)
    BY <2>2, SignExtendBits
  <2>5. i < m => i \in 0 .. m - 1
    BY <1>3, <2>1
  <2>6. m - 1 \in Bits
    BY <2>1 DEF Bits
  <2> QED BY <2>1, <2>3, <2>4, <2>5, <2>6 DEF From, v
<1>5. k \in 1 .. XLEN /\ 2 * k \in 1 .. XLEN
  BY <1>1
<1>6. Bit(SignExtend(x % Pow2[k], Pow2[k]), i) = From(x, IF i < k THEN i ELSE k - 1)
  BY <1>4, <1>5
<1>7. Bit(SignExtend(x % Pow2[2 * k], Pow2[2 * k]), i) = From(x, IF i < 2 * k THEN i ELSE 2 * k - 1)
  BY <1>4, <1>5
<1> QED BY <1>1, <1>2, <1>6, <1>7

\* The single-bit instructions: what a mask of one bit does to a word.
LEMMA MaskBits ==
    ASSUME NEW x \in Word, NEW n \in Bits, NEW i \in Bits
    PROVE  /\ Bit(Or(x, Shl(1, n)), i) = IF i = n THEN 1 ELSE Bit(x, i)
           /\ Bit(And(x, NotW(Shl(1, n))), i) = IF i = n THEN 0 ELSE Bit(x, i)
           /\ Bit(Xor(x, Shl(1, n)), i) = IF i = n THEN 1 - Bit(x, i) ELSE Bit(x, i)
<1> DEFINE mask == Shl(1, n)
<1>1. x \in Int /\ n \in Nat /\ i \in Nat /\ 1 \in Int
  BY WordBits DEF Word, Bits
<1>2. Bit(mask, i) = (IF i = n THEN 1 ELSE 0) /\ mask \in Word
  <2>1. Bit(mask, i) = (IF i >= n THEN Bit(1, i - n) ELSE 0) /\ mask \in Word
    BY <1>1, BitShl
  <2>2. ASSUME i >= n PROVE Bit(1, i - n) = IF i = n THEN 1 ELSE 0
    <3> DEFINE j == i - n
               z == 0
    <3>1. j \in Nat /\ z \in Nat /\ (j = z <=> i = n) /\ Pow2[z] = 1
      BY <1>1, <2>2, Pow2Step
    <3> HIDE DEF j, z
    <3>2. Bit(Pow2[z], j) = IF j = z THEN 1 ELSE 0
      BY <3>1, BitOfPow2
    <3> QED BY <3>1, <3>2 DEF j
  <2> QED BY <1>1, <2>1, <2>2
<1> HIDE DEF mask
<1>3. mask \in Int /\ NotW(mask) \in Word /\ NotW(mask) \in Int /\ Bit(NotW(mask), i) = 1 - Bit(mask, i)
  BY <1>2, BitNot, WordBits DEF Word
<1>4. Bit(x, i) \in {0, 1}
  BY <1>1, BitIs
<1>5. /\ Bit(Or(x, mask), i) = Bool(Bit(x, i) = 1 \/ Bit(mask, i) = 1)
      /\ Bit(Xor(x, mask), i) = Bool(Bit(x, i) # Bit(mask, i))
  BY <1>1, <1>3, BitwiseIs
<1>6. Bit(And(x, NotW(mask)), i) = Bool(Bit(x, i) = 1 /\ Bit(NotW(mask), i) = 1)
  BY <1>1, <1>3, BitwiseIs
<1> QED BY <1>2, <1>3, <1>4, <1>5, <1>6 DEF Bool, mask

LEMMA ExtractBit ==
    ASSUME NEW x \in Word, NEW n \in Bits
    PROVE  And(Shr(x, n), 1) = Bit(x, n)
<1> DEFINE u == Shr(x, n)
           v == Bit(x, n)
           w == And(u, 1)
<1>1. x \in Int /\ n \in Nat /\ XLEN \in Nat /\ WordMod \in Nat
  BY WordBits DEF Word, Bits
<1>2. u \in Int /\ v \in {0, 1} /\ v = u % 2 /\ 1 \in Int
  BY <1>1, BitIs DEF Bit
<1>3. \A y \in Int : Bit(y, 0) = y % 2
  <2>1. \A y \in Int : y \div 1 = y
    OBVIOUS
  <2> QED BY <2>1, Pow2Step DEF Bit, Shr
<1> HIDE DEF u, v
<1>4. w \in Word /\ \A i \in Bits : Bit(w, i) = Bool(Bit(u, i) = 1 /\ Bit(1, i) = 1)
  BY <1>2, BitwiseIs
<1> HIDE DEF w
<1>5. Pow2[1] = 2 /\ 1 \in Nat
  <2>1. Pow2[0 + 1] = 2 * Pow2[0]
    BY Pow2Step
  <2> QED BY <2>1, Pow2Step
<1>6. v \in Word
  <2>1. WordMod >= 2
    BY HalfWord
  <2> QED BY <1>1, <1>2, <2>1 DEF Word
<1>7. ASSUME NEW i \in Bits PROVE Bit(w, i) = Bit(v, i)
  <2>1. CASE i = 0
    BY <1>2, <1>3, <1>4, <2>1 DEF Bool
  <2>2. CASE i # 0
    <3>1. i \in Nat /\ i >= 1
      BY <1>1, <2>2 DEF Bits
    <3>2. 1 \in 0 .. Pow2[1] - 1 /\ v \in 0 .. Pow2[1] - 1
      BY <1>2, <1>5
    <3>3. Bit(1, i) = 0 /\ Bit(v, i) = 0
      BY <1>5, <3>1, <3>2, BitBeyond
    <3> QED BY <1>4, <3>3 DEF Bool
  <2> QED BY <2>1, <2>2
<1>8. w = v
  BY <1>4, <1>6, <1>7, WordIsBits
<1> QED BY <1>8 DEF u, v, w

LEMMA Moves == AluInv => BitsMoveTo
<1> SUFFICES ASSUME AluInv PROVE BitsMoveTo
  OBVIOUS
<1> DEFINE n == Shamt(b)
           k == XLEN \div 4
           top == XLEN - 1
<1>1. a \in Word /\ b \in Word /\ n \in Bits
  BY ShamtIs DEF AluInv
<1>2. /\ Alu("SLL") = Shl(a, n) /\ Alu("SRL") = Shr(a, n) /\ Alu("SRA") = Wrap(Signed(a) \div Pow2[n])
  BY DispatchOther DEF Alu, aluI, OpsI
<1>3. /\ Alu("ROL") = Or(Shl(a, n), Shr(a, Complement(n)))
      /\ Alu("ROR") = Or(Shr(a, n), Shl(a, Complement(n)))
      /\ Alu("REV8") = FromBytes([i \in 0 .. 3 |-> ByteOf(a, 3 - i)])
      /\ Alu("ORC_B") = FromBytes([i \in 0 .. 3 |-> IF ByteOf(a, i) # 0 THEN BYTE - 1 ELSE 0])
      /\ Alu("SEXT_B") = SignExtend(a % BYTE, BYTE) /\ Alu("SEXT_H") = SignExtend(a % HalfMod, HalfMod)
  BY ResultsZbb DEF Alu
<1>4. /\ Alu("BSET") = Or(a, Shl(1, n)) /\ Alu("BCLR") = And(a, NotW(Shl(1, n)))
      /\ Alu("BINV") = Xor(a, Shl(1, n)) /\ Alu("BEXT") = And(Shr(a, n), 1)
  BY DispatchOther DEF Alu, aluZbs, OpsZbs
<1> HIDE DEF Alu, n, k, top
<1>5. Alu("BEXT") = Bit(a, n)
  BY <1>1, <1>4, ExtractBit
<1>6. -1 \notin Bits /\ \A i \in Bits : i \in Nat /\ Bit(a, i) \in {0, 1}
  <2>1. -1 \notin Bits /\ a \in Int /\ \A i \in Bits : i \in Nat
    BY <1>1, WordBits DEF Bits, Word
  <2> QED BY <2>1, BitIs
<1>7. ASSUME NEW i \in Bits
      PROVE  /\ Bit(Alu("SLL"), i) = From(a, i - n) /\ Bit(Alu("SRL"), i) = From(a, i + n)
             /\ Bit(Alu("SRA"), i) = From(a, IF i + n > top THEN top ELSE i + n)
             /\ Bit(Alu("ROL"), i) = From(a, (i - n) % XLEN) /\ Bit(Alu("ROR"), i) = From(a, (i + n) % XLEN)
             /\ Bit(Alu("REV8"), i) = From(a, (3 - (i \div k)) * k + (i % k))
             /\ Bit(Alu("SEXT_B"), i) = From(a, IF i < k THEN i ELSE k - 1)
             /\ Bit(Alu("SEXT_H"), i) = From(a, IF i < 2 * k THEN i ELSE 2 * k - 1)
             /\ Bit(Alu("ORC_B"), i) = Bool(ByteOf(a, i \div k) # 0)
             /\ Bit(Alu("BSET"), i) = From(a, IF i = n THEN -1 ELSE i) \/ (i = n /\ Bit(Alu("BSET"), i) = 1)
             /\ Bit(Alu("BCLR"), i) = From(a, IF i = n THEN -1 ELSE i)
             /\ (Bit(Alu("BINV"), i) = Bit(a, i)) = (i # n)
             /\ Alu("BEXT") = Bit(a, n)
  <2>1. /\ Bit(Alu("SLL"), i) = From(a, i - n) /\ Bit(Alu("SRL"), i) = From(a, i + n)
        /\ Bit(Alu("SRA"), i) = From(a, IF i + n > top THEN top ELSE i + n)
    BY <1>1, <1>2, ShiftBits DEF top
  <2>2. Bit(Alu("ROL"), i) = From(a, (i - n) % XLEN) /\ Bit(Alu("ROR"), i) = From(a, (i + n) % XLEN)
    BY <1>1, <1>3, RotateBits
  <2>3. Bit(Alu("REV8"), i) = From(a, (3 - (i \div k)) * k + (i % k))
    BY <1>1, <1>3, Rev8Bits, Zenon DEF k
  <2>4. Bit(Alu("ORC_B"), i) = Bool(ByteOf(a, i \div k) # 0)
    BY <1>1, <1>3, OrcBits, Zenon DEF k
  <2>5. /\ Bit(Alu("SEXT_B"), i) = From(a, IF i < k THEN i ELSE k - 1)
        /\ Bit(Alu("SEXT_H"), i) = From(a, IF i < 2 * k THEN i ELSE 2 * k - 1)
    BY <1>1, <1>3, SextBits DEF k
  <2>6. /\ Bit(Alu("BSET"), i) = IF i = n THEN 1 ELSE Bit(a, i)
        /\ Bit(Alu("BCLR"), i) = IF i = n THEN 0 ELSE Bit(a, i)
        /\ Bit(Alu("BINV"), i) = IF i = n THEN 1 - Bit(a, i) ELSE Bit(a, i)
    BY <1>1, <1>4, MaskBits
  <2>7. /\ Bit(Alu("BSET"), i) = From(a, IF i = n THEN -1 ELSE i) \/ (i = n /\ Bit(Alu("BSET"), i) = 1)
        /\ Bit(Alu("BCLR"), i) = From(a, IF i = n THEN -1 ELSE i)
        /\ (Bit(Alu("BINV"), i) = Bit(a, i)) = (i # n)
    BY <1>6, <2>6 DEF From
  <2> QED BY <1>5, <2>1, <2>2, <2>3, <2>4, <2>5, <2>7
<1> QED BY <1>5, <1>7 DEF BitsMoveTo, From, n, k, top

-----------------------------------------------------------------------------
(* Counting bits. *)

LEMMA Interval ==
    ASSUME NEW m \in Nat, NEW n \in Nat, m <= n
    PROVE  Cardinality(m .. n - 1) = n - m /\ IsFiniteSet(m .. n - 1)
<1> DEFINE e == n - 1
<1>1. m \in Int /\ e \in Int
  OBVIOUS
<1> HIDE DEF e
<1>2. IsFiniteSet(m .. e) /\ Cardinality(m .. e) = IF m > e THEN 0 ELSE e - m + 1
  BY <1>1, FS_Interval
<1> QED BY <1>2 DEF e

\* Nothing is left of a word above the width that holds it.
LEMMA LeadingZeros ==
    ASSUME NEW x \in Word
    PROVE  /\ Clz(x) \in 0 .. XLEN /\ x < Pow2[XLEN - Clz(x)]
           /\ x # 0 => Clz(x) < XLEN /\ x >= Pow2[XLEN - Clz(x) - 1]
<1> DEFINE T == {n \in Nat : x < Pow2[n]}
<1>1. x \in Nat /\ XLEN \in Nat /\ XLEN \in T
  BY WordBits DEF Word
<1>2. PICK w \in T : \A k \in T : w <= k
  BY <1>1, LeastNat
<1>3. w \in Nat /\ w <= XLEN /\ x < Pow2[w] /\ \A k \in Nat : k < w => ~(x < Pow2[k])
  BY <1>1, <1>2
<1>4. ASSUME NEW n \in Nat PROVE Shr(x, n) = 0 <=> w <= n
  <2>1. Pow2[n] \in Nat /\ Pow2[n] > 0 /\ Pow2[w] \in Nat
    BY <1>3, Pow2Nat
  <2>2. ASSUME w <= n PROVE Shr(x, n) = 0
    <3>1. w < n => Pow2[w] < Pow2[n]
      BY <1>3, Pow2Below
    <3>2. x \in 0 .. Pow2[n] - 1
      BY <1>1, <1>3, <2>1, <2>2, <3>1
    <3> DEFINE q == 0
    <3>3. x \in Int /\ q \in Int /\ x = Pow2[n] * q + x
      BY <1>1, <2>1
    <3> HIDE DEF q
    <3>4. Shr(x, n) = q
      BY <3>2, <3>3, BitOf
    <3> QED BY <3>4 DEF q
  <2>3. ASSUME Shr(x, n) = 0 PROVE w <= n
    <3>0. x \in Int
      BY <1>1
    <3>1. x = Pow2[n] * Shr(x, n) + (x % Pow2[n]) /\ x % Pow2[n] \in 0 .. Pow2[n] - 1
      BY <3>0, BitIs
    <3>2. Pow2[n] * 0 = 0
      BY <2>1
    <3>3. x < Pow2[n]
      BY <2>1, <2>3, <3>1, <3>2
    <3> QED BY <1>3, <3>3
  <2> QED BY <2>2, <2>3
<1>5. {n \in 0 .. XLEN - 1 : Shr(x, n) = 0} = w .. XLEN - 1
  <2>1. \A n \in 0 .. XLEN - 1 : n \in Nat
    BY <1>1
  <2>2. \A n : n \in w .. XLEN - 1 <=> n \in 0 .. XLEN - 1 /\ w <= n
    BY <1>1, <1>3
  <2> QED BY <1>4, <2>1, <2>2
<1>6. Clz(x) = XLEN - w
  BY <1>1, <1>3, <1>5, Interval DEF Clz
<1>7. XLEN - Clz(x) = w /\ Clz(x) \in 0 .. XLEN
  BY <1>1, <1>3, <1>6
<1>8. ASSUME x # 0 PROVE Clz(x) < XLEN /\ x >= Pow2[w - 1]
  <2>1. w # 0
    BY <1>1, <1>3, <1>8, Pow2Step
  <2>2. w - 1 \in Nat /\ w - 1 < w /\ Pow2[w - 1] \in Nat
    <3>1. w - 1 \in Nat /\ w - 1 < w
      BY <1>3, <2>1
    <3> QED BY <3>1, Pow2Nat
  <2>3. ~(x < Pow2[w - 1])
    BY <1>3, <2>2
  <2> QED BY <1>1, <1>3, <1>6, <2>1, <2>2, <2>3
<1> QED BY <1>3, <1>7, <1>8

\* A word other than zero has a lowest bit that is set.
LEMMA LowestBit ==
    ASSUME NEW x \in Word, x # 0
    PROVE  \E t \in Bits : Bit(x, t) = 1 /\ \A i \in 0 .. t - 1 : Bit(x, i) = 0
<1> DEFINE T == {n \in Bits : Bit(x, n) = 1}
<1>1. x \in Int /\ XLEN \in Nat /\ 0 \in Word
  BY WordBits DEF Word
<1>2. \A n \in Bits : n \in Nat /\ Bit(x, n) \in {0, 1} /\ Bit(0, n) = 0
  <2>1. \A n \in Bits : n \in Nat
    BY <1>1 DEF Bits
  <2> QED BY <1>1, <2>1, BitIs, BitOfZero
<1>3. T # {}
  <2> SUFFICES ASSUME T = {} PROVE FALSE
    OBVIOUS
  <2>1. \A n \in Bits : Bit(x, n) = Bit(0, n)
    BY <1>2
  <2> QED BY <1>1, <2>1, WordIsBits
<1>4. T \in SUBSET Nat
  BY <1>2
<1>5. PICK t \in T : \A k \in T : t <= k
  BY <1>3, <1>4, LeastNat
<1>6. ASSUME NEW i \in 0 .. t - 1 PROVE Bit(x, i) = 0
  <2>1. i \in Bits /\ ~(t <= i)
    BY <1>1, <1>5 DEF Bits
  <2> QED BY <1>2, <1>5, <2>1
<1> QED BY <1>5, <1>6

\* The powers of two that divide a word are the ones up to its lowest set bit.
LEMMA TrailingZeros ==
    ASSUME NEW x \in Word, NEW t \in Bits, Bit(x, t) = 1, \A i \in 0 .. t - 1 : Bit(x, i) = 0
    PROVE  Ctz(x) = t /\ x % Pow2[t] = 0
<1>1. x \in Int /\ XLEN \in Nat /\ t \in Nat /\ t < XLEN
  BY WordBits DEF Word, Bits
<1>2. ASSUME NEW n \in Nat, n <= t PROVE x % Pow2[n] = 0
  <2> DEFINE r == x % Pow2[n]
             z == 0
  <2>0. Pow2[n] \in Nat /\ Pow2[n] > 0
    BY Pow2Nat
  <2>1. r \in 0 .. Pow2[n] - 1 /\ z \in 0 .. Pow2[n] - 1
    <3>1. r \in 0 .. Pow2[n] - 1
      BY <1>1, BitIs
    <3> HIDE DEF r
    <3>2. z \in 0 .. Pow2[n] - 1
      BY <2>0
    <3> QED BY <3>1, <3>2
  <2>2. ASSUME NEW i \in 0 .. n - 1 PROVE Bit(r, i) = Bit(z, i)
    <3>1. i \in Nat /\ i \in 0 .. t - 1
      BY <1>1, <1>2
    <3>2. Bit(r, i) = Bit(x, i)
      BY <1>1, BitMod
    <3> QED BY <3>1, <3>2, BitOfZero
  <2> HIDE DEF r, z
  <2>3. r = z
    BY <2>1, <2>2, SameBits
  <2> QED BY <2>3 DEF r, z
<1>3. ASSUME NEW n \in Nat, n > t PROVE x % Pow2[n] # 0
  <2>1. t \in 0 .. n - 1
    BY <1>1, <1>3
  <2>2. Bit(x % Pow2[n], t) = 1 /\ Bit(0, t) = 0
    BY <1>1, <2>1, BitMod, BitOfZero
  <2> QED BY <2>2
<1>4. {n \in 1 .. XLEN : x % Pow2[n] = 0} = 1 .. (t + 1) - 1
  <2>1. \A n \in 1 .. XLEN : n \in Nat /\ (x % Pow2[n] = 0 <=> n <= t)
    BY <1>1, <1>2, <1>3
  <2>2. \A n : n \in 1 .. (t + 1) - 1 <=> n \in 1 .. XLEN /\ n <= t
    BY <1>1
  <2> QED BY <2>1, <2>2
<1>5. Ctz(x) = t
  <2> DEFINE m == 1
             e == t + 1
  <2>1. m \in Nat /\ e \in Nat /\ m <= e
    BY <1>1
  <2> HIDE DEF m, e
  <2>2. Cardinality(m .. e - 1) = e - m
    BY <2>1, Interval
  <2>3. Ctz(x) = Cardinality(m .. e - 1)
    BY <1>4, Zenon DEF Ctz, m, e
  <2>4. e - m = t
    BY <1>1 DEF m, e
  <2> QED BY <2>2, <2>3, <2>4
<1> QED BY <1>1, <1>2, <1>5

\* x & (x - 1) clears the lowest set bit, so ~x & (x - 1) has the bits below it.
LEMMA BelowLowest ==
    ASSUME NEW x \in Word, NEW t \in Bits, Bit(x, t) = 1, \A i \in 0 .. t - 1 : Bit(x, i) = 0
    PROVE  Cpop(And(NotW(x), Wrap(x - 1))) = t
<1> DEFINE p == Pow2[t]
           q == Shr(x, t)
           m == q \div 2
           y == And(NotW(x), Wrap(x - 1))
<1>1. x \in Int /\ XLEN \in Nat /\ t \in Nat /\ t < XLEN /\ p \in Nat /\ p > 0
  <2>1. x \in Int /\ XLEN \in Nat /\ t \in Nat /\ t < XLEN
    BY WordBits DEF Word, Bits
  <2> QED BY <2>1, Pow2Nat
<1>2. x = p * q + 0 /\ q \in Int /\ q % 2 = 1
  <2>1. x % p = 0
    BY TrailingZeros
  <2> QED BY <1>1, <2>1, BitIs DEF Bit
<1> HIDE DEF q
<1>3. q = 2 * m + 1 /\ m \in Int
  BY <1>2
<1> HIDE DEF m, p
<1>4. x - 1 = (p - 1) + p * (2 * m) /\ x = 0 + p * q /\ p - 1 \in 0 .. p - 1 /\ 0 \in 0 .. p - 1
  <2>1. p * (2 * m + 1) = p * (2 * m) + p
    BY <1>1, <1>3
  <2> QED BY <1>1, <1>2, <1>3, <2>1
<1>5. NotW(x) \in Int /\ Wrap(x - 1) \in Int
  <2>1. NotW(x) \in Word /\ x - 1 \in Int
    BY <1>1, BitNot
  <2>2. Wrap(x - 1) \in Word
    BY <2>1, WrapIs
  <2> QED BY <2>1, <2>2, WordBits DEF Word
<1>6. ASSUME NEW i \in Bits PROVE Bit(y, i) = 1 <=> i < t
  <2>1. i \in Nat
    BY <1>1 DEF Bits
  <2>2. Bit(Wrap(x - 1), i) = Bit(x - 1, i) /\ Bit(NotW(x), i) = 1 - Bit(x, i)
    BY <1>1, BitWrap, BitNot DEF Wrap
  <2>3. Bit(y, i) = Bool(1 - Bit(x, i) = 1 /\ Bit(x - 1, i) = 1)
    BY <1>5, <2>2, BitwiseIs
  <2>4. CASE i < t
    <3>1. i \in 0 .. t - 1 /\ Bit(x, i) = 0
      BY <2>1, <2>4
    <3>2. Bit(x - 1, i) = 1
      <4> DEFINE u == p - 1
                 v == 2 * m
      <4>1. u \in Int /\ v \in Int
        BY <1>1, <1>3
      <4>2. Bit(u, i) = 1
        BY <1>1, <3>1, BitOfOnes DEF p
      <4> HIDE DEF u, v
      <4>3. Bit(u + Pow2[t] * v, i) = Bit(u, i)
        BY <1>1, <3>1, <4>1, BitBelow
      <4> QED BY <1>4, <4>2, <4>3 DEF u, v, p
    <3> QED BY <2>3, <2>4, <3>1, <3>2 DEF Bool
  <2>5. CASE i = t
    BY <1>1, <2>3, <2>5 DEF Bool
  <2>6. CASE i > t
    <3> DEFINE j == i - t
               v == 2 * m
               u == p - 1
               z == 0
    <3>1. j \in Nat /\ j >= 1 /\ v \in Int /\ u \in 0 .. Pow2[t] - 1 /\ z \in 0 .. Pow2[t] - 1 /\ i >= t
      BY <1>1, <1>3, <1>4, <2>1, <2>6 DEF p
    <3>2. Bit(v, j) = Bit(q, j)
      <4> DEFINE c == 0
                 d == 1
      <4>1. Pow2[d] = 2 /\ d \in Nat
        <5>1. Pow2[0 + 1] = 2 * Pow2[0]
          BY Pow2Step
        <5> QED BY <5>1, Pow2Step
      <4>2. c \in 0 .. Pow2[d] - 1 /\ d \in 0 .. Pow2[d] - 1 /\ j >= d
        BY <3>1, <4>1
      <4>3. v = c + Pow2[d] * m /\ q = d + Pow2[d] * m
        BY <1>3, <4>1
      <4> HIDE DEF c, d, v, j
      <4>4. Bit(c + Pow2[d] * m, j) = Bit(m, j - d) /\ Bit(d + Pow2[d] * m, j) = Bit(m, j - d)
        BY <1>3, <3>1, <4>1, <4>2, BitAbove
      <4> QED BY <4>3, <4>4
    <3>3. x - 1 = u + Pow2[t] * v /\ x = z + Pow2[t] * q
      BY <1>4 DEF p
    <3> HIDE DEF u, v, z
    <3>4. Bit(u + Pow2[t] * v, i) = Bit(v, i - t) /\ Bit(z + Pow2[t] * q, i) = Bit(q, i - t)
      BY <1>1, <1>2, <2>1, <3>1, BitAbove
    <3>5. Bit(x - 1, i) = Bit(x, i) /\ Bit(x, i) \in {0, 1}
      BY <1>1, <2>1, <3>2, <3>3, <3>4, BitIs
    <3> QED BY <2>1, <1>1, <2>3, <2>6, <3>5 DEF Bool
  <2> QED BY <1>1, <2>1, <2>4, <2>5, <2>6
<1>7. {n \in 0 .. XLEN - 1 : Bit(y, n) = 1} = 0 .. t - 1
  <2>1. \A n : n \in 0 .. t - 1 <=> n \in Bits /\ n < t
    BY <1>1 DEF Bits
  <2> HIDE DEF y
  <2> QED BY <1>6, <2>1 DEF Bits
<1> HIDE DEF y
<1>8. Cpop(y) = t - 0
  <2>1. Cpop(y) = Cardinality(0 .. t - 1)
    BY <1>7, Zenon DEF Cpop
  <2>2. Cardinality(0 .. t - 1) = t - 0
    BY <1>1, Interval
  <2> QED BY <2>1, <2>2
<1> QED BY <1>1, <1>8 DEF y

LEMMA PopulationOfNot ==
    ASSUME NEW x \in Word
    PROVE  Cpop(x) + Cpop(NotW(x)) = XLEN
<1> DEFINE S == {n \in 0 .. XLEN - 1 : Bit(x, n) = 1}
           T == {n \in 0 .. XLEN - 1 : Bit(NotW(x), n) = 1}
<1>1. XLEN \in Nat /\ x \in Int
  BY WordBits DEF Word
<1>2. \A n \in 0 .. XLEN - 1 : Bit(NotW(x), n) = 1 - Bit(x, n) /\ Bit(x, n) \in {0, 1}
  <2>1. \A n \in 0 .. XLEN - 1 : n \in Bits /\ n \in Nat
    BY <1>1 DEF Bits
  <2> QED BY <1>1, <2>1, BitNot, BitIs
<1>3. T = (0 .. XLEN - 1) \ S /\ (0 .. XLEN - 1) \cap S = S
  BY <1>2
<1>4. Cardinality(0 .. XLEN - 1) = XLEN /\ IsFiniteSet(0 .. XLEN - 1)
  <2>1. Cardinality(0 .. XLEN - 1) = XLEN - 0 /\ IsFiniteSet(0 .. XLEN - 1)
    BY <1>1, Interval
  <2> QED BY <1>1, <2>1
<1>5. IsFiniteSet(S)
  BY <1>4, FS_Subset
<1>6. Cardinality(S) \in Nat
  BY <1>5, FS_CardinalityType
<1> DEFINE U == 0 .. XLEN - 1
<1>7. Cardinality(U \ S) = Cardinality(U) - Cardinality(U \cap S)
  BY <1>4, FS_Difference
<1> HIDE DEF S, T
<1>8. Cardinality(T) = XLEN - Cardinality(S)
  BY <1>3, <1>4, <1>7
<1> QED BY <1>1, <1>6, <1>8 DEF Cpop, S, T

LEMMA Counts == AluInv => CountsAgree
<1> SUFFICES ASSUME AluInv PROVE CountsAgree
  OBVIOUS
<1> DEFINE c == Clz(a)
           t == Ctz(a)
<1>1. a \in Word /\ XLEN \in Nat /\ WordMod = Pow2[XLEN] /\ WordMod \in Nat /\ WordMod > 0
  BY WordBits DEF AluInv
<1>2. /\ Alu("CLZ") = c /\ Alu("CTZ") = t /\ Alu("CPOP") = Cpop(a)
      /\ AluResult("CPOP", And(NotW(a), Wrap(a - 1)), 0) = Cpop(And(NotW(a), Wrap(a - 1)))
      /\ AluResult("CPOP", NotW(a), 0) = Cpop(NotW(a))
  BY ResultsZbb DEF Alu
<1>3. a < Pow2[XLEN - c] /\ (a # 0 => a >= Pow2[XLEN - c - 1])
  BY <1>1, LeadingZeros
<1>4. Cpop(a) + Cpop(NotW(a)) = XLEN
  BY <1>1, PopulationOfNot
<1>5. /\ a % Pow2[t] = 0 /\ (IF a = 0 THEN t = XLEN ELSE Bit(a, t) = 1)
      /\ t = Cpop(And(NotW(a), Wrap(a - 1)))
  <2>1. CASE a # 0
    <3>1. PICK s \in Bits : Bit(a, s) = 1 /\ \A i \in 0 .. s - 1 : Bit(a, i) = 0
      BY <1>1, <2>1, LowestBit
    <3>2. t = s /\ a % Pow2[s] = 0
      BY <1>1, <3>1, TrailingZeros
    <3>3. Cpop(And(NotW(a), Wrap(a - 1))) = s
      BY <1>1, <3>1, BelowLowest
    <3> QED BY <2>1, <3>1, <3>2, <3>3
  <2>2. CASE a = 0
    <3>1. \A n \in Nat : 0 % Pow2[n] = 0
      <4>1. \A d \in Nat : d > 0 => 0 % d = 0
        OBVIOUS
      <4> QED BY <4>1, Pow2Nat
    <3>2. {n \in 1 .. XLEN : a % Pow2[n] = 0} = 1 .. (XLEN + 1) - 1
      <4>1. \A n \in 1 .. XLEN : n \in Nat
        BY <1>1
      <4>2. (XLEN + 1) - 1 = XLEN
        BY <1>1
      <4> QED BY <2>2, <3>1, <4>1, <4>2
    <3>3. t = XLEN
      <4> DEFINE m == 1
                 e == XLEN + 1
      <4>1. m \in Nat /\ e \in Nat /\ m <= e
        BY <1>1
      <4> HIDE DEF m, e
      <4>2. Cardinality(m .. e - 1) = e - m
        BY <4>1, Interval
      <4>3. t = Cardinality(m .. e - 1)
        BY <3>2, Zenon DEF Ctz, m, e
      <4>4. e - m = XLEN
        BY <1>1 DEF m, e
      <4> QED BY <4>2, <4>3, <4>4
    <3> DEFINE y == And(NotW(a), Wrap(a - 1))
               u == a - 1
    <3>4. NotW(a) \in Int /\ Wrap(u) \in Int /\ u \in Int /\ u = -1
      <4>1. NotW(a) \in Word /\ u \in Int /\ u = -1
        BY <1>1, <2>2 DEF NotW, Word
      <4>2. Wrap(u) \in Word
        BY <4>1, WrapIs
      <4> QED BY <1>1, <4>1, <4>2 DEF Word
    <3> HIDE DEF u
    <3>5. ASSUME NEW i \in Bits PROVE Bit(y, i) = 1
      <4>1. i \in Nat
        BY <1>1 DEF Bits
      <4>2. Bit(NotW(a), i) = 1 - Bit(a, i) /\ Bit(a, i) = 0
        BY <1>1, <2>2, <4>1, BitNot, BitOfZero
      <4>3. Bit(Wrap(u), i) = 1
        BY <3>4, <4>1, BitWrap, BitOfMinusOne DEF Wrap
      <4>4. Bit(y, i) = Bool(Bit(NotW(a), i) = 1 /\ Bit(Wrap(u), i) = 1)
        BY <3>4, BitwiseIs DEF u
      <4> QED BY <4>2, <4>3, <4>4 DEF Bool
    <3> HIDE DEF y
    <3>6. {n \in 0 .. XLEN - 1 : Bit(y, n) = 1} = 0 .. XLEN - 1
      BY <3>5 DEF Bits
    <3>7. Cardinality(0 .. XLEN - 1) = XLEN - 0
      BY <1>1, Interval
    <3>8. Cpop(y) = XLEN
      <4>1. Cpop(y) = Cardinality(0 .. XLEN - 1)
        BY <3>6, Zenon DEF Cpop
      <4> QED BY <1>1, <3>7, <4>1
    <3>9. a % Pow2[t] = 0
      BY <1>1, <2>2, <3>1, <3>3
    <3> QED BY <2>2, <3>3, <3>8, <3>9 DEF y
  <2> QED BY <2>1, <2>2
<1> HIDE DEF Alu, c, t
<1> QED BY <1>2, <1>3, <1>4, <1>5 DEF CountsAgree

-----------------------------------------------------------------------------
(* The theorems. *)

LEMMA OperandsAreWords == Spec => []AluInv
<1>1. WordMod \in Nat /\ WordMod > 0
  BY WordBits
<1>2. Init => AluInv
  BY <1>1 DEF Init, AluInv, Word
<1>3. AluInv /\ [Next]_<<a, b>> => AluInv'
  <2> SUFFICES ASSUME AluInv, [Next]_<<a, b>> PROVE AluInv'
    OBVIOUS
  <2>1. CASE Next
    <3>1. a \in 0 .. WordMod - 1 /\ a < WordMod - 1 /\ a' = a + 1 /\ b' = b
      BY <2>1 DEF Next, AluInv, Word
    <3>2. a' \in 0 .. WordMod - 1
      BY <1>1, <3>1
    <3> QED BY <3>1, <3>2 DEF AluInv, Word
  <2>2. CASE UNCHANGED <<a, b>>
    BY <2>2 DEF AluInv
  <2> QED BY <2>1, <2>2
<1> QED BY <1>2, <1>3, PTL DEF Spec

\* For words of 8 to 32 bits and every pair of operands rv32m's DIV/REM and DIVU/REMU are
\* one exact division, a zero divisor and the overflowing quotient included.
THEOREM DivisionAlwaysExact == Spec => []DivisionExact
  BY OperandsAreWords, Divisions, PTL

\* For words of 8 to 32 bits and every pair of operands MUL with MULH, MULHSU and MULHU is
\* the double-width product of rv32m under each of the three readings of the signs.
THEOREM ProductAlwaysWhole == Spec => []ProductHalves
  BY OperandsAreWords, Halves, PTL

\* For words of 8 to 32 bits and every pair of operands each bit that a shift, rotation,
\* byte permutation, sign extension or single-bit instruction of executeI, zbb
\* and zbs writes comes from the position the instruction names.
THEOREM BitsAlwaysMoveTo == Spec => []BitsMoveTo
  BY OperandsAreWords, Moves, PTL

\* For words of 8 to 32 bits zbb's CLZ, CTZ and CPOP bracket the word and
\* agree with one another.
THEOREM CountsAlwaysAgree == Spec => []CountsAgree
  BY OperandsAreWords, Counts, PTL

\* For words of 8 to 32 bits and every pair of operands zbb's MIN/MAX, the AMOs of rv32a
\* and SLT/SLTU order the pair in one way, across the sign boundary.
THEOREM OrdersAlwaysAgree == Spec => []OrdersAgree
  BY OperandsAreWords, Orders, PTL

-----------------------------------------------------------------------------
(* Every result is a word. *)

LEMMA Pow2Beyond == \A n \in Nat : n < Pow2[n]
<1> DEFINE S == {n \in Nat : n < Pow2[n]}
<1>1. 0 \in S
  BY Pow2Step
<1>2. ASSUME NEW n \in S PROVE n + 1 \in S
  <2>1. Pow2[n + 1] = 2 * Pow2[n] /\ Pow2[n] \in Nat /\ n \in Nat /\ n < Pow2[n]
    BY <1>2, Pow2Step, Pow2Nat
  <2> QED BY <2>1
<1> HIDE DEF S
<1>3. S = Nat
  BY <1>1, <1>2, Induction DEF S
<1> QED BY <1>3 DEF S

LEMMA PartsAreWords ==
    ASSUME NEW x \in Word
    PROVE  /\ x \in Int /\ 0 \in Word /\ 1 \in Word
           /\ \A n \in Nat : Shr(x, n) \in Word /\ Shl(x, n) \in Word
           /\ Clz(x) \in Word /\ Ctz(x) \in Word /\ Cpop(x) \in Word
<1>1. XLEN \in Nat /\ WordMod \in Nat /\ x \in Nat /\ x < WordMod /\ 0 \in Bits /\ XLEN < WordMod /\ WordMod > 1
  BY WordBits, Pow2Beyond DEF Word, Bits
<1>2. ASSUME NEW n \in Nat PROVE Shr(x, n) \in Word
  <2>1. Pow2[n] \in Nat /\ Pow2[n] > 0
    BY Pow2Nat
  <2> DEFINE d == Pow2[n]
             q == x \div d
  <2>2. d \in Nat /\ d >= 1 /\ q \in Nat /\ d * q <= x
    BY <1>1, <2>1, DivNat
  <2> HIDE DEF d, q
  <2>3. d * q >= 1 * q
    BY <2>2
  <2>4. q \in Word
    BY <1>1, <2>2, <2>3 DEF Word
  <2> QED BY <2>4 DEF Shr, d, q
<1>3. ASSUME NEW n \in Nat PROVE Shl(x, n) \in Word
  BY <1>1, BitShl
<1>4. ASSUME NEW S, IsFiniteSet(S), Cardinality(S) = XLEN, NEW T \in SUBSET S PROVE Cardinality(T) \in Word
  <2>1. IsFiniteSet(T) /\ Cardinality(T) <= XLEN
    BY <1>4, FS_Subset
  <2>2. Cardinality(T) \in Nat
    BY <2>1, FS_CardinalityType
  <2> QED BY <1>1, <2>1, <2>2 DEF Word
<1>5. ASSUME NEW m \in {0, 1}, NEW e \in Int, e = XLEN + m
      PROVE  IsFiniteSet(m .. e - 1) /\ Cardinality(m .. e - 1) = XLEN
  <2>1. m \in Nat /\ e \in Nat /\ m <= e /\ e - m = XLEN
    BY <1>1, <1>5
  <2> QED BY <2>1, Interval
<1>6. Clz(x) \in Word /\ Cpop(x) \in Word
  <2> DEFINE S == 0 .. XLEN - 1
  <2>1. IsFiniteSet(S) /\ Cardinality(S) = XLEN
    BY <1>1, <1>5
  <2> HIDE DEF S
  <2>2. {n \in S : Shr(x, n) = 0} \in SUBSET S /\ {n \in S : Bit(x, n) = 1} \in SUBSET S
    OBVIOUS
  <2>3. Cardinality({n \in S : Shr(x, n) = 0}) \in Word /\ Cardinality({n \in S : Bit(x, n) = 1}) \in Word
    BY <1>4, <2>1, <2>2, Zenon
  <2> QED BY <2>3, Zenon DEF Clz, Cpop, S
<1>7. Ctz(x) \in Word
  <2> DEFINE S == 1 .. XLEN
             e == XLEN + 1
  <2>1. S = 1 .. e - 1 /\ e \in Int
    BY <1>1
  <2>2. IsFiniteSet(S) /\ Cardinality(S) = XLEN
    BY <1>5, <2>1
  <2> HIDE DEF S
  <2>3. {n \in S : x % Pow2[n] = 0} \in SUBSET S
    OBVIOUS
  <2>4. Cardinality({n \in S : x % Pow2[n] = 0}) \in Word
    BY <1>4, <2>2, <2>3, Zenon
  <2> QED BY <2>4, Zenon DEF Ctz, S
<1> QED BY <1>1, <1>2, <1>3, <1>6, <1>7 DEF Word

LEMMA ExtendedAreWords ==
    ASSUME NEW x \in Word
    PROVE  /\ SignExtend(x % BYTE, BYTE) \in Word /\ SignExtend(x % HalfMod, HalfMod) \in Word
           /\ x % HalfMod \in Word
<1>1. PICK k \in 2 .. 8 : XLEN = 4 * k /\ BYTE = Pow2[k] /\ HalfMod = Pow2[2 * k]
  BY Sizes
<1>2. x \in Int /\ XLEN \in Nat /\ WordMod \in Nat /\ WordMod = Pow2[XLEN]
  BY WordBits DEF Word
<1>3. ASSUME NEW m \in 0 .. XLEN - 1
      PROVE  SignExtend(x % Pow2[m], Pow2[m]) \in Word /\ x % Pow2[m] \in Word
  <2>1. m \in Nat /\ Pow2[m] < Pow2[XLEN]
    BY <1>2, Pow2Below
  <2>2. x % Pow2[m] \in 0 .. Pow2[m] - 1 /\ Pow2[m] \in Nat
    BY <1>2, <2>1, BitIs
  <2> DEFINE v == x % Pow2[m]
             p == Pow2[m]
  <2>3. v \in 0 .. p - 1 /\ p \in Nat /\ p < WordMod
    BY <1>2, <2>1, <2>2
  <2> HIDE DEF v, p
  <2>4. v \in Word /\ v + (WordMod - p) \in Word
    BY <1>2, <2>3 DEF Word
  <2>5. SignExtend(v, p) \in Word
    BY <2>4 DEF SignExtend
  <2> QED BY <2>4, <2>5 DEF v, p
<1>4. k \in 0 .. XLEN - 1 /\ 2 * k \in 0 .. XLEN - 1
  BY <1>1
<1>5. SignExtend(x % Pow2[k], Pow2[k]) \in Word
  BY <1>3, <1>4
<1>6. SignExtend(x % Pow2[2 * k], Pow2[2 * k]) \in Word /\ x % Pow2[2 * k] \in Word
  BY <1>3, <1>4
<1> QED BY <1>1, <1>5, <1>6

LEMMA BytesAreWords ==
    ASSUME NEW f, \A j \in 0 .. 3 : f[j] \in 0 .. BYTE - 1
    PROVE  FromBytes(f) \in Word
<1> DEFINE lo == f[0] + BYTE * f[1]
           hi == f[2] + BYTE * f[3]
<1>1. BYTE \in Nat /\ HalfMod \in Nat /\ BYTE > 0 /\ HalfMod > 0
  <2>1. BYTE \in Nat /\ BYTE > 0
    BY ByteAssumption
  <2>2. BYTE * BYTE \in Nat /\ BYTE * BYTE > 0
    BY <2>1
  <2> QED BY <2>1, <2>2 DEF HalfMod
<1>2. ASSUME NEW d \in Nat, d > 0, NEW u \in 0 .. d - 1, NEW v \in 0 .. d - 1
      PROVE  u + d * v \in 0 .. d * d - 1
  <2>1. d * v + u \in 0 .. d * d - 1
    BY <1>2, TwoDigits
  <2>2. u + d * v = d * v + u
    BY <1>2
  <2> QED BY <2>1, <2>2
<1>3. lo \in 0 .. BYTE * BYTE - 1 /\ hi \in 0 .. BYTE * BYTE - 1
  BY <1>1, <1>2
<1>4. lo \in 0 .. HalfMod - 1 /\ hi \in 0 .. HalfMod - 1
  BY <1>3 DEF HalfMod
<1> HIDE DEF lo, hi
<1>5. lo + HalfMod * hi \in 0 .. HalfMod * HalfMod - 1
  BY <1>1, <1>2, <1>4
<1> QED BY <1>5 DEF FromBytes, lo, hi, Word, WordMod

LEMMA SumsAreWords ==
    ASSUME NEW x \in Word, NEW y \in Word
    PROVE  /\ Wrap(x + y) \in Word /\ Wrap(x - y) \in Word /\ Wrap(x * y) \in Word
           /\ And(x, y) \in Word /\ Or(x, y) \in Word /\ Xor(x, y) \in Word
           /\ \A p : Bool(p) \in Word
           /\ MinS(x, y) \in Word /\ MaxS(x, y) \in Word /\ MinU(x, y) \in Word /\ MaxU(x, y) \in Word
<1>1. x \in Int /\ y \in Int /\ 0 \in Word /\ 1 \in Word
  BY PartsAreWords
<1>2. x + y \in Int /\ x - y \in Int /\ x * y \in Int
  BY <1>1
<1>3. Wrap(x + y) \in Word /\ Wrap(x - y) \in Word /\ Wrap(x * y) \in Word
  BY <1>2, WrapIs
<1>4. And(x, y) \in Word /\ Or(x, y) \in Word /\ Xor(x, y) \in Word
  BY <1>1, BitwiseIs
<1> QED BY <1>1, <1>3, <1>4 DEF Bool, MinS, MaxS, MinU, MaxU

LEMMA WordsI ==
    ASSUME NEW op \in OpsI, NEW x \in Word, NEW y \in Word
    PROVE  AluResult(op, x, y) \in Word
<1> DEFINE n == Shamt(y)
<1>1. n \in Nat
  BY ShamtIs
<1>2. Shl(x, n) \in Word /\ Shr(x, n) \in Word
  BY <1>1, PartsAreWords
<1>3. Wrap(Signed(x) \div Pow2[n]) \in Word
  <2>1. Signed(x) \in Int
    BY PartsAreWords, WordBits DEF Signed
  <2>2. Shr(Signed(x), n) \in Int
    BY <1>1, <2>1, BitIs
  <2> QED BY <2>2, WrapIs DEF Shr
<1> HIDE DEF n
<1>4. aluI(op, x, y) \in Word
  BY <1>2, <1>3, SumsAreWords DEF aluI, OpsI, n
<1> QED BY <1>4, DispatchOther

LEMMA WordsM ==
    ASSUME NEW op \in OpsM, NEW x \in Word, NEW y \in Word
    PROVE  AluResult(op, x, y) \in Word
<1>1. x \in Nat /\ y \in Nat /\ x < WordMod /\ y < WordMod /\ WordMod \in Nat /\ WordMod > 0
  BY WordBits DEF Word
<1>2. Signed(x) \in Int /\ Signed(y) \in Int
  BY <1>1 DEF Signed
<1>3. mulh(x, y) \in Word /\ mulhsu(x, y) \in Word
  <2>1. Signed(x) * Signed(y) \in Int /\ Signed(x) * y \in Int
    BY <1>1, <1>2
  <2>2. ASSUME NEW z \in Int PROVE Wrap(z \div WordMod) \in Word
    <3>1. z \div WordMod \in Int
      BY <1>1, DivMod
    <3> QED BY <3>1, WrapIs
  <2> QED BY <2>1, <2>2 DEF mulh, mulhsu
<1>4. (x * y) \div WordMod \in Word
  <2> DEFINE p == x * y
             q == p \div WordMod
  <2>1. x * y <= x * WordMod /\ x * WordMod = WordMod * x /\ p \in Nat
    BY <1>1
  <2>2. q \in Nat /\ WordMod * q <= p
    BY <1>1, <2>1, DivNat
  <2> HIDE DEF q
  <2>3. q > x => WordMod * q >= WordMod * (x + 1)
    BY <1>1, <2>2
  <2>4. WordMod * (x + 1) = WordMod * x + WordMod /\ WordMod * x \in Nat /\ WordMod * q \in Nat
    BY <1>1, <2>2
  <2>5. q <= x
    BY <1>1, <2>1, <2>2, <2>3, <2>4
  <2>6. q \in Word
    BY <1>1, <2>2, <2>5 DEF Word
  <2> QED BY <2>6 DEF q
<1>5. div(x, y) \in Word /\ rem(x, y) \in Word
  BY SignedDivision
<1>6. y # 0 => x \div y \in Word /\ x % y \in Word
  <2> SUFFICES ASSUME y # 0 PROVE x \div y \in Word /\ x % y \in Word
    OBVIOUS
  <2> DEFINE q == x \div y
             r == x % y
  <2>1. q \in Nat /\ y * q <= x /\ r \in 0 .. y - 1
    BY <1>1, DivNat, DivMod
  <2> HIDE DEF q, r
  <2>2. y * q >= 1 * q
    BY <1>1, <2>1
  <2>3. q \in Word /\ r \in Word
    BY <1>1, <2>1, <2>2 DEF Word
  <2> QED BY <2>3 DEF q, r
<1>7. WordMod - 1 \in Word
  BY <1>1 DEF Word
<1>8. aluM(op, x, y) \in Word
  BY <1>3, <1>4, <1>5, <1>6, <1>7, SumsAreWords DEF aluM, OpsM
<1> QED BY <1>8, DispatchM

LEMMA WordsA ==
    ASSUME NEW op \in OpsA, NEW x \in Word, NEW y \in Word
    PROVE  AluResult(op, x, y) \in Word
<1>1. aluA(op, x, y) \in Word
  BY SumsAreWords DEF aluA, OpsA
<1> QED BY <1>1, DispatchOther

LEMMA WordsZba ==
    ASSUME NEW op \in OpsZba, NEW x \in Word, NEW y \in Word
    PROVE  AluResult(op, x, y) \in Word
<1>1. AluResult(op, x, y) = aluZba(op, x, y)
  BY DEF AluResult, OpsM, OpsI, OpsA, OpsZba, OpsZbb, OpsZbs
<1>2. 1 \in Nat /\ 2 \in Nat /\ 3 \in Nat
  OBVIOUS
<1>3. Shl(x, 1) \in Word /\ Shl(x, 2) \in Word /\ Shl(x, 3) \in Word
  BY <1>2, PartsAreWords
<1>4. Wrap(Shl(x, 1) + y) \in Word /\ Wrap(Shl(x, 2) + y) \in Word /\ Wrap(Shl(x, 3) + y) \in Word
  BY <1>3, SumsAreWords
<1>5. aluZba(op, x, y) \in Word
  BY <1>4 DEF aluZba, OpsZba
<1> QED BY <1>1, <1>5

LEMMA WordsZbb ==
    ASSUME NEW op \in OpsZbb, NEW x \in Word, NEW y \in Word
    PROVE  AluResult(op, x, y) \in Word
<1> DEFINE n == Shamt(y)
           f == [i \in 0 .. 3 |-> IF ByteOf(x, i) # 0 THEN BYTE - 1 ELSE 0]
           g == [i \in 0 .. 3 |-> ByteOf(x, 3 - i)]
<1>1. n \in Nat /\ Complement(n) \in Nat /\ NotW(y) \in Word
  <2>1. n \in Nat /\ XLEN \in Nat /\ XLEN > 0 /\ 0 \in Bits
    BY ShamtIs, WordBits DEF Bits
  <2> HIDE DEF n
  <2> DEFINE z == XLEN - n
  <2>2. z \in Int
    BY <2>1
  <2> HIDE DEF z
  <2>3. z % XLEN \in 0 .. XLEN - 1
    BY <2>1, <2>2, DivMod
  <2>4. NotW(y) \in Word
    BY <2>1, BitNot
  <2> QED BY <2>1, <2>3, <2>4 DEF Complement, z
<1>2. And(x, NotW(y)) \in Word /\ Or(x, NotW(y)) \in Word /\ Xor(x, NotW(y)) \in Word
  BY <1>1, SumsAreWords
<1>3. Shl(x, n) \in Word /\ Shr(x, n) \in Word /\ Shl(x, Complement(n)) \in Word /\ Shr(x, Complement(n)) \in Word
  BY <1>1, PartsAreWords
<1>4. Or(Shl(x, n), Shr(x, Complement(n))) \in Word /\ Or(Shr(x, n), Shl(x, Complement(n))) \in Word
  BY <1>3, SumsAreWords
<1>5. \A j \in 0 .. 3 : ByteOf(x, j) \in 0 .. BYTE - 1
  <2>1. PICK k \in 2 .. 8 : /\ XLEN = 4 * k /\ BYTE = Pow2[k] /\ HalfMod = Pow2[2 * k]
                            /\ HalfMod * BYTE = Pow2[3 * k]
    BY Sizes
  <2>2. 0 \in 0 .. k - 1
    OBVIOUS
  <2> QED BY <2>1, <2>2, ByteBits
<1>6. \A j \in 0 .. 3 : f[j] \in 0 .. BYTE - 1 /\ g[j] \in 0 .. BYTE - 1
  <2>1. \A j \in 0 .. 3 : 3 - j \in 0 .. 3
    OBVIOUS
  <2>2. 0 \in 0 .. BYTE - 1 /\ BYTE - 1 \in 0 .. BYTE - 1
    BY ByteAssumption
  <2> QED BY <1>5, <2>1, <2>2
<1> HIDE DEF n
<1>7. FromBytes(f) \in Word /\ FromBytes(g) \in Word
  <2> HIDE DEF f, g
  <2> QED BY <1>6, BytesAreWords
<1>8. op \in {"CLZ", "CTZ", "CPOP"} => AluResult(op, x, y) \in Word
  <2>1. AluResult("CLZ", x, y) = Clz(x) /\ AluResult("CTZ", x, y) = Ctz(x) /\ AluResult("CPOP", x, y) = Cpop(x)
    BY ResultsZbb, Zenon
  <2> QED BY <2>1, PartsAreWords
<1>9. op \in {"MIN", "MAX", "MINU", "MAXU"} => AluResult(op, x, y) \in Word
  <2>1. /\ AluResult("MIN", x, y) = MinS(x, y) /\ AluResult("MAX", x, y) = MaxS(x, y)
        /\ AluResult("MINU", x, y) = MinU(x, y) /\ AluResult("MAXU", x, y) = MaxU(x, y)
    BY ResultsZbb, Zenon
  <2> QED BY <2>1, SumsAreWords
<1>10. op \in {"SEXT_B", "SEXT_H"} => AluResult(op, x, y) \in Word
  <2>1. /\ AluResult("SEXT_B", x, y) = SignExtend(x % BYTE, BYTE)
        /\ AluResult("SEXT_H", x, y) = SignExtend(x % HalfMod, HalfMod)
    BY ResultsZbb, Zenon
  <2> QED BY <2>1, ExtendedAreWords
<1>11. op \in {"ROL", "ROR"} => AluResult(op, x, y) \in Word
  <2>1. /\ AluResult("ROL", x, y) = Or(Shl(x, Shamt(y)), Shr(x, Complement(Shamt(y))))
        /\ AluResult("ROR", x, y) = Or(Shr(x, Shamt(y)), Shl(x, Complement(Shamt(y))))
    BY ResultsZbb, Zenon
  <2> QED BY <1>4, <2>1 DEF n
<1>12. op = "ORC_B" => AluResult(op, x, y) \in Word
  <2>1. AluResult("ORC_B", x, y) = FromBytes(f)
    BY ResultsZbb, Zenon
  <2> QED BY <1>7, <2>1, Zenon
<1>13. op = "REV8" => AluResult(op, x, y) \in Word
  <2>1. AluResult("REV8", x, y) = FromBytes(g)
    BY ResultsZbb, Zenon
  <2> QED BY <1>7, <2>1, Zenon
<1>14. op = "ANDN" => aluZbb(op, x, y) = And(x, NotW(y))
  BY DEF aluZbb
<1>15. op = "ORN" => aluZbb(op, x, y) = Or(x, NotW(y))
  BY DEF aluZbb
<1>16. op = "XNOR" => aluZbb(op, x, y) = Xor(x, NotW(y))
  BY DEF aluZbb
<1>17. op = "ZEXT_H" => aluZbb(op, x, y) = x % HalfMod
  BY DEF aluZbb
<1>18. op = "RORI" => aluZbb(op, x, y) = Or(Shr(x, n), Shl(x, Complement(n)))
  BY DEF aluZbb, n
<1>19. op \in {"ANDN", "ORN", "XNOR", "ZEXT_H", "RORI"} => aluZbb(op, x, y) \in Word
  BY <1>2, <1>4, <1>14, <1>15, <1>16, <1>17, <1>18, ExtendedAreWords
<1>20. AluResult(op, x, y) = aluZbb(op, x, y)
  BY DispatchOther
<1> QED BY <1>8, <1>9, <1>10, <1>11, <1>12, <1>13, <1>19, <1>20 DEF OpsZbb

LEMMA WordsZbs ==
    ASSUME NEW op \in OpsZbs, NEW x \in Word, NEW y \in Word
    PROVE  AluResult(op, x, y) \in Word
<1> DEFINE n == Shamt(y)
           mask == Shl(1, n)
<1>1. n \in Nat /\ 1 \in Word /\ 0 \in Bits
  BY ShamtIs, PartsAreWords, WordBits DEF Bits
<1>2. mask \in Word /\ Shr(x, n) \in Word
  BY <1>1, PartsAreWords
<1> HIDE DEF mask
<1>3. NotW(mask) \in Word
  BY <1>1, <1>2, BitNot
<1>4. And(x, NotW(mask)) \in Word /\ Or(x, mask) \in Word /\ Xor(x, mask) \in Word /\ And(Shr(x, n), 1) \in Word
  BY <1>1, <1>2, <1>3, SumsAreWords
<1> HIDE DEF n
<1>5. aluZbs(op, x, y) \in Word
  BY <1>4 DEF aluZbs, OpsZbs, mask, n
<1> QED BY <1>5, DispatchOther

\* For words of 8 to 32 bits every computing opcode that step() dispatches gives a
\* word, for every pair of operands: no arm of the execute functions of executeI,
\* rv32m, rv32a, zba, zbb and zbs is missing, and none leaves the range of its type
\* (rv32m's signed quotient and remainder are never Illegal).  It is what the
\* machine's AluAssumption asks of its ALU.
THEOREM ResultsAreWords ==
    \A op \in OpsI \cup OpsM \cup OpsA \cup OpsZba \cup OpsZbb \cup OpsZbs, x, y \in Word :
        AluResult(op, x, y) \in Word
  BY WordsI, WordsM, WordsA, WordsZba, WordsZbb, WordsZbs

=============================================================================
