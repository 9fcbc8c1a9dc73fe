----------------------------- MODULE DivProofs -----------------------------
(***************************************************************************)
(* The divider is right on every width: the loop computes quotient and        *)
(* remainder bit by bit, and the signs make of them what RISC-V defines.     *)
(***************************************************************************)
EXTENDS Div, NaturalsInduction, WellFoundedInduction, TLAPS

-----------------------------------------------------------------------------
(* Powers of two.                                                          *)

\* A set of numbers that is not empty has a least member.
LEMMA LeastNumber ==
  ASSUME NEW S \in SUBSET Nat, S # {}
  PROVE  \E x \in S : \A y \in S : x <= y
<1> DEFINE less == {ss \in Nat \X Nat : ss[1] < ss[2]}
<1>1. IsWellFoundedOn(less, Nat)
  BY NatLessThanWellFounded DEF OpToRel
<1>2. \E x \in S : \A y \in S : ~(<<y, x>> \in less)
  <2> HIDE DEF less
  <2> QED
    BY <1>1, WFMin
<1>3. PICK x \in S : \A y \in S : ~(<<y, x>> \in less)
  BY <1>2
<1>4. ASSUME NEW y \in S PROVE x <= y
  <2>1. y < x => <<y, x>> \in less
    OBVIOUS
  <2> QED
    BY <1>3, <2>1
<1> QED
  BY <1>4

\* Initial parts of the recursion.
Doubling(n) ==
  {f \in [0..n -> Nat] : f[0] = 1 /\ \A i \in 1..n : f[i] = 2 * f[i - 1]}

\* There is one of every length.
LEMMA DoublingExists == \A n \in Nat : Doubling(n) # {}
<1> DEFINE S == {n \in Nat : Doubling(n) = {}}
<1> SUFFICES ASSUME S # {} PROVE FALSE
  OBVIOUS
<1>1. PICK m \in S : \A n \in S : m <= n
  BY LeastNumber
<1>2. CASE m = 0
  <2>1. [i \in 0..0 |-> 1] \in Doubling(0)
    BY DEF Doubling
  <2> QED
    BY <1>1, <1>2, <2>1
<1>3. CASE m # 0
  <2>1. m \in Nat /\ m - 1 \in Nat /\ m - 1 \notin S
    BY <1>1, <1>3
  <2>2. PICK f : f \in Doubling(m - 1)
    BY <2>1
  <2> DEFINE g == [i \in 0..m |-> IF i = m THEN 2 * f[m - 1] ELSE f[i]]
  <2>3. f \in [0..(m - 1) -> Nat] /\ f[0] = 1
        /\ \A i \in 1..(m - 1) : f[i] = 2 * f[i - 1]
    BY <2>2 DEF Doubling
  <2>4. g \in [0..m -> Nat]
    BY <2>1, <2>3
  <2>5. g[0] = 1
    BY <2>1, <2>3, <1>3
  <2>6. ASSUME NEW i \in 1..m PROVE g[i] = 2 * g[i - 1]
    BY <2>1, <2>3, <2>6
  <2>7. g \in Doubling(m)
    BY <2>4, <2>5, <2>6 DEF Doubling
  <2> QED
    BY <1>1, <2>7
<1> QED
  BY <1>2, <1>3

\* Two of them agree as far as both go.
LEMMA DoublingsAgree ==
  ASSUME NEW m \in Nat, NEW n \in Nat, m <= n, NEW f \in Doubling(m), NEW g \in Doubling(n)
  PROVE  \A i \in 0..m : f[i] = g[i]
<1> DEFINE S == {i \in 0..m : f[i] # g[i]}
<1> SUFFICES ASSUME S # {} PROVE FALSE
  OBVIOUS
<1>0. S \in SUBSET Nat
  OBVIOUS
<1>1. PICK k \in S : \A i \in S : k <= i
  BY <1>0, LeastNumber
<1>2. f[0] = 1 /\ g[0] = 1 /\ (\A i \in 1..m : f[i] = 2 * f[i - 1])
      /\ \A i \in 1..n : g[i] = 2 * g[i - 1]
  BY DEF Doubling
<1>3. k \in 1..m /\ k - 1 \in 0..m /\ k \in 1..n
  BY <1>1, <1>2
<1>4. f[k - 1] = g[k - 1]
  BY <1>1, <1>3
<1> QED
  BY <1>1, <1>2, <1>3, <1>4

\* So the recursion of Pow2 has a solution.
LEMMA Pow2Is == Pow2 = [n \in Nat |-> IF n = 0 THEN 1 ELSE 2 * Pow2[n - 1]]
<1> DEFINE D(n) == CHOOSE f : f \in Doubling(n)
           P == [n \in Nat |-> D(n)[n]]
           Q == [n \in Nat |-> IF n = 0 THEN 1 ELSE 2 * P[n - 1]]
<1>1. \A n \in Nat : D(n) \in Doubling(n)
  BY DoublingExists
<1>2. ASSUME NEW n \in Nat PROVE P[n] = IF n = 0 THEN 1 ELSE 2 * P[n - 1]
  <2> HIDE DEF D
  <2>1. CASE n = 0
    BY <1>1, <2>1 DEF Doubling
  <2>2. CASE n # 0
    <3>1. n - 1 \in Nat /\ n - 1 \in 0..(n - 1) /\ n \in 1..n /\ n - 1 <= n
      BY <2>2
    <3>2. D(n)[n] = 2 * D(n)[n - 1]
      BY <1>1, <3>1 DEF Doubling
    <3>3. D(n - 1)[n - 1] = D(n)[n - 1]
      BY <1>1, <3>1, DoublingsAgree
    <3> QED
      BY <2>2, <3>1, <3>2, <3>3
  <2> QED
    BY <2>1, <2>2
<1>3. P = Q
  <2> HIDE DEF D
  <2> QED
    BY <1>2
<1> HIDE DEF P
<1>4. \E f : f = [n \in Nat |-> IF n = 0 THEN 1 ELSE 2 * f[n - 1]]
  BY <1>3
<1> QED
  BY <1>4 DEF Pow2

\* Pow2 starts at 1, doubles, and is positive.
LEMMA Pow2Facts ==
  /\ Pow2[0] = 1
  /\ \A n \in Nat : Pow2[n] \in Nat /\ Pow2[n] >= 1 /\ Pow2[n + 1] = 2 * Pow2[n]
<1>1. Pow2[0] = 1 /\ \A n \in Nat : Pow2[n + 1] = 2 * Pow2[n]
  <2>1. \A n \in Nat : Pow2[n] = IF n = 0 THEN 1 ELSE 2 * Pow2[n - 1]
    BY Pow2Is
  <2>2. ASSUME NEW n \in Nat PROVE Pow2[n + 1] = 2 * Pow2[n]
    <3>1. n + 1 \in Nat /\ n + 1 # 0 /\ (n + 1) - 1 = n
      OBVIOUS
    <3> QED
      BY <2>1, <3>1
  <2> QED
    BY <2>1, <2>2
<1> DEFINE S == {n \in Nat : ~(Pow2[n] \in Nat /\ Pow2[n] >= 1)}
<1>2. ASSUME S # {} PROVE FALSE
  <2>1. PICK m \in S : \A n \in S : m <= n
    BY <1>2, LeastNumber
  <2>2. m \in Nat /\ m # 0
    BY <1>1, <2>1
  <2>3. m - 1 \in Nat /\ m - 1 \notin S /\ (m - 1) + 1 = m
    BY <2>1, <2>2
  <2>4. Pow2[m - 1] \in Nat /\ Pow2[m - 1] >= 1 /\ Pow2[m] = 2 * Pow2[m - 1]
    BY <1>1, <2>3
  <2> QED
    BY <2>1, <2>4
<1> QED
  BY <1>1, <1>2

\* Exponents add.
LEMMA Pow2Sum == \A m, n \in Nat : Pow2[m + n] = Pow2[m] * Pow2[n]
<1> SUFFICES ASSUME NEW m \in Nat PROVE \A n \in Nat : Pow2[m + n] = Pow2[m] * Pow2[n]
  OBVIOUS
<1> DEFINE S == {n \in Nat : Pow2[m + n] # Pow2[m] * Pow2[n]}
<1> SUFFICES ASSUME S # {} PROVE FALSE
  OBVIOUS
<1>1. PICK k \in S : \A n \in S : k <= n
  BY LeastNumber
<1>2. k \in Nat /\ k # 0
  BY <1>1, Pow2Facts
<1>3. k - 1 \in Nat /\ k - 1 \notin S /\ (k - 1) + 1 = k /\ m + (k - 1) \in Nat
      /\ (m + (k - 1)) + 1 = m + k
  BY <1>1, <1>2
<1>4. Pow2[m + (k - 1)] = Pow2[m] * Pow2[k - 1]
  BY <1>3
<1>5. Pow2[m + k] = 2 * Pow2[m + (k - 1)] /\ Pow2[k] = 2 * Pow2[k - 1]
  BY <1>3, Pow2Facts
<1>6. Pow2[m] \in Nat /\ Pow2[k - 1] \in Nat
  BY <1>3, Pow2Facts
<1>7. \A x, y \in Nat : 2 * (x * y) = x * (2 * y)
  OBVIOUS
<1> QED
  BY <1>1, <1>4, <1>5, <1>6, <1>7

\* The widths: a half is twice the weight of its top bit, and a register is
\* that many halves.
LEMMA Sizes ==
  /\ Pow2[H - 1] \in Nat /\ Pow2[H - 1] >= 1 /\ Half = 2 * Pow2[H - 1]
  /\ Pow2[2*H - 1] \in Nat /\ Full = 2 * Pow2[2*H - 1]
  /\ Half \in Nat /\ Half >= 2 /\ Full \in Nat
  /\ Full = Half * Half /\ Full >= 2 * Half
<1>1. H \in Nat /\ H - 1 \in Nat /\ 2*H - 1 \in Nat /\ (H - 1) + 1 = H
      /\ (2*H - 1) + 1 = 2*H /\ H + H = 2*H
  BY HAssumption
<1>2. /\ Pow2[H - 1] \in Nat /\ Pow2[H - 1] >= 1 /\ Half = 2 * Pow2[H - 1]
      /\ Pow2[2*H - 1] \in Nat /\ Full = 2 * Pow2[2*H - 1]
  BY <1>1, Pow2Facts DEF Half, Full
<1>3. Full = Half * Half
  BY <1>1, Pow2Sum DEF Half, Full
<1>4. Half \in Nat /\ Half >= 2 /\ Full \in Nat
  BY <1>2
<1>5. \A h \in Nat : h >= 2 => h * h >= 2 * h
  OBVIOUS
<1> QED
  BY <1>2, <1>3, <1>4, <1>5

\* Dropping one bit less keeps one bit more.
LEMMA NextBit ==
  ASSUME NEW x \in Nat, NEW i \in Nat
  PROVE  /\ x \div Pow2[i] \in Nat /\ x \div Pow2[i + 1] \in Nat /\ Bit(x, i) \in {0, 1}
         /\ x \div Pow2[i] = 2 * (x \div Pow2[i + 1]) + Bit(x, i)
<1> DEFINE d == Pow2[i]
           q == x \div d
           h == q \div 2
           c == q % 2
           r == x - q * d
<1>1. d \in Nat /\ d >= 1 /\ Pow2[i + 1] = 2 * d
  BY Pow2Facts
<1> HIDE DEF d
<1>2. q \in Nat /\ q * d <= x /\ x < q * d + d
  BY <1>1
<1> HIDE DEF q
<1>3. h \in Nat /\ c \in {0, 1} /\ q - 2 * h = c
  BY <1>2
<1> HIDE DEF h, c
<1>4. q = 2 * h + c
  BY <1>2, <1>3
<1>5. h * (2 * d) + (c * d + r) = x /\ r \in Nat /\ r < d
  <2>1. q * d \in Nat /\ r \in Nat /\ r < d
    BY <1>1, <1>2
  <2>2. q * d = h * (2 * d) + c * d
    BY <1>1, <1>3, <1>4
  <2>3. c * d \in Nat /\ h * (2 * d) \in Nat
    BY <1>1, <1>3
  <2> QED
    BY <2>1, <2>2, <2>3, <1>2
<1>6. c * d + r \in Nat /\ c * d + r < 2 * d
  BY <1>1, <1>3, <1>5
<1>7. x \div (2 * d) = h
  <2> DEFINE e == 2 * d
             s == c * d + r
  <2>1. e \in Nat /\ e > 0 /\ s \in Nat /\ s < e /\ x = e * h + s
    BY <1>1, <1>3, <1>5, <1>6
  <2> HIDE DEF e, s
  <2>2. x \div e = h
    BY <2>1, <1>3
  <2> QED
    BY <2>2 DEF e
<1> QED
  BY <1>1, <1>2, <1>3, <1>4, <1>7 DEF Bit, d, q, c

\* A number that fits is not cut.
LEMMA SmallMod == \A x, F \in Nat : x < F => x % F = x
OBVIOUS

\* Quotient and remainder are the only numbers of their kind.
LEMMA DivMod ==
  ASSUME NEW x \in Int, NEW d \in Nat, d # 0, NEW q \in Int, NEW m \in Nat, m < d, x = d * q + m
  PROVE  x \div d = q /\ x % d = m
OBVIOUS

\* A bit is set when the bits up to it make at least its weight.
LEMMA TopBit ==
  ASSUME NEW x \in Nat, NEW i \in Nat
  PROVE  Bit(x, i) = 1 <=> x % Pow2[i + 1] >= Pow2[i]
<1> DEFINE d == Pow2[i]
           q == x \div d
           h == x \div (2 * d)
           c == Bit(x, i)
<1>1. d \in Nat /\ d >= 1 /\ Pow2[i + 1] = 2 * d
  BY Pow2Facts
<1>2. q \in Nat /\ h \in Nat /\ c \in {0, 1} /\ q = 2 * h + c
  BY <1>1, NextBit
<1> HIDE DEF d
<1>3. x - q * d >= 0 /\ x - q * d < d
  BY <1>1
<1>4. x % (2 * d) = x - h * (2 * d)
  BY <1>1
<1> HIDE DEF q, h, c
<1>5. x - h * (2 * d) = (x - q * d) + c * d
  BY <1>1, <1>2
<1> QED
  BY <1>1, <1>2, <1>3, <1>4, <1>5 DEF c, d

\* A larger exponent gives no smaller power.
LEMMA Pow2Grows == \A m, n \in Nat : m <= n => Pow2[m] <= Pow2[n]
<1> SUFFICES ASSUME NEW m \in Nat, NEW n \in Nat, m <= n PROVE Pow2[m] <= Pow2[n]
  OBVIOUS
<1>1. n - m \in Nat /\ m + (n - m) = n
  OBVIOUS
<1>2. Pow2[n] = Pow2[m] * Pow2[n - m]
  BY <1>1, Pow2Sum
<1>3. Pow2[m] \in Nat /\ Pow2[n - m] \in Nat /\ Pow2[n - m] >= 1
  BY <1>1, Pow2Facts
<1>4. \A x, y \in Nat : y >= 1 => x <= x * y
  OBVIOUS
<1> QED
  BY <1>2, <1>3, <1>4

-----------------------------------------------------------------------------
(* The loop.                                                               *)

\* q and m are quotient and remainder of n by d after k iterations; by zero, k ones
\* and n.
Divided(q, m, d, n, k) ==
  /\ q \in Nat /\ m \in Nat
  /\ d # 0 => q * d + m = n /\ m < d
  /\ d = 0 => q = Pow2[k] - 1 /\ m = n

\* One iteration on a register of size F, for the next bit c.
Iterated(q, m, d, c, F, q1, m1) ==
  LET s == (2 * m + c) % F
  IN /\ q1 = (2 * q + (IF s >= d THEN 1 ELSE 0)) % F
     /\ m1 = IF s >= d THEN s - d ELSE s

\* It divides twice the number and the bit, for a divisor that is not zero.
LEMMA Iteration ==
  ASSUME NEW q \in Nat, NEW m \in Nat, NEW d \in Nat, d # 0, NEW c \in {0, 1},
         NEW F \in Nat, m < d, 2 * (q * d + m) + c < F,
         NEW quo1, NEW rem1, Iterated(q, m, d, c, F, quo1, rem1)
  PROVE  quo1 \in Nat /\ rem1 \in Nat /\ quo1 * d + rem1 = 2 * (q * d + m) + c /\ rem1 < d
<1> DEFINE n == q * d + m
           s == 2 * m + c
           t == IF s >= d THEN 1 ELSE 0
           q1 == 2 * q + t
           m1 == IF s >= d THEN s - d ELSE s
           p == q * d
<1>1. p \in Nat /\ q <= p
  OBVIOUS
<1>2. q1 * d = 2 * p + t * d
  OBVIOUS
<1> HIDE DEF p
<1>3. s \in Nat /\ q1 \in Nat /\ m1 \in Nat /\ m1 < d /\ q1 * d + m1 = 2 * n + c
  BY <1>1, <1>2 DEF p
<1>4. s < F
  BY <1>1 DEF p
<1>5. q1 < F
  <2>1. \A x, y \in Nat : y # 0 => x <= x * y
    OBVIOUS
  <2> HIDE DEF q1, m1
  <2>2. q1 <= q1 * d
    BY <1>3, <2>1
  <2>3. q1 * d \in Nat
    BY <1>3
  <2> QED
    BY <1>3, <2>2, <2>3
<1>7. s % F = s
  BY <1>3, <1>4, SmallMod
<1>8. q1 % F = q1
  <2> HIDE DEF q1
  <2> QED BY <1>3, <1>5, SmallMod
<1> QED
  BY <1>3, <1>7, <1>8 DEF Iterated

\* The operation is done on this many bits.
Width(r) == IF op_word(r) THEN H ELSE 2 * H

\* The magnitudes fit them.
LEMMA Magnitudes ==
  ASSUME NEW r \in Ops, NEW x \in Values
  PROVE  mag(r, x) \in Nat /\ mag(r, x) < Pow2[Width(r)]
<1> USE Sizes DEF Values
<1>1. Low(x) \in Nat /\ Low(x) < Half
  BY DEF Low
<1>2. mag_64(r, x) \in Nat /\ mag_64(r, x) < Full
  BY DEF mag_64, Neg
<1>3. mag_32(r, x) \in Nat /\ mag_32(r, x) < Half
  <2>1. CASE sign_32(r, x)
    <3>1. Bit(x, H - 1) = 1
      BY <2>1 DEF sign_32
    <3>2. H - 1 \in Nat /\ (H - 1) + 1 = H
      BY HAssumption
    <3>3. Low(x) >= Pow2[H - 1]
      BY <3>1, <3>2, TopBit DEF Low, Half
    <3>4. mag_32(r, x) = (Half - Low(x)) % Full
      BY <2>1, <1>1 DEF mag_32, Neg
    <3>5. Half - Low(x) \in Nat /\ Half - Low(x) < Half
      BY <3>3, <1>1
    <3> QED
      BY <3>4, <3>5
  <2>2. CASE ~sign_32(r, x)
    BY <1>1, <2>2 DEF mag_32
  <2> QED
    BY <2>1, <2>2
<1> QED
  BY <1>2, <1>3 DEF mag, Width, Half, Full

\* While the unit works, its registers are those of the request, and quo and rem
\* are quotient and remainder of the bits consumed.
Working ==
  /\ a = mag(req, req.op1) /\ b = mag(req, req.op2)
  /\ quo_neg = QuoNeg(req) /\ rem_neg = sign(req, req.op1)
  /\ op_word_reg = op_word(req) /\ op_rem_reg = req.rem
  /\ ~resp_valid
  /\ state = "CALCULATE" => /\ loop \in 0..(Width(req) - 1)
                            /\ Divided(quo, rem, b, a \div Pow2[loop + 1], Width(req) - 1 - loop)
  /\ state = "OUTPUT" => Divided(quo, rem, b, a, Width(req))

LoopInv ==
  /\ state \in {"IDLE", "CALCULATE", "OUTPUT"} /\ req \in Ops
  /\ state # "IDLE" => Working

\* A width is one of the two.
LEMMA Widths ==
  ASSUME NEW r \in Ops
  PROVE  /\ Width(r) \in Nat /\ Width(r) >= 1 /\ Width(r) <= 2 * H
         /\ Pow2[Width(r)] \in Nat /\ Pow2[Width(r)] <= Full
<1>1. Width(r) \in Nat /\ Width(r) >= 1 /\ Width(r) <= 2 * H /\ 2 * H \in Nat
  BY HAssumption DEF Width
<1> QED
  BY <1>1, Pow2Facts, Pow2Grows DEF Full

\* A request starts with nothing consumed.
LEMMA LoadStarts ==
  ASSUME NEW r \in Ops, ~active, Load(r)
  PROVE  LoopInv'
<1> DEFINE x == mag(r, r.op1)
           y == mag(r, r.op2)
<1>1. r.op1 \in Values /\ r.op2 \in Values
  BY DEF Ops
<1>2. x \in Nat /\ y \in Nat /\ x < Pow2[Width(r)]
  BY <1>1, Magnitudes
<1>3. Width(r) \in Nat /\ Width(r) >= 1 /\ Pow2[Width(r)] \in Nat
  BY Widths
<1>4. loop' = Width(r) - 1 /\ loop' \in 0..(Width(r) - 1) /\ loop' + 1 = Width(r)
      /\ Width(r) - 1 - loop' = 0
  BY <1>3 DEF Load, Width
<1>5. x \div Pow2[Width(r)] = 0
  BY <1>2, <1>3
<1>6. Divided(quo', rem', b', x \div Pow2[loop' + 1], Width(r) - 1 - loop')
  <2>1. quo' = 0 /\ rem' = 0 /\ b' = y
    BY DEF Load
  <2>2. 0 * y + 0 = 0 /\ Pow2[0] - 1 = 0 /\ (y # 0 => 0 < y)
    BY <1>2, Pow2Facts
  <2>3. Divided(quo', rem', b', 0, 0)
    BY <2>1, <2>2 DEF Divided
  <2>4. x \div Pow2[loop' + 1] = 0 /\ Width(r) - 1 - loop' = 0
    BY <1>4, <1>5
  <2> QED
    BY <2>3, <2>4 DEF Divided
<1>7. a' = x /\ b' = y /\ req' = r /\ state' = "CALCULATE" /\ ~resp_valid'
      /\ quo_neg' = QuoNeg(r) /\ rem_neg' = sign(r, r.op1)
      /\ op_word_reg' = op_word(r) /\ op_rem_reg' = r.rem
  BY DEF Load, active
<1>8. Divided(quo, rem, b, a \div Pow2[loop + 1], Width(req) - 1 - loop)'
  BY <1>6, <1>7
<1> HIDE DEF x, y
<1>9. Working'
  BY <1>4, <1>7, <1>8 DEF Working, x, y
<1> QED
  BY <1>7, <1>9 DEF LoopInv

\* An iteration consumes one bit more, and no register overflows.
LEMMA CalculateDivides ==
  ASSUME LoopInv, Calculate
  PROVE  LoopInv'
<1> DEFINE W == Width(req)
           n == a \div Pow2[loop + 1]
           c == Bit(a, loop)
           k == W - 1 - loop
<1>1. req \in Ops /\ Working /\ state = "CALCULATE"
  BY DEF LoopInv, Calculate
<1>2. req.op1 \in Values /\ req.op2 \in Values
  BY <1>1 DEF Ops
<1>3. a \in Nat /\ b \in Nat /\ a < Full
  <2>1. a \in Nat /\ b \in Nat /\ a < Pow2[W]
    BY <1>1, <1>2, Magnitudes DEF Working
  <2> QED
    BY <1>1, <2>1, Widths, Sizes
<1>4. W \in Nat /\ W >= 1 /\ W <= 2 * H /\ loop \in 0..(W - 1) /\ Divided(quo, rem, b, n, k)
  BY <1>1, Widths DEF Working
<1>5. loop \in Nat /\ k \in Nat /\ k + 1 \in Nat /\ k + 1 = W - loop /\ k + 1 <= 2 * H
  BY <1>4, HAssumption
<1>6. n \in Nat /\ c \in {0, 1} /\ a \div Pow2[loop] \in Nat /\ a \div Pow2[loop] = 2 * n + c
  BY <1>3, <1>5, NextBit
<1>7. 2 * n + c < Full
  <2>1. Pow2[loop] \in Nat /\ Pow2[loop] >= 1
    BY <1>5, Pow2Facts
  <2>2. \A x, y \in Nat : y >= 1 => x \div y <= x
    <3> SUFFICES ASSUME NEW x \in Nat, NEW y \in Nat, y >= 1 PROVE x \div y <= x
      OBVIOUS
    <3>1. x \div y \in Nat /\ (x \div y) * y <= x
      OBVIOUS
    <3>2. \A z \in Nat : z <= z * y
      OBVIOUS
    <3>3. (x \div y) * y \in Nat /\ x \div y <= (x \div y) * y
      BY <3>1, <3>2
    <3> QED
      BY <3>1, <3>3
  <2>3. a \div Pow2[loop] <= a
    BY <1>3, <2>1, <2>2
  <2> QED
    BY <1>3, <1>6, <2>3, Sizes
<1> HIDE DEF W, n, c, k
<1>8. Divided(quo', rem', b', 2 * n + c, k + 1)
  <2>0. rem_shift = (2 * rem + c) % Full
    BY DEF rem_shift, c
  <2>1. /\ rem' = IF rem_shift >= b THEN rem_shift - b ELSE rem_shift
        /\ quo' = (2 * quo + (IF rem_shift >= b THEN 1 ELSE 0)) % Full
        /\ b' = b
    BY DEF Calculate, Subtract
  <2>2. CASE b # 0
    <3>1. quo \in Nat /\ rem \in Nat /\ quo * b + rem = n /\ rem < b /\ Full \in Nat
      BY <1>4, <2>2, Sizes DEF Divided
    <3>2. quo' \in Nat /\ rem' \in Nat /\ quo' * b + rem' = 2 * n + c /\ rem' < b
      <4>1. Iterated(quo, rem, b, c, Full, quo', rem')
        BY <2>0, <2>1 DEF Iterated
      <4> QED
        BY <1>3, <1>6, <1>7, <2>2, <3>1, <4>1, Iteration
    <3>3. quo' \in Nat /\ rem' \in Nat /\ quo' * b' + rem' = 2 * n + c /\ rem' < b' /\ b' # 0
      BY <2>1, <2>2, <3>2
    <3> QED
      BY <3>3 DEF Divided
  <2>3. CASE b = 0
    <3>1. quo = Pow2[k] - 1 /\ rem = n /\ quo \in Nat
      BY <1>4, <2>3 DEF Divided
    <3>2. rem_shift = 2 * n + c
      <4>1. 2 * n + c \in Nat /\ Full \in Nat
        BY <1>6, Sizes
      <4> QED
        BY <1>7, <2>0, <3>1, <4>1, SmallMod
    <3>3. rem' = 2 * n + c /\ quo' = (2 * quo + 1) % Full
      BY <1>6, <2>1, <2>3, <3>2
    <3>4. 2 * quo + 1 = Pow2[k + 1] - 1
      BY <1>5, <3>1, Pow2Facts
    <3>5. Pow2[k + 1] <= Full /\ Pow2[k + 1] \in Nat
      BY <1>5, Pow2Grows, Pow2Facts, HAssumption DEF Full
    <3>6. quo' = Pow2[k + 1] - 1 /\ quo' \in Nat
      <4>1. 2 * quo + 1 \in Nat /\ 2 * quo + 1 < Full /\ Full \in Nat
        BY <3>1, <3>4, <3>5, Sizes
      <4> QED
        BY <3>3, <3>4, <4>1, SmallMod
    <3>7. rem' \in Nat
      BY <1>6, <3>3
    <3> QED
      BY <2>1, <2>3, <3>3, <3>6, <3>7 DEF Divided
  <2> QED
    BY <2>2, <2>3
<1>9. /\ a' = a /\ b' = b /\ req' = req /\ quo_neg' = quo_neg /\ rem_neg' = rem_neg
      /\ op_word_reg' = op_word_reg /\ op_rem_reg' = op_rem_reg /\ resp_valid' = resp_valid
      /\ loop' = (loop - 1) % (2 * H) /\ state' = IF loop = 0 THEN "OUTPUT" ELSE state
  BY DEF Calculate
<1>10. CASE loop = 0
  <2>1. 2 * n + c = a /\ k + 1 = W
    <3>1. a \div 1 = a
      BY <1>3
    <3> QED
      BY <1>4, <1>5, <1>6, <1>10, <3>1, Pow2Facts
  <2>2. Divided(quo, rem, b, a, Width(req))'
    BY <1>8, <1>9, <2>1 DEF W, Divided
  <2>3. state' = "OUTPUT"
    BY <1>9, <1>10
  <2> QED
    BY <1>1, <1>9, <2>2, <2>3 DEF LoopInv, Working
<1>11. CASE loop # 0
  <2>1. loop - 1 \in Nat /\ loop - 1 < 2 * H /\ 2 * H \in Nat
    BY <1>4, <1>5, <1>11, HAssumption
  <2>2. loop' = loop - 1
    BY <1>9, <2>1
  <2>3. loop' \in 0..(W - 1) /\ loop' + 1 = loop /\ W - 1 - loop' = k + 1
    BY <1>4, <1>5, <2>1, <2>2
  <2>4. a' \div Pow2[loop' + 1] = 2 * n + c
    BY <1>6, <1>9, <2>3
  <2>5. Divided(quo, rem, b, a \div Pow2[loop + 1], Width(req) - 1 - loop)'
    BY <1>8, <1>9, <2>3, <2>4 DEF W, Divided
  <2>6. state' = "CALCULATE"
    BY <1>1, <1>9, <1>11
  <2> QED
    BY <1>1, <1>9, <2>3, <2>5, <2>6 DEF LoopInv, Working, W
<1> QED
  BY <1>10, <1>11

\* LoopInv is inductive.
LEMMA LoopInvInductive ==
  /\ Init => LoopInv
  /\ LoopInv /\ [Next]_divVars => LoopInv'
<1>1. Init => LoopInv
  <2>1. 0 \in Values
    BY Sizes DEF Values
  <2> QED
    BY <2>1 DEF Init, LoopInv, Ops
<1>2. ASSUME LoopInv, Accept PROVE LoopInv'
  BY <1>2, LoadStarts DEF Accept
<1>3. ASSUME LoopInv, Calculate PROVE LoopInv'
  BY <1>3, CalculateDivides
<1>4. ASSUME LoopInv, Idle \/ Output \/ Trap PROVE LoopInv'
  BY <1>4 DEF LoopInv, Idle, Output, Trap
<1>5. ASSUME LoopInv, UNCHANGED divVars PROVE LoopInv'
  BY <1>5 DEF LoopInv, Working, divVars
<1> QED
  BY <1>1, <1>2, <1>3, <1>4, <1>5 DEF Next

\* On every width the subtraction loop keeps its invariant: quo and rem are quotient
\* and remainder of the bits consumed so far, and neither register overflows.
THEOREM DivisionLoopCorrect == Spec => []DivisionLoop
<1>1. LoopInv => DivisionLoop
  BY DEF LoopInv, Working, Divided, DivisionLoop
<1> QED
  BY <1>1, LoopInvInductive, PTL DEF Spec

-----------------------------------------------------------------------------
(* The answer.                                                             *)

\* Sign extension looks at the lower half only.
LEMMA SignExtendIs ==
  ASSUME NEW x \in Nat
  PROVE  SignExtend(x) = IF 2 * Low(x) >= Half THEN Full - Half + Low(x) ELSE Low(x)
<1>1. H - 1 \in Nat /\ (H - 1) + 1 = H
  BY HAssumption
<1>2. Bit(x, H - 1) = 1 <=> Low(x) >= Pow2[H - 1]
  BY <1>1, TopBit DEF Low, Half
<1>3. Low(x) \in Nat
  BY Sizes DEF Low
<1> QED
  BY <1>2, <1>3, Sizes DEF SignExtend

\* What the signs make of quotient and remainder of the magnitudes.
LEMMA SignedDivision ==
  ASSUME NEW n \in Int, NEW d \in Int, d # 0, NEW q \in Nat, NEW m \in Nat,
         q * Abs(d) + m = Abs(n), m < Abs(d)
  PROVE  /\ Quotient(n, d) = IF (n < 0) = (d < 0) THEN q ELSE -q
         /\ Remainder(n, d) = IF n < 0 THEN -m ELSE m
<1> DEFINE x == Abs(n)
           y == Abs(d)
           p == q * y
<1>1. x \in Nat /\ y \in Nat /\ y > 0
  BY DEF Abs
<1> HIDE DEF x, y
<1>2. x \div y = q
  BY <1>1, DivMod DEF x, y
<1>3. Quotient(n, d) = IF (n < 0) = (d < 0) THEN q ELSE -q
  BY <1>2 DEF Quotient, x, y
<1>4. p \in Nat /\ p + m = x
  BY <1>1 DEF x, y
<1>5. d * q = (IF d < 0 THEN -p ELSE p) /\ d * (-q) = (IF d < 0 THEN p ELSE -p)
  BY DEF Abs, y
<1> HIDE DEF p
<1>6. Remainder(n, d) = n - d * Quotient(n, d)
  BY DEF Remainder
<1>7. Remainder(n, d) = IF n < 0 THEN -m ELSE m
  BY <1>3, <1>4, <1>5, <1>6 DEF Abs, x
<1> QED
  BY <1>3, <1>7

\* Two's complement of a number that fits.
LEMMA Complement ==
  ASSUME NEW F \in Nat, NEW x \in Nat, x < F
  PROVE  (F - x) % F = (-x) % F /\ (F - x) % F \in Nat
<1>1. CASE x = 0
  <2>1. F # 0 /\ F - x = F * 1 + 0 /\ F - x \in Int /\ -x \in Int /\ -x = F * 0 + 0
    BY <1>1
  <2>2. (F - x) % F = 0 /\ (-x) % F = 0
    BY <2>1, DivMod
  <2> QED
    BY <2>2
<1>2. CASE x # 0
  <2>1. F - x \in Nat /\ F - x < F /\ F # 0 /\ -x = F * (-1) + (F - x)
    BY <1>2
  <2>2. (-x) % F = F - x
    BY <2>1, DivMod
  <2> QED
    BY <2>1, <2>2, SmallMod
<1> QED
  BY <1>1, <1>2

\* Negation of a register is negation modulo its size.
LEMMA NegIs ==
  ASSUME NEW x \in Nat, x < Full
  PROVE  Neg(x) = (-x) % Full /\ x = x % Full /\ Neg(x) \in Nat
<1>1. Full \in Nat
  BY Sizes
<1> QED
  BY <1>1, Complement, SmallMod DEF Neg

\* The sign and the magnitude taken from a register are those of the number that
\* the instruction reads there.
Parted(r, x) ==
  /\ Operand(r, x) \in Int
  /\ sign(r, x) <=> Operand(r, x) < 0
  /\ mag(r, x) = Abs(Operand(r, x))

\* On the full width.
LEMMA PartedFull ==
  ASSUME NEW r \in Ops, ~r.word, NEW x \in Values
  PROVE  /\ Operand(r, x) \in Int
         /\ x = Operand(r, x) \/ (~r.unsigned /\ x = Full + Operand(r, x))
         /\ sign_64(r, x) <=> Operand(r, x) < 0
         /\ mag_64(r, x) = Abs(Operand(r, x)) /\ Abs(Operand(r, x)) < Full
<1> DEFINE t == Pow2[2*H - 1]
<1>1. x \in Nat /\ x < Full /\ t \in Nat /\ Full = 2 * t /\ t >= 1
  BY Sizes DEF Values
<1>2. 2*H - 1 \in Nat /\ (2*H - 1) + 1 = 2*H
  BY HAssumption
<1>3. Bit(x, 2*H - 1) = 1 <=> x >= t
  <2>1. x % Full = x
    BY <1>1, SmallMod
  <2>2. Bit(x, 2*H - 1) = 1 <=> x % Pow2[2*H] >= t
    BY <1>1, <1>2, TopBit
  <2> QED
    BY <2>1, <2>2 DEF Full
<1>4. Operand(r, x) = IF ~r.unsigned /\ x >= t THEN x - Full ELSE x
  BY DEF Operand, Signed, Full
<1>5. r.unsigned \in BOOLEAN
  BY DEF Ops
<1> HIDE DEF t
<1>6. sign_64(r, x) <=> ~r.unsigned /\ x >= t
  BY <1>3 DEF sign_64
<1>7. x >= t => Neg(x) = Full - x
  BY <1>1, SmallMod DEF Neg
<1> QED
  BY <1>1, <1>4, <1>5, <1>6, <1>7 DEF mag_64, Abs

\* On half the width, for a word instruction.
LEMMA PartedWord ==
  ASSUME NEW r \in Ops, r.word, NEW x \in Values
  PROVE  Parted(r, x) /\ Abs(Operand(r, x)) < Half
<1> DEFINE t == Pow2[H - 1]
           l == Low(x)
<1>1. x \in Nat /\ t \in Nat /\ Half = 2 * t /\ t >= 1 /\ Half \in Nat /\ Full \in Nat /\ Full >= 2 * Half
  BY Sizes DEF Values
<1>2. l \in Nat /\ l < Half
  BY <1>1 DEF Low
<1>3. Bit(x, H - 1) = 1 <=> l >= t
  <2>1. H - 1 \in Nat /\ (H - 1) + 1 = H
    BY HAssumption
  <2> QED
    BY <1>1, <2>1, TopBit DEF Low, Half
<1> HIDE DEF t, l
<1>4. Operand(r, x) = IF ~r.unsigned /\ l >= t THEN l - Half ELSE l
  BY DEF Operand, Signed, Half, t, l
<1>5. r.unsigned \in BOOLEAN
  BY DEF Ops
<1>6. sign_32(r, x) <=> ~r.unsigned /\ l >= t
  BY <1>3 DEF sign_32
<1>7. l >= t => Neg(Full - Half + l) = Half - l
  <2>1. l >= t => Full - (Full - Half + l) = Half - l /\ Half - l \in Nat /\ Half - l < Full
    BY <1>1, <1>2
  <2> QED
    BY <1>1, <2>1, SmallMod DEF Neg
<1>8. mag_32(r, x) = IF ~r.unsigned /\ l >= t THEN Half - l ELSE l
  BY <1>6, <1>7 DEF mag_32, l
<1>9. sign(r, x) = sign_32(r, x) /\ mag(r, x) = mag_32(r, x)
  BY DEF sign, mag, op_word
<1> QED
  BY <1>1, <1>2, <1>4, <1>5, <1>6, <1>8, <1>9 DEF Parted, Abs

\* On half the width, for a shortened operation whose numbers fit.
LEMMA PartedShort ==
  ASSUME NEW r \in Ops, ~r.word, op_word(r), NEW x \in Values,
         -Half <= 2 * Operand(r, x), 2 * Operand(r, x) < Half
  PROVE  Parted(r, x) /\ Abs(Operand(r, x)) < Half
<1> DEFINE t == Pow2[H - 1]
           n == Operand(r, x)
           l == Low(x)
<1>1. x \in Nat /\ x < Full /\ t \in Nat /\ Half = 2 * t /\ t >= 1 /\ Half \in Nat /\ Full \in Nat
      /\ Full = Half * Half /\ Full >= 2 * Half
  BY Sizes DEF Values
<1>2. n \in Int /\ (x = n \/ (~r.unsigned /\ x = Full + n)) /\ (n < 0 <=> sign_64(r, x))
  BY PartedFull
<1>3. Bit(x, H - 1) = 1 <=> l >= t
  <2>1. H - 1 \in Nat /\ (H - 1) + 1 = H
    BY HAssumption
  <2> QED
    BY <1>1, <2>1, TopBit DEF Low, Half
<1> HIDE DEF n, l, t
<1>4. -Half <= 2 * n /\ 2 * n < Half
  BY DEF n
<1>5. CASE n >= 0
  <2>1. x = n
    <3>1. x # Full + n
      BY <1>1, <1>2, <1>5
    <3> QED
      BY <1>2, <3>1
  <2>2. l = n /\ l < t
    BY <1>1, <1>4, <1>5, <2>1, SmallMod DEF Low, l
  <2>3. ~sign_32(r, x) /\ mag_32(r, x) = n
    BY <1>1, <1>3, <1>5, <1>2, <2>2 DEF sign_32, mag_32, l
  <2>4. ~sign(r, x) /\ mag(r, x) = n
    BY <2>3 DEF sign, mag
  <2> QED
    BY <1>1, <1>2, <1>4, <1>5, <2>4 DEF Parted, Abs, n
<1>6. CASE n < 0
  <2>1. x = Full + n /\ ~r.unsigned
    BY <1>1, <1>2, <1>6 DEF sign_64
  <2>2. l = Half + n
    <3>1. x = Half * (Half - 1) + (Half + n)
      BY <1>1, <1>2, <2>1
    <3>2. Half + n \in Nat /\ Half + n < Half /\ Half # 0 /\ Half - 1 \in Int
      BY <1>1, <1>2, <1>4, <1>6
    <3>3. Half \in Nat /\ x \in Int
      BY <1>1
    <3>4. x % Half = Half + n
      BY <3>1, <3>2, <3>3, DivMod
    <3> QED
      BY <3>4 DEF Low, l
  <2>3. l >= t
    BY <1>1, <1>2, <1>4, <2>2
  <2>4. sign_32(r, x)
    BY <1>3, <2>1, <2>3 DEF sign_32
  <2>5. mag_32(r, x) = -n
    <3>1. Full - (Full - Half + l) = -n
      BY <1>1, <1>2, <2>2
    <3>2. -n \in Nat /\ -n < Full
      BY <1>1, <1>2, <1>4, <1>6
    <3>3. (-n) % Full = -n
      BY <1>1, <3>2, SmallMod
    <3> QED
      BY <2>4, <3>1, <3>3 DEF mag_32, Neg, l
  <2>6. sign(r, x) /\ mag(r, x) = -n
    BY <2>4, <2>5 DEF sign, mag
  <2> QED
    BY <1>1, <1>2, <1>4, <1>6, <2>6 DEF Parted, Abs, n
<1> QED
  BY <1>2, <1>5, <1>6

\* The value that the output stage takes from quo or rem, and the number it stands for.
Signs(r, q, m) == IF r.rem THEN (IF sign(r, r.op1) THEN Neg(m) ELSE m)
                           ELSE (IF QuoNeg(r) THEN Neg(q) ELSE q)
Number(r) == LET n == Operand(r, r.op1)
                 d == Operand(r, r.op2)
             IN IF r.rem THEN Remainder(n, d) ELSE Quotient(n, d)

\* It is that number, except that a quotient by zero has as many ones as bits were
\* consumed.
LEMMA SignsMakeNumber ==
  ASSUME NEW r \in Ops, Parted(r, r.op1), Parted(r, r.op2), NEW q, NEW m,
         Divided(q, m, mag(r, r.op2), mag(r, r.op1), Width(r))
  PROVE  LET n == Operand(r, r.op1)
             d == Operand(r, r.op2)
         IN /\ Signs(r, q, m) \in Nat /\ Number(r) \in Int
            /\ d # 0 \/ r.rem => Signs(r, q, m) = Number(r) % Full
            /\ d = 0 /\ ~r.rem => Signs(r, q, m) = Pow2[Width(r)] - 1 /\ Number(r) = -1
            /\ r.rem => \/ 0 <= Number(r) /\ Number(r) <= n
                        \/ n <= Number(r) /\ Number(r) <= 0
<1> DEFINE n == Operand(r, r.op1)
           d == Operand(r, r.op2)
<1>1. n \in Int /\ d \in Int /\ (sign(r, r.op1) <=> n < 0) /\ (sign(r, r.op2) <=> d < 0)
      /\ mag(r, r.op1) = Abs(n) /\ mag(r, r.op2) = Abs(d)
  BY DEF Parted
<1>2. q \in Nat /\ m \in Nat /\ (Abs(d) # 0 => q * Abs(d) + m = Abs(n) /\ m < Abs(d))
      /\ (Abs(d) = 0 => q = Pow2[Width(r)] - 1 /\ m = Abs(n))
  BY <1>1 DEF Divided
<1>3. Abs(n) < Full /\ Abs(n) \in Nat /\ Full \in Nat
  <2>1. r.op1 \in Values
    BY DEF Ops
  <2>2. mag(r, r.op1) \in Nat /\ mag(r, r.op1) < Pow2[Width(r)]
    BY <2>1, Magnitudes
  <2> QED
    BY <1>1, <2>2, Widths, Sizes
<1>4. Abs(d) \in Nat /\ (Abs(d) = 0 <=> d = 0)
  BY <1>1 DEF Abs
<1>5. QuoNeg(r) <=> (n < 0) # (d < 0) /\ d # 0
  <2>1. sign(r, r.op1) = (n < 0) /\ sign(r, r.op2) = (d < 0)
    BY <1>1 DEF sign, sign_32, sign_64
  <2> QED
    BY <1>1, <1>4, <2>1 DEF QuoNeg
<1>6. r.rem \in BOOLEAN
  BY DEF Ops
<1> HIDE DEF n, d
<1>7. CASE d = 0
  <2>1. Number(r) = IF r.rem THEN n ELSE -1
    BY <1>7 DEF Number, Quotient, Remainder, n, d
  <2>2. Signs(r, q, m) = IF r.rem THEN (IF n < 0 THEN Neg(Abs(n)) ELSE Abs(n)) ELSE Pow2[Width(r)] - 1
    BY <1>1, <1>2, <1>4, <1>5, <1>7 DEF Signs
  <2>3. Neg(Abs(n)) = (-Abs(n)) % Full /\ Abs(n) = Abs(n) % Full /\ Neg(Abs(n)) \in Nat
    BY <1>3, NegIs
  <2>4. (n < 0 => -Abs(n) = n) /\ (n >= 0 => Abs(n) = n)
    BY <1>1 DEF Abs
  <2>5. r.rem => Signs(r, q, m) = n % Full /\ Signs(r, q, m) \in Nat
    BY <1>1, <1>3, <2>2, <2>3, <2>4
  <2>6. ~r.rem => Signs(r, q, m) = Pow2[Width(r)] - 1 /\ Signs(r, q, m) \in Nat
    BY <1>2, <1>4, <1>7, <2>2
  <2>7. (0 <= n /\ n <= n) \/ (n <= n /\ n <= 0)
    BY <1>1
  <2> QED
    BY <1>1, <1>6, <1>7, <2>1, <2>5, <2>6, <2>7 DEF n, d
<1>8. CASE d # 0
  <2>1. q * Abs(d) + m = Abs(n) /\ m < Abs(d)
    BY <1>2, <1>4, <1>8
  <2>2. /\ Quotient(n, d) = IF (n < 0) = (d < 0) THEN q ELSE -q
        /\ Remainder(n, d) = IF n < 0 THEN -m ELSE m
    BY <1>1, <1>2, <1>8, <2>1, SignedDivision
  <2>3. q < Full /\ m < Full /\ m <= Abs(n)
    <3>1. \A x, y \in Nat : y # 0 => x <= x * y /\ x * y \in Nat
      OBVIOUS
    <3>2. q <= q * Abs(d) /\ q * Abs(d) \in Nat
      BY <1>2, <1>4, <1>8, <3>1
    <3> QED
      BY <1>2, <1>3, <2>1, <3>2
  <2>4. /\ Neg(q) = (-q) % Full /\ q = q % Full /\ Neg(q) \in Nat
        /\ Neg(m) = (-m) % Full /\ m = m % Full /\ Neg(m) \in Nat
    BY <1>2, <2>3, NegIs
  <2>5. Number(r) = IF r.rem THEN (IF n < 0 THEN -m ELSE m)
                             ELSE (IF (n < 0) = (d < 0) THEN q ELSE -q)
    BY <2>2 DEF Number, n, d
  <2>6. Signs(r, q, m) = IF r.rem THEN (IF n < 0 THEN Neg(m) ELSE m)
                                  ELSE (IF (n < 0) = (d < 0) THEN q ELSE Neg(q))
    BY <1>1, <1>5, <1>8 DEF Signs
  <2>7. Signs(r, q, m) = Number(r) % Full /\ Signs(r, q, m) \in Nat /\ Number(r) \in Int
    BY <1>2, <2>4, <2>5, <2>6
  <2>8. r.rem => (0 <= Number(r) /\ Number(r) <= n) \/ (n <= Number(r) /\ Number(r) <= 0)
    BY <1>1, <1>2, <2>3, <2>5 DEF Abs
  <2> QED
    BY <1>8, <2>7, <2>8 DEF n, d
<1> QED
  BY <1>7, <1>8

\* What fits half the width survives it.
LEMMA ExtendFits ==
  ASSUME NEW x \in Int, -Half <= 2 * x, 2 * x < Half
  PROVE  SignExtend(x % Full) = x % Full
<1>1. Half \in Nat /\ Full \in Nat /\ Half >= 2 /\ Full >= 2 * Half /\ Full = Half * Half
  BY Sizes
<1>2. CASE x >= 0
  <2>1. x \in Nat /\ x < Full /\ x < Half
    BY <1>1, <1>2
  <2>2. x % Full = x /\ Low(x) = x
    BY <1>1, <2>1, SmallMod DEF Low
  <2> QED
    BY <1>1, <2>1, <2>2, SignExtendIs
<1>3. CASE x < 0
  <2>1. Full + x \in Nat /\ Full + x < Full /\ x = Full * (-1) + (Full + x) /\ Full # 0
    BY <1>1, <1>3
  <2>2. x % Full = Full + x
    BY <1>1, <2>1, DivMod
  <2>3. Half + x \in Nat /\ Half + x < Half /\ Full + x = Half * (Half - 1) + (Half + x)
        /\ Half # 0 /\ Half - 1 \in Int /\ Full + x \in Int
    BY <1>1, <1>3
  <2>4. (Full + x) % Half = Half + x
    <3>1. Half \in Nat
      BY <1>1
    <3> QED
      BY <2>3, <3>1, DivMod
  <2>5. 2 * (Half + x) >= Half
    BY <1>1
  <2>6. SignExtend(Full + x) = Full - Half + (Half + x)
    BY <2>1, <2>4, <2>5, SignExtendIs DEF Low
  <2> QED
    BY <1>1, <2>2, <2>6
<1> QED
  BY <1>2, <1>3

\* The operations for which the divider is meant to be right.
Covered(r) == r.word \/ ~op_word(r) \/ FitsHalf(r)

\* Both operands of these operations part into a sign and a magnitude.
LEMMA CoveredParted ==
  ASSUME NEW r \in Ops, Covered(r)
  PROVE  Parted(r, r.op1) /\ Parted(r, r.op2)
<1>1. r.op1 \in Values /\ r.op2 \in Values
  BY DEF Ops
<1>2. CASE r.word
  BY <1>1, <1>2, PartedWord
<1>3. CASE ~op_word(r)
  <2>1. ~r.word
    BY <1>3 DEF op_word
  <2>2. \A x \in Values : sign(r, x) = sign_64(r, x) /\ mag(r, x) = mag_64(r, x)
    BY <1>3 DEF sign, mag
  <2> QED
    BY <1>1, <2>1, <2>2, PartedFull DEF Parted
<1>4. CASE ~r.word /\ op_word(r) /\ FitsHalf(r)
  <2>1. \A x \in {r.op1, r.op2} : -Half <= 2 * Operand(r, x) /\ 2 * Operand(r, x) < Half
    BY <1>4 DEF FitsHalf
  <2> QED
    BY <1>1, <1>4, <2>1, PartedShort
<1> QED
  BY <1>2, <1>3, <1>4 DEF Covered

\* The output stage makes of quotient and remainder what RISC-V defines.
LEMMA OutputRight ==
  ASSUME NEW r \in Ops, Covered(r), NEW q, NEW m,
         Divided(q, m, mag(r, r.op2), mag(r, r.op1), Width(r))
  PROVE  (IF op_word(r) THEN SignExtend(Signs(r, q, m)) ELSE Signs(r, q, m)) = Reference(r)
<1> DEFINE n == Operand(r, r.op1)
           d == Operand(r, r.op2)
           v == Signs(r, q, m)
           x == Number(r)
<1>1. /\ v \in Nat /\ x \in Int
      /\ d # 0 \/ r.rem => v = x % Full
      /\ d = 0 /\ ~r.rem => v = Pow2[Width(r)] - 1 /\ x = -1
      /\ r.rem => (0 <= x /\ x <= n) \/ (n <= x /\ x <= 0)
  BY CoveredParted, SignsMakeNumber
<1>2. Reference(r) = IF r.word THEN SignExtend(x % Full) ELSE x % Full
  BY DEF Reference, Number
<1>3. Half \in Nat /\ Half >= 2 /\ Full \in Nat /\ Full >= 2 * Half /\ Full = Half * Half
  BY Sizes
<1>4. r.word => op_word(r)
  BY DEF op_word
<1>5. Pow2[Width(r)] = IF op_word(r) THEN Half ELSE Full
  BY DEF Width, Half, Full
<1>6. (-1) % Full = Full - 1
  <2>1. Full - 1 \in Nat /\ Full - 1 < Full /\ -1 = Full * (-1) + (Full - 1) /\ Full # 0
    BY <1>3
  <2> QED
    BY <1>3, <2>1, DivMod
<1>7. SignExtend(Half - 1) = Full - 1 /\ SignExtend(Full - 1) = Full - 1
  <2>1. Half - 1 \in Nat /\ Half - 1 < Half /\ Full - 1 \in Nat /\ 2 * (Half - 1) >= Half
    BY <1>3
  <2>2. Low(Half - 1) = Half - 1
    BY <1>3, <2>1, SmallMod DEF Low
  <2>3. Low(Full - 1) = Half - 1
    <3>1. Full - 1 = Half * (Half - 1) + (Half - 1) /\ Half # 0 /\ Half \in Nat
      BY <1>3
    <3> QED
      BY <2>1, <3>1, DivMod DEF Low
  <2> QED
    BY <1>3, <2>1, <2>2, <2>3, SignExtendIs
<1> HIDE DEF n, d, v, x
<1>8. CASE d = 0 /\ ~r.rem
  <2>1. x % Full = Full - 1 /\ v = (IF op_word(r) THEN Half ELSE Full) - 1
    BY <1>1, <1>5, <1>6, <1>8
  <2> QED
    BY <1>2, <1>4, <1>7, <2>1 DEF v
<1>9. CASE (d # 0 \/ r.rem) /\ (r.word \/ ~op_word(r))
  <2>1. v = x % Full
    BY <1>1, <1>9
  <2> QED
    BY <1>2, <1>4, <1>9, <2>1 DEF v
<1>10. CASE (d # 0 \/ r.rem) /\ ~r.word /\ op_word(r)
  <2>1. v = x % Full
    BY <1>1, <1>10
  <2>2. FitsHalf(r)
    BY <1>10 DEF Covered
  <2>3. /\ -Half <= 2 * n /\ 2 * n < Half
        /\ -Half <= 2 * Quotient(n, d) /\ 2 * Quotient(n, d) < Half
    BY <2>2 DEF FitsHalf, n, d
  <2>4. n \in Int
    BY CoveredParted DEF Parted, n
  <2>5. -Half <= 2 * x /\ 2 * x < Half
    <3>1. CASE r.rem
      BY <1>1, <1>3, <2>3, <2>4, <3>1
    <3>2. CASE ~r.rem
      <4>1. x = Quotient(n, d)
        BY <3>2 DEF x, Number, n, d
      <4> QED
        BY <2>3, <4>1
    <3> QED
      BY <3>1, <3>2
  <2>6. SignExtend(x % Full) = x % Full
    BY <1>1, <2>5, ExtendFits
  <2> QED
    BY <1>2, <1>10, <2>1, <2>6 DEF v
<1> QED
  BY <1>8, <1>9, <1>10

\* On every width, 64 bits included, the divider answers what RISC-V defines: every
\* word instruction, every operation done on the full width, and a shortened one
\* whose operands and quotient fit half the width; division by zero and the overflow
\* of the most negative number included, whatever traps came before.
THEOREM DividerIsRight == Spec => []QuotientCorrect
<1> DEFINE Inv == LoopInv /\ QuotientCorrect
<1>1. Init => Inv
  BY LoopInvInductive DEF Init, QuotientCorrect
<1>2. ASSUME Inv, [Next]_divVars PROVE QuotientCorrect'
  <2>1. CASE Output
    <3>1. req \in Ops /\ Working /\ state = "OUTPUT"
      BY <1>2, <2>1 DEF LoopInv, Output
    <3>2. Divided(quo, rem, mag(req, req.op2), mag(req, req.op1), Width(req))
      BY <3>1 DEF Working
    <3>3. result_64 = Signs(req, quo, rem)
      BY <3>1 DEF Working, result_64, Signs
    <3>4. resp_result' = IF op_word(req) THEN SignExtend(Signs(req, quo, rem))
                                         ELSE Signs(req, quo, rem)
      BY <2>1, <3>1, <3>3 DEF Output, Working
    <3>5. Covered(req) => resp_result' = Reference(req)
      BY <3>1, <3>2, <3>4, OutputRight
    <3>6. req' = req
      BY <2>1 DEF Output
    <3> QED
      BY <3>5, <3>6 DEF QuotientCorrect, Covered
  <2>2. CASE Accept
    <3>1. ~resp_valid'
      BY <2>2 DEF Accept, Load, active
    <3> QED
      BY <3>1 DEF QuotientCorrect
  <2>3. CASE Calculate
    <3>1. ~resp_valid'
      BY <1>2, <2>3 DEF Calculate, LoopInv, Working
    <3> QED
      BY <3>1 DEF QuotientCorrect
  <2>4. CASE Idle \/ Trap
    BY <2>4 DEF Idle, Trap, QuotientCorrect
  <2>5. CASE UNCHANGED divVars
    BY <1>2, <2>5 DEF divVars, QuotientCorrect
  <2> QED
    BY <1>2, <2>1, <2>2, <2>3, <2>4, <2>5 DEF Next
<1>3. Inv /\ [Next]_divVars => Inv'
  BY <1>2, LoopInvInductive
<1> QED
  BY <1>1, <1>3, PTL DEF Spec
=============================================================================
