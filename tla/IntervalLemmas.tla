--------------------------- MODULE IntervalLemmas ---------------------------
(***************************************************************************)
(* Facts about quotients and remainders, on which the output schedules     *)
(* rest: std::floor(t / interval) is t \div interval, and the fraction     *)
(* that write_plot_file compares with dt is t % interval.  At the end,      *)
(* induction over an interval, for what is defined recursively.            *)
(***************************************************************************)
EXTENDS Integers, WellFoundedInduction, TLAPS

(* The remainder of a schedule is below its interval.                      *)
LEMMA RemainderRange ==
  \A a, b \in Int : b > 0 => a % b \in Int /\ 0 <= a % b /\ a % b < b
OBVIOUS

(* A time is a number of whole intervals and a remainder.                  *)
LEMMA QuotientRemainder ==
  \A a, b \in Int : b > 0 => a \div b \in Int /\ a = (b * (a \div b)) + (a % b)
OBVIOUS

LEMMA MultipleAtLeastOne == \A b, x \in Int : b > 0 /\ x >= 1 => b * x >= b
OBVIOUS

(* The growth of a time step is not negative.                              *)
LEMMA PerCentOfNat ==
  \A a, g \in Nat : (g * a) \div 100 \in Int /\ (g * a) \div 100 >= 0
OBVIOUS

(* Quotient and remainder are unique.                                      *)
LEMMA QuotientUnique ==
  ASSUME NEW b \in Int, b > 0, NEW q \in Int, NEW p \in Int,
         NEW r \in Int, NEW s \in Int,
         0 <= r, r < b, 0 <= s, s < b, (b * q) + r = (b * p) + s
  PROVE  q = p
<1>1. b * (q - p) = s - r  /\ b * (p - q) = r - s
  OBVIOUS
<1>2. ~(q - p >= 1) /\ ~(p - q >= 1)
  BY <1>1, MultipleAtLeastOne
<1>3. QED
  BY <1>2

(* The test of write_plot_file: the remainder at the end of a step is less *)
(* than the step exactly when the step has passed, or reached, a multiple  *)
(* of the interval.                                                        *)
LEMMA PassedMultiple ==
  ASSUME NEW b \in Int, b > 0, NEW a \in Int, NEW d \in Int, d > 0
  PROVE  /\ a % b < d => a \div b > (a - d) \div b
         /\ a % b >= d => a \div b = (a - d) \div b
<1> DEFINE qa == a \div b
           ra == a % b
           qc == (a - d) \div b
           rc == (a - d) % b
<1>1. /\ qa \in Int /\ ra \in Int /\ 0 <= ra /\ ra < b /\ a = (b * qa) + ra
      /\ qc \in Int /\ rc \in Int /\ 0 <= rc /\ rc < b /\ a - d = (b * qc) + rc
  <2>1. a - d \in Int
    OBVIOUS
  <2>2. QED
    BY <2>1, RemainderRange, QuotientRemainder
<1> HIDE DEF qa, ra, qc, rc
<1>2. ASSUME ra < d
      PROVE  qa > qc
  <2>1. (b * qc) + rc < b * qa
    BY <1>1, <1>2
  <2>2. b * (qa - qc) > 0
    BY <1>1, <2>1
  <2>3. ~(qc - qa >= 0)
    BY <1>1, <2>2
  <2>4. QED
    BY <1>1, <2>3
<1>3. ASSUME ra >= d
      PROVE  qa = qc
  <2>1. 0 <= ra - d /\ ra - d < b /\ ra - d \in Int
    BY <1>1, <1>3
  <2>2. (b * qa) + (ra - d) = (b * qc) + rc
    BY <1>1
  <2>3. QED
    BY <1>1, <2>1, <2>2, QuotientUnique
<1>4. QED
  BY <1>1, <1>2, <1>3 DEF qa, ra, qc, rc

(* A later time is not in an earlier interval.                             *)
LEMMA QuotientMonotone ==
  ASSUME NEW b \in Int, b > 0, NEW a \in Int, NEW c \in Int, a <= c
  PROVE  a \div b <= c \div b
<1> DEFINE qa == a \div b
           ra == a % b
           qc == c \div b
           rc == c % b
<1>1. /\ qa \in Int /\ ra \in Int /\ 0 <= ra /\ ra < b /\ a = (b * qa) + ra
      /\ qc \in Int /\ rc \in Int /\ 0 <= rc /\ rc < b /\ c = (b * qc) + rc
  BY RemainderRange, QuotientRemainder
<1> HIDE DEF qa, ra, qc, rc
<1>2. b * (qa - qc) < b
  BY <1>1
<1>3. ~(qa - qc >= 1)
  BY <1>1, <1>2, MultipleAtLeastOne
<1>4. QED
  BY <1>1, <1>3 DEF qa, qc

(* Shifting by a multiple of the interval leaves the remainder alone.      *)
LEMMA ShiftedRemainder ==
  ASSUME NEW b \in Int, b > 0, NEW a \in Int, NEW c \in Int, c % b = 0
  PROVE  (a - c) % b = a % b
<1> DEFINE qa == a \div b
           ra == a % b
           qc == c \div b
           qd == (a - c) \div b
           rd == (a - c) % b
<1>1. /\ qa \in Int /\ ra \in Int /\ 0 <= ra /\ ra < b /\ a = (b * qa) + ra
      /\ qc \in Int /\ c = b * qc
      /\ qd \in Int /\ rd \in Int /\ 0 <= rd /\ rd < b /\ a - c = (b * qd) + rd
  <2>1. a - c \in Int
    OBVIOUS
  <2>2. QED
    BY <2>1, RemainderRange, QuotientRemainder
<1> HIDE DEF qa, ra, qc, qd, rd
<1>2. (b * (qa - qc)) + ra = (b * qd) + rd
  BY <1>1
<1>3. qa - qc = qd
  <2>1. qa - qc \in Int
    BY <1>1
  <2>2. QED
    BY <1>1, <1>2, <2>1, QuotientUnique
<1>4. b * (qa - qc) = b * qd
  BY <1>3
<1>5. b * (qa - qc) \in Int /\ b * qd \in Int
  BY <1>1
<1>6. ra = rd
  BY <1>1, <1>2, <1>4, <1>5
<1>7. QED
  BY <1>6 DEF ra, rd

(* A step that ends no later than the next multiple of the interval, and   *)
(* whose end has a remainder below the step, ends on that multiple.        *)
LEMMA RemainderOfStep ==
  ASSUME NEW b \in Int, b > 0, NEW a \in Int, NEW d \in Int, d >= 1,
         d <= b - (a % b), (a + d) % b < d
  PROVE  (a + d) % b = 0
<1> DEFINE qa == a \div b
           ra == a % b
           qd == (a + d) \div b
           rd == (a + d) % b
<1>1. /\ qa \in Int /\ ra \in Int /\ 0 <= ra /\ ra < b /\ a = (b * qa) + ra
      /\ qd \in Int /\ rd \in Int /\ 0 <= rd /\ rd < b /\ a + d = (b * qd) + rd
      /\ d <= b - ra /\ rd < d
  <2>1. a + d \in Int
    OBVIOUS
  <2>2. QED
    BY <2>1, RemainderRange, QuotientRemainder
<1> HIDE DEF qa, ra, qd, rd
<1>2. CASE ra + d < b
  <2>1. (b * qa) + (ra + d) = (b * qd) + rd /\ ra + d \in Int /\ 0 <= ra + d
    BY <1>1
  <2>2. qa = qd
    BY <1>1, <1>2, <2>1, QuotientUnique
  <2>3. b * qa = b * qd /\ b * qa \in Int /\ b * qd \in Int
    BY <1>1, <2>2
  <2>4. ra + d = rd
    BY <1>1, <2>1, <2>3
  <2>5. QED
    BY <1>1, <2>4
<1>3. CASE ra + d >= b
  <2>1. (b * (qa + 1)) + 0 = (b * qd) + rd
    BY <1>1, <1>3
  <2>2. qa + 1 = qd
    <3>1. qa + 1 \in Int /\ 0 \in Int
      BY <1>1
    <3>2. QED
      BY <1>1, <2>1, <3>1, QuotientUnique
  <2>3. b * (qa + 1) = b * qd /\ b * (qa + 1) \in Int /\ b * qd \in Int
    BY <1>1, <2>2
  <2>4. rd = 0
    BY <1>1, <2>1, <2>3
  <2>5. QED
    BY <2>4 DEF rd
<1>4. QED
  BY <1>1, <1>2, <1>3

(* The remainder of the number before.                                     *)
LEMMA PreviousRemainder ==
  ASSUME NEW b \in Int, b > 0, NEW a \in Int
  PROVE  /\ a % b = 0 => (a - 1) % b = b - 1
         /\ a % b # 0 => (a - 1) % b = (a % b) - 1
<1> DEFINE qa == a \div b
           ra == a % b
           qp == (a - 1) \div b
           rp == (a - 1) % b
<1>1. /\ qa \in Int /\ ra \in Int /\ 0 <= ra /\ ra < b /\ a = (b * qa) + ra
      /\ qp \in Int /\ rp \in Int /\ 0 <= rp /\ rp < b /\ a - 1 = (b * qp) + rp
  <2>1. a - 1 \in Int
    OBVIOUS
  <2>2. QED
    BY <2>1, RemainderRange, QuotientRemainder
<1> HIDE DEF qa, ra, qp, rp
<1>2. CASE ra = 0
  <2>1. (b * (qa - 1)) + (b - 1) = (b * qp) + rp
    BY <1>1, <1>2
  <2>2. qa - 1 = qp
    <3>1. qa - 1 \in Int /\ b - 1 \in Int /\ 0 <= b - 1 /\ b - 1 < b
      BY <1>1
    <3>2. QED
      BY <1>1, <2>1, <3>1, QuotientUnique
  <2>3. b * (qa - 1) = b * qp /\ b * (qa - 1) \in Int /\ b * qp \in Int
    BY <1>1, <2>2
  <2>4. rp = b - 1
    BY <1>1, <2>1, <2>3
  <2>5. QED
    BY <1>2, <2>4 DEF ra, rp
<1>3. CASE ra # 0
  <2>1. (b * qa) + (ra - 1) = (b * qp) + rp
    BY <1>1
  <2>2. qa = qp
    <3>1. ra - 1 \in Int /\ 0 <= ra - 1 /\ ra - 1 < b
      BY <1>1, <1>3
    <3>2. QED
      BY <1>1, <2>1, <3>1, QuotientUnique
  <2>3. b * qa = b * qp /\ b * qa \in Int /\ b * qp \in Int
    BY <1>1, <2>2
  <2>4. rp = ra - 1
    BY <1>1, <2>1, <2>3
  <2>5. QED
    BY <1>3, <2>4 DEF ra, rp
<1>4. QED
  BY <1>2, <1>3

(* Within an interval the remainder goes on with the number, and starts    *)
(* again at its end.                                                       *)
LEMMA RemainderAfter ==
  ASSUME NEW b \in Int, b > 0, NEW a \in Int, NEW k \in Int, k >= 0
  PROVE  /\ (a % b) + k < b => (a + k) % b = (a % b) + k
         /\ (a % b) + k = b => (a + k) % b = 0
<1> DEFINE qa == a \div b
           ra == a % b
           qk == (a + k) \div b
           rk == (a + k) % b
<1>1. /\ qa \in Int /\ ra \in Int /\ 0 <= ra /\ ra < b /\ a = (b * qa) + ra
      /\ qk \in Int /\ rk \in Int /\ 0 <= rk /\ rk < b /\ a + k = (b * qk) + rk
  <2>1. a + k \in Int
    OBVIOUS
  <2>2. QED
    BY <2>1, RemainderRange, QuotientRemainder
<1> HIDE DEF qa, ra, qk, rk
<1>2. ASSUME ra + k < b PROVE rk = ra + k
  <2>1. (b * qa) + (ra + k) = (b * qk) + rk
    BY <1>1
  <2>2. qa = qk
    <3>1. ra + k \in Int /\ 0 <= ra + k
      BY <1>1
    <3>2. QED
      BY <1>1, <1>2, <2>1, <3>1, QuotientUnique
  <2>3. b * qa = b * qk /\ b * qa \in Int /\ b * qk \in Int
    BY <1>1, <2>2
  <2>4. QED
    BY <1>1, <2>1, <2>3
<1>3. ASSUME ra + k = b PROVE rk = 0
  <2>1. (b * (qa + 1)) + 0 = (b * qk) + rk
    BY <1>1, <1>3
  <2>2. qa + 1 = qk
    <3>1. qa + 1 \in Int /\ 0 \in Int /\ 0 < b
      BY <1>1
    <3>2. QED
      BY <1>1, <2>1, <3>1, QuotientUnique
  <2>3. b * (qa + 1) = b * qk /\ b * (qa + 1) \in Int /\ b * qk \in Int
    BY <1>1, <2>2
  <2>4. QED
    BY <1>1, <2>1, <2>3
<1>4. QED
  BY <1>2, <1>3 DEF ra, rk

LEMMA RemainderOfZero == \A b \in Int : b > 0 => 0 % b = 0
OBVIOUS

(* Samples of period p in a step of length d that is r longer than q       *)
(* periods, taken lag behind the flow: q of them, up to one less or more   *)
(* where the quotients are rounded, and those that are missing.  So many   *)
(* fit into the step and the period after it, the lag stays within two     *)
(* periods, and a sampler does not run ahead by itself.                    *)
LEMMA SamplesInStep ==
  ASSUME NEW p \in Int, p >= 1, NEW d \in Int, NEW lag \in Int,
         NEW q \in Int, NEW r \in Int, d = (p * q) + r, 0 <= r, r < p,
         NEW u \in Int, NEW v \in Int, lag = (p * u) + v, 0 <= v, v < p,
         NEW e \in {0, 1}, e = 1 => r = 0, NEW f \in {0, 1}, f = 0 => r = 0,
         NEW c \in Int, lag <= 0 => c = 0, lag > 0 => c = u \/ (c = u - 1 /\ v = 0),
         NEW n \in Int, n = q - e + c \/ n = q + f, n <= q - e + c, n <= q + f
  PROVE  /\ n * p \in Int /\ n * p <= d + p
         /\ lag <= 2 * p => lag + d - (n * p) <= 2 * p
         /\ lag >= 0 => lag + d - (n * p) >= 0
         /\ lag < 0 => lag + d - (n * p) >= lag
<1> DEFINE m == q - e + c
           s == q + f
<1>1. /\ m * p = (p * q) - (e * p) + (p * c) /\ m * p \in Int
      /\ s * p = (p * q) + (f * p) /\ s * p \in Int
      /\ n * p \in Int /\ p * q \in Int /\ p * c \in Int /\ p * u \in Int
  OBVIOUS
<1>2. /\ e * p \in {0, p} /\ (e * p = p => r = 0)
      /\ f * p \in {0, p} /\ (f * p = 0 => r = 0)
  BY SMT
<1>3. /\ lag <= 0 => p * c = 0
      /\ lag > 0 => p * c = p * u \/ (p * c = (p * u) - p /\ v = 0)
  BY SMT
<1>4. n * p <= m * p /\ n * p <= s * p /\ (n * p = m * p \/ n * p = s * p)
  <2>1. (m - n) * p >= 0 /\ (s - n) * p >= 0
    BY SMT
  <2>2. (m - n) * p = (m * p) - (n * p) /\ (s - n) * p = (s * p) - (n * p)
    BY SMT
  <2>3. n = m \/ n = s
    OBVIOUS
  <2> HIDE DEF m, s
  <2>4. QED
    BY <2>1, <2>2, <2>3, <1>1
<1> HIDE DEF m, s
<1>5. QED
  BY <1>1, <1>2, <1>3, <1>4

(* The k-th sample of a step lies within it.                               *)
LEMMA SampleTime ==
  ASSUME NEW p \in Int, p >= 1, NEW n \in Int, NEW k \in Int, 1 <= k, k <= n,
         NEW d \in Int, n * p <= d + p
  PROVE  (k - 1) * p \in Int /\ 0 <= (k - 1) * p /\ (k - 1) * p <= d
<1>1. (k - 1) * p >= 0 /\ (n - k) * p >= 0
  OBVIOUS
<1>2. (n - k) * p = (n * p) - ((k - 1) * p) - p
  OBVIOUS
<1>3. QED
  BY <1>1, <1>2

-----------------------------------------------------------------------------
(* Induction, with a set in the place of the predicate. *)

LEMMA LeastNatural ==
  ASSUME NEW S, S \subseteq Nat, S # {}
  PROVE  \E m \in S : \A k \in S : m <= k
<1> DEFINE R == OpToRel(<, Nat)
<1>1. \A x, y \in Nat : x < y => << x, y >> \in R
  BY DEF OpToRel
<1>2. IsWellFoundedOn(R, Nat)
  BY NatLessThanWellFounded
<1> HIDE DEF R
<1>3. PICK m \in S : \A y \in S : ~ (<< y, m >> \in R)
  BY <1>2, WFMin
<1>4. ASSUME NEW k \in S
      PROVE  m <= k
  <2>1. m \in Nat /\ k \in Nat
    OBVIOUS
  <2>2. ~(k < m)
    BY <1>1, <1>3, <2>1, Zenon
  <2>3. QED
    BY <2>1, <2>2
<1>5. QED
  BY <1>4

(* What holds of a and passes on from i to i + 1 holds up to b.            *)
LEMMA IntervalInduction ==
  ASSUME NEW a \in Int, NEW b \in Int, NEW S,
         a <= b => a \in S,
         \A i \in a..(b - 1) : i \in S => i + 1 \in S
  PROVE  \A i \in a..b : i \in S
<1> SUFFICES ASSUME NEW j \in a..b, j \notin S
             PROVE  FALSE
  OBVIOUS
<1> DEFINE T == {d \in Nat : a + d <= b /\ a + d \notin S}
<1>1. j - a \in Nat /\ a + (j - a) = j /\ j <= b
  OBVIOUS
<1>2. j - a \in T
  BY <1>1
<1>3. T \subseteq Nat /\ T # {}
  BY <1>2
<1> HIDE DEF T
<1>4. PICK m \in T : \A k \in T : m <= k
  BY <1>3, LeastNatural
<1>5. m \in Nat /\ a + m <= b /\ a + m \notin S
  BY <1>4 DEF T
<1>6. m # 0
  BY <1>5
<1>7. m - 1 \in Nat /\ a + (m - 1) <= b /\ a + (m - 1) \in a..(b - 1)
  BY <1>5, <1>6
<1>8. m - 1 \notin T
  BY <1>4, <1>5
<1>9. a + (m - 1) \in S
  BY <1>7, <1>8 DEF T
<1>10. (a + (m - 1)) + 1 = a + m
  BY <1>5
<1>11. QED
  BY <1>5, <1>7, <1>9, <1>10

=============================================================================
