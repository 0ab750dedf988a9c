----------------------------- MODULE Mathematics ----------------------------
(***************************************************************************)
(* What the proofs about several components need of numbers and folds:     *)
(* induction; % and \div for a modulus that is not a number but a          *)
(* constant, which address and register arithmetic that wraps relies on;   *)
(* and folds over sets and sequences.                                      *)
(***************************************************************************)
EXTENDS Integers, FiniteSetsExt, FiniteSetTheorems, WellFoundedInduction, TLAPS

-----------------------------------------------------------------------------
(* Induction over the natural numbers, on sets                             *)

LEMMA Least ==
  ASSUME NEW T \in SUBSET Nat, T # {}
  PROVE  \E m \in T : \A k \in T : m <= k
<1> DEFINE R == OpToRel(<, Nat)
<1>1. R = {ss \in Nat \X Nat : ss[1] < ss[2]} BY DEF OpToRel
<1>2. IsWellFoundedOn(R, Nat) BY NatLessThanWellFounded
<1> HIDE DEF R
<1>3. PICK m \in T : \A k \in T : ~ (<<k, m>> \in R) BY <1>2, WFMin
<1>4. ASSUME NEW k \in T PROVE m <= k
  <2> DEFINE ss == <<k, m>>
  <2>1. ss \in Nat \X Nat /\ ss \notin R BY <1>3, <1>4
  <2>2. ss[1] = k /\ ss[2] = m OBVIOUS
  <2>3. ~ (ss[1] < ss[2]) BY <2>1, <1>1
  <2> QED BY <2>2, <2>3
<1> QED BY <1>3, <1>4

LEMMA Induction ==
  ASSUME NEW T \in SUBSET Nat, 0 \in T, \A n \in T : n + 1 \in T
  PROVE  T = Nat
<1> SUFFICES ASSUME T # Nat PROVE FALSE OBVIOUS
<1> DEFINE U == Nat \ T
<1>1. U \in SUBSET Nat /\ U # {} OBVIOUS
<1>2. PICK m \in U : \A k \in U : m <= k BY <1>1, Least
<1>3. m # 0 /\ m - 1 \in Nat BY <1>2
<1>4. m - 1 \notin U BY <1>2, <1>3
<1> QED BY <1>3, <1>4

-----------------------------------------------------------------------------
(* Division                                                                *)

(* Division with remainder.                                                *)
LEMMA DivMod ==
  ASSUME NEW a \in Int, NEW n \in Nat \ {0}
  PROVE  /\ a % n \in 0 .. n - 1
         /\ a \div n \in Int
         /\ a = n * (a \div n) + (a % n)
<1>1. a % n \in 0 .. n - 1 BY Z3
<1>2. a \div n \in Int BY Z3
<1>3. a = n * (a \div n) + (a % n) BY Z3
<1> QED BY <1>1, <1>2, <1>3

(* The remainder is determined by any such division.                       *)
LEMMA RemainderOfSum ==
  ASSUME NEW n \in Nat \ {0}, NEW q \in Int, NEW r \in 0 .. n - 1
  PROVE  (n * q + r) % n = r
  BY Z3

(* A multiple leaves no remainder.                                         *)
LEMMA Multiple ==
  ASSUME NEW n \in Nat \ {0}, NEW q \in Int
  PROVE  (n * q) % n = 0 /\ (n * q) \div n = q
<1>1. (n * q) % n = 0 BY Z3
<1>2. (n * q) \div n = q BY Z3
<1> QED BY <1>1, <1>2

(* The remainder of a natural number is not greater than the number.       *)
LEMMA RemainderBelow ==
  ASSUME NEW a \in Nat, NEW n \in Nat \ {0}
  PROVE  a % n \in 0 .. a
<1>1. a % n \in Nat /\ a % n <= a BY Z3
<1> QED BY <1>1

(* Counting down without passing zero.                                     *)
LEMMA Predecessor ==
  ASSUME NEW a \in Nat, NEW n \in Nat \ {0}, a % n # 0
  PROVE  (a - 1) % n = (a % n) - 1
<1> DEFINE q == a \div n
           r == (a % n) - 1
<1>1. q \in Int /\ r \in 0 .. n - 1 /\ a - 1 = n * q + r BY DivMod
<1> HIDE DEF q, r
<1>2. (n * q + r) % n = r BY <1>1, RemainderOfSum
<1> QED BY <1>1, <1>2 DEF r

(* Reducing before a further addition makes no difference.                 *)
LEMMA AddRemainder ==
  ASSUME NEW a \in Int, NEW s \in Int, NEW n \in Nat \ {0}
  PROVE  ((a % n) + s) % n = (a + s) % n
<1> DEFINE b == (a % n) + s
           q == b \div n
           r == b % n
           k == a \div n
<1>1. b \in Int /\ q \in Int /\ r \in 0 .. n - 1 /\ b = n * q + r BY DivMod
<1>2. k \in Int /\ a = n * k + (a % n) BY DivMod
<1>3. a + s = n * k + b BY <1>2
<1>4. n * k + b = n * (k + q) + r
  <2> HIDE DEF b, q, r, k
  <2> QED BY <1>1, <1>2
<1>5. (n * (k + q) + r) % n = r
  <2> HIDE DEF b, q, r, k
  <2> QED BY <1>1, <1>2, RemainderOfSum
<1> QED BY <1>3, <1>4, <1>5

(* Quotient and remainder are what is left after taking out the divisor.   *)
LEMMA DivUnique ==
  ASSUME NEW n \in Nat \ {0}, NEW q \in Int, NEW r \in 0 .. n - 1
  PROVE  (n * q + r) \div n = q /\ (n * q + r) % n = r
<1>1. (n * q + r) \div n = q BY Z3
<1> QED BY <1>1, RemainderOfSum

(* A multiple of the divisor goes to the quotient.                         *)
LEMMA DivAdd ==
  ASSUME NEW a \in Int, NEW q \in Int, NEW n \in Nat \ {0}
  PROVE  /\ (a + n * q) \div n = (a \div n) + q
         /\ (a + n * q) % n = a % n
<1> DEFINE d == a \div n
           r == a % n
           e == d + q
<1>1. d \in Int /\ r \in 0 .. n - 1 /\ a = n * d + r BY DivMod
<1> HIDE DEF d, r
<1>2. n * (d + q) = n * d + n * q BY <1>1, Z3
<1>3. n * e \in Int /\ n * d \in Int /\ n * q \in Int /\ e \in Int BY <1>1
<1>4. a + n * q = n * e + r BY <1>1, <1>2, <1>3
<1> HIDE DEF e
<1>5. (n * e + r) \div n = e /\ (n * e + r) % n = r
  BY <1>1, <1>3, DivUnique
<1> QED BY <1>1, <1>4, <1>5 DEF e, d, r

(* Multiplying by a positive number keeps the order.                       *)
LEMMA ProductOrder ==
  ASSUME NEW n \in Nat \ {0}, NEW a \in Int, NEW b \in Int
  PROVE  /\ n * a < n * b <=> a < b
         /\ n * a <= n * b <=> a <= b
         /\ n * a = n * b <=> a = b
<1>1. a < b => n * a < n * b BY Z3
<1>2. b < a => n * b < n * a BY Z3
<1>3. a = b => n * a = n * b OBVIOUS
<1>4. n * a \in Int /\ n * b \in Int OBVIOUS
<1> QED BY <1>1, <1>2, <1>3, <1>4

(* Turning a number of two parts over: the upper part, below p, comes to   *)
(* the lower end.                                                          *)
LEMMA TurnOver ==
  ASSUME NEW p \in Nat \ {0}, NEW q \in Nat \ {0}, NEW a \in Nat, a < p * q
  PROVE  /\ a \div q \in 0 .. p - 1 /\ a % q \in 0 .. q - 1
         /\ (a * p) % (p * q) = p * (a % q)
         /\ (a * p) \div (p * q) = a \div q
         /\ p * (a % q) + (a \div q) \in Nat
         /\ p * (a % q) + (a \div q) < p * q
<1> DEFINE d == a \div q
           r == a % q
           n == p * q
<1>1. d \in Int /\ r \in 0 .. q - 1 /\ a = q * d + r BY DivMod
<1> HIDE DEF d, r
<1>2. n \in Nat \ {0} BY Z3
<1>3. d >= 0
  <2>1. CASE d < 0
    <3>1. d + 1 <= 0 BY <2>1, <1>1
    <3>2. q * (d + 1) <= q * 0 BY <1>1, <3>1, ProductOrder
    <3>3. q * (d + 1) = q * d + q BY <1>1, Z3
    <3> QED BY <1>1, <3>2, <3>3
  <2> QED BY <2>1, <1>1
<1>4. d < p
  <2>1. q * d <= a BY <1>1
  <2>2. q * d < q * p BY <1>1, <2>1, Z3
  <2> QED BY <1>1, <2>2, ProductOrder
<1>5. d \in 0 .. p - 1 BY <1>1, <1>3, <1>4
<1>6. a * p = n * d + p * r
  <2>1. (q * d + r) * p = (p * q) * d + p * r BY <1>1, Z3
  <2> QED BY <1>1, <2>1
<1>7. p * r \in Nat /\ p * r <= n - p
  <2>1. r <= q - 1 /\ r \in Nat BY <1>1
  <2>2. p * r <= p * (q - 1) BY <2>1, ProductOrder
  <2>3. p * (q - 1) = p * q - p BY Z3
  <2>4. p * r \in Nat BY <2>1
  <2> QED BY <2>2, <2>3, <2>4
<1> HIDE DEF n
<1>8. p * r \in 0 .. n - 1 BY <1>2, <1>7
<1> DEFINE l == p * r
<1>9. (n * d + l) \div n = d /\ (n * d + l) % n = l
  <2>1. l \in 0 .. n - 1 BY <1>8
  <2> HIDE DEF l
  <2> QED BY <1>1, <1>2, <2>1, DivUnique
<1>10. l + d \in Nat /\ l + d < n BY <1>2, <1>5, <1>7
<1> QED BY <1>1, <1>5, <1>6, <1>9, <1>10 DEF d, r, n

(* A natural number below the product of two others.                       *)
LEMMA QuotientBelow ==
  ASSUME NEW a \in Nat, NEW n \in Nat \ {0}
  PROVE  a \div n \in 0 .. a
<1> DEFINE d == a \div n
           r == a % n
<1>1. d \in Int /\ r \in 0 .. n - 1 /\ a = n * d + r BY DivMod
<1> HIDE DEF d, r
<1>2. d >= 0 BY <1>1, Z3
<1>3. n * d >= 1 * d BY <1>1, <1>2, Z3
<1> QED BY <1>1, <1>2, <1>3 DEF d

(* Numbers of two words: a remainder is that of the upper word.            *)
LEMMA TwoWords ==
  ASSUME NEW n \in Nat \ {0}, NEW q \in Int, NEW low \in 0 .. n - 1
  PROVE  /\ (q * n + low) % (n * n) = (q % n) * n + low
         /\ q * n + low >= n * n <=> q >= n
         /\ q * n + low < 0 <=> q < 0
         /\ q * n + low \in Int /\ n * n \in Nat \ {0}
<1> DEFINE d == q \div n
           r == q % n
           m == n * n
           l == r * n + low
<1>1. d \in Int /\ r \in 0 .. n - 1 /\ q = n * d + r BY DivMod
<1> HIDE DEF d, r
<1>2. m \in Nat \ {0} BY Z3
<1>3. r * n \in Nat /\ r * n <= m - n
  <2>1. r <= n - 1 /\ r \in Nat /\ n - 1 \in Int BY <1>1
  <2>2. n * r <= n * (n - 1) BY <2>1, ProductOrder
  <2>3. n * (n - 1) = n * n - n /\ n * r = r * n BY <2>1, Z3
  <2>4. r * n \in Nat BY <2>1
  <2> QED BY <2>2, <2>3, <2>4
<1>4. q * n + low = m * d + l
  <2>1. (n * d + r) * n + low = (n * n) * d + (r * n + low) BY <1>1, Z3
  <2> QED BY <1>1, <2>1
<1> HIDE DEF m
<1>5. l \in 0 .. m - 1 BY <1>2, <1>3
<1> HIDE DEF l
<1>6. (m * d + l) % m = l BY <1>1, <1>2, <1>5, DivUnique
<1> DEFINE p == q * n
<1>7. p \in Int /\ p = n * q OBVIOUS
<1>8. p + low >= m <=> q >= n
  <2>1. n * n <= n * q <=> n <= q BY ProductOrder
  <2>2. CASE q >= n
    <3>1. m <= p BY <2>1, <2>2, <1>7 DEF m
    <3> HIDE DEF p
    <3> QED BY <2>2, <3>1, <1>2, <1>7
  <2>3. CASE q < n
    <3>1. q <= n - 1 /\ n - 1 \in Int BY <2>3
    <3>2. n * q <= n * (n - 1) BY <3>1, ProductOrder
    <3>3. n * (n - 1) = n * n - n BY Z3
    <3>4. p <= m - n BY <3>2, <3>3, <1>7 DEF m
    <3> HIDE DEF p
    <3> QED BY <2>3, <3>4, <1>2, <1>7
  <2> QED BY <2>2, <2>3
<1>9. p + low < 0 <=> q < 0
  <2>1. CASE q < 0
    <3>1. q <= -1 /\ -1 \in Int BY <2>1
    <3>2. n * q <= n * (-1) BY <3>1, ProductOrder
    <3>3. n * (-1) = -n OBVIOUS
    <3>4. p <= -n BY <3>2, <3>3, <1>7
    <3> HIDE DEF p
    <3> QED BY <2>1, <3>4, <1>7
  <2>2. CASE q >= 0
    <3>1. p >= 0 BY <2>2, Z3
    <3> HIDE DEF p
    <3> QED BY <2>2, <3>1, <1>7
  <2> QED BY <2>1, <2>2
<1>10. p + low \in Int BY <1>7
<1> QED BY <1>2, <1>4, <1>6, <1>8, <1>9, <1>10 DEF m, l, r, p

(* A remainder of a multiple of n, divided by n.                           *)
LEMMA Nested ==
  ASSUME NEW n \in Nat \ {0}, NEW x \in Int
  PROVE  /\ (x % (n * n)) % n = x % n
         /\ (x % (n * n)) \div n = (x \div n) - n * (x \div (n * n))
         /\ x \div (n * n) \in Int /\ x % (n * n) \in Int
<1> DEFINE m == n * n
           q == x \div m
           r == x % m
           e == n * q
<1>1. m \in Nat \ {0} BY Z3
<1> HIDE DEF m
<1>2. q \in Int /\ r \in 0 .. m - 1 /\ x = m * q + r BY <1>1, DivMod
<1> HIDE DEF q, r
<1>3. m * q = n * (n * q)
  <2>1. (n * n) * q = n * (n * q) BY <1>2, Z3
  <2> QED BY <2>1 DEF m
<1>4. e \in Int /\ r \in Int BY <1>1, <1>2
<1>5. x = r + n * e
  <2> HIDE DEF e
  <2>1. m * q \in Int /\ n * e \in Int BY <1>1, <1>2, <1>4
  <2>2. m * q = n * e BY <1>3 DEF e
  <2> QED BY <1>2, <1>4, <2>1, <2>2
<1> HIDE DEF e
<1>6. (r + n * e) \div n = (r \div n) + e /\ (r + n * e) % n = r % n BY <1>4, DivAdd
<1>7. r \div n \in Int BY <1>4, DivMod
<1>8. x \div n = (r \div n) + e /\ x % n = r % n BY <1>5, <1>6, Zenon
<1> DEFINE i == r \div n
           j == x \div n
<1>9. i \in Int /\ j = i + e BY <1>7, <1>8
<1> HIDE DEF i, j
<1>10. i = j - e BY <1>4, <1>9
<1> QED BY <1>2, <1>4, <1>8, <1>10 DEF i, j, e, q, r, m

(* Twice a number by twice another.                                        *)
LEMMA HalveBoth ==
  ASSUME NEW a \in Int, NEW p \in Nat \ {0}
  PROVE  (2 * a) \div (2 * p) = a \div p
<1> DEFINE d == a \div p
           r == a % p
           n == 2 * p
           l == 2 * r
<1>1. d \in Int /\ r \in 0 .. p - 1 /\ a = p * d + r BY DivMod
<1> HIDE DEF d, r
<1>2. n \in Nat \ {0} /\ l \in 0 .. n - 1 BY <1>1
<1>3. 2 * a = n * d + l
  <2>1. 2 * (p * d + r) = (2 * p) * d + 2 * r BY <1>1, Z3
  <2> QED BY <1>1, <2>1
<1> HIDE DEF n, l
<1>4. (n * d + l) \div n = d BY <1>1, <1>2, DivUnique
<1>5. (2 * a) \div n = d BY <1>3, <1>4, Zenon
<1> QED BY <1>5 DEF n, d

(* Twice a number makes no odd number even.                                *)
LEMMA EvenTerm ==
  ASSUME NEW x \in Int, NEW y \in Int
  PROVE  (x + 2 * y) % 2 = x % 2 /\ (x + 2 * y) \div 2 = (x \div 2) + y
<1>1. 2 \in Nat \ {0} OBVIOUS
<1> QED BY <1>1, DivAdd

(* Turning on to where it was.                                             *)
TurnedBack(p, q, a) ==
  LET y == p * (a % q) + (a \div q)
  IN  /\ (y * q) % (q * p) = q * (a \div q) /\ y \div p = a % q
      /\ ((y * q) % (q * p)) + ((y * q) \div (q * p)) = a

LEMMA TurnBack ==
  ASSUME NEW p \in Nat \ {0}, NEW q \in Nat \ {0}, NEW a \in Nat, a < p * q
  PROVE  TurnedBack(p, q, a)
<1> DEFINE d == a \div q
           r == a % q
           y == p * r + d
           z == y * q
           m == q * p
<1>1. d \in Int /\ r \in 0 .. q - 1 /\ a = q * d + r BY DivMod
<1>2. d \in 0 .. p - 1 /\ y \in Nat /\ y < p * q BY TurnOver
<1> HIDE DEF d, r
<1>3. p * q = q * p /\ r \in Int BY <1>1
<1>4. y % p = d /\ y \div p = r BY <1>2, <1>3, DivUnique
<1> HIDE DEF y
<1>5. y < q * p BY <1>2, <1>3
<1>6. z % m = q * (y % p) /\ z \div m = y \div p BY <1>2, <1>5, TurnOver
<1> HIDE DEF z, m
<1>7. z % m = q * d /\ z \div m = r BY <1>4, <1>6
<1>8. (z % m) + (z \div m) = a
  <2>1. q * d \in Int BY <1>1
  <2> QED BY <1>1, <1>3, <1>7, <2>1
<1> QED BY <1>4, <1>7, <1>8 DEF TurnedBack, z, m, y, d, r

(* The lower end of a ring goes first around, then the ring is turned.     *)
TurnedBehind(h, q, a, c) ==
  LET n == h * q
      p == 2 * h
      base == 2 * a + c
      u == base \div q
      wide == base * p + u
      x == n * c + a
  IN  /\ wide \div (2 * n) = u
      /\ n * (u % 2) + ((wide \div 2) % n)
            = ((x * p) % (p * q)) + ((x * p) \div (p * q))
      /\ wide \in Int /\ u \in Int

LEMMA TurnRing ==
  ASSUME NEW h \in Nat \ {0}, NEW q \in Nat \ {0}, NEW a \in Nat, a < h * q, NEW c \in {0, 1}
  PROVE  TurnedBehind(h, q, a, c)
<1> DEFINE n == h * q
           p == 2 * h
           base == 2 * a + c
           u == base \div q
           wide == base * p + u
           x == n * c + a
           d == a \div q
           w == a % q
           e == 2 * w + c
           b == e \div q
           v == e % q
           hv == h * v
           m == 2 * n
<1>1. d \in Int /\ w \in 0 .. q - 1 /\ a = q * d + w BY DivMod
<1>2. d >= 0 BY QuotientBelow
<1> HIDE DEF d, w
<1>3. e \in Int /\ e >= 0 /\ e < 2 * q BY <1>1
<1>4. b \in Int /\ v \in 0 .. q - 1 /\ e = q * b + v
  <2> HIDE DEF e
  <2> QED BY <1>3, DivMod
<1> HIDE DEF e, b, v
<1>5. b \in {0, 1}
  <2>1. q * b < q * 2
    <3>1. q * b \in Int BY <1>4
    <3> QED BY <1>3, <1>4, <3>1
  <2>2. 2 \in Int /\ -1 \in Int OBVIOUS
  <2>3. b < 2 BY <1>4, <2>1, <2>2, ProductOrder
  <2>4. q * (-1) < q * b
    <3>1. q * b \in Int /\ q * (-1) = -q BY <1>4
    <3> QED BY <1>3, <1>4, <3>1
  <2>5. -1 < b BY <1>4, <2>2, <2>4, ProductOrder
  <2> QED BY <1>4, <2>3, <2>5
<1>6. n \in Nat \ {0} /\ p \in Nat \ {0} /\ p * q = 2 * n /\ n = q * h
  <2>1. n \in Nat \ {0} BY Z3
  <2>2. (2 * h) * q = 2 * (h * q) /\ h * q = q * h BY Z3
  <2> QED BY <2>1, <2>2
<1>7. base \in Nat /\ base < p * q
  <2> HIDE DEF n, p
  <2>1. a < n BY DEF n
  <2> QED BY <1>6, <2>1
<1>8. base = q * (2 * d + b) + v
  <2>1. base = 2 * (q * d) + e
    <3>1. q * d \in Int BY <1>1
    <3> QED BY <1>1, <3>1 DEF e
  <2>2. q * (2 * d + b) = 2 * (q * d) + q * b BY <1>1, <1>4, Z3
  <2>3. q * d \in Int /\ q * b \in Int BY <1>1, <1>4
  <2> QED BY <1>4, <2>1, <2>2, <2>3
<1> HIDE DEF base
<1>9. u = 2 * d + b
  <2> DEFINE i == 2 * d + b
  <2>1. i \in Int BY <1>1, <1>4
  <2> HIDE DEF i
  <2>2. (q * i + v) \div q = i BY <1>4, <2>1, DivUnique
  <2>3. base = q * i + v BY <1>8 DEF i
  <2> QED BY <2>2, <2>3, Zenon DEF u, i
<1>10. base % q = v
  <2> DEFINE i == 2 * d + b
  <2>1. i \in Int BY <1>1, <1>4
  <2> HIDE DEF i
  <2>2. (q * i + v) % q = v BY <1>4, <2>1, DivUnique
  <2>3. base = q * i + v BY <1>8 DEF i
  <2> QED BY <2>2, <2>3, Zenon
<1>11. /\ u \in 0 .. p - 1 /\ p * v + u \in Nat /\ p * v + u < p * q
  <2> HIDE DEF p
  <2> QED BY <1>6, <1>7, <1>10, TurnOver DEF u
<1> HIDE DEF u
<1>12. /\ hv \in Nat /\ p * v = 2 * hv
  <2>1. (2 * h) * v = 2 * (h * v) BY <1>4, Z3
  <2>2. h * v \in Nat BY <1>4
  <2> QED BY <2>1, <2>2
<1>13. base * p = m * u + p * v
  <2>1. base = q * u + v BY <1>8, <1>9
  <2>2. (q * u + v) * p = (p * q) * u + p * v BY <1>4, <1>6, <1>11, Z3
  <2> QED BY <1>6, <2>1, <2>2
<1> HIDE DEF hv, p
<1>14. m \in Nat \ {0} /\ p * v + u \in 0 .. m - 1 /\ u \in Int /\ m * u \in Int
       /\ p * v \in Int /\ n * u \in Int
  <2>1. m \in Nat \ {0} /\ u \in Int /\ p * v \in Int BY <1>4, <1>6, <1>11
  <2> HIDE DEF m, n
  <2>2. m = p * q BY <1>6 DEF m
  <2> QED BY <1>6, <1>11, <2>1, <2>2
<1>15. wide = m * u + (p * v + u)
  <2> HIDE DEF m
  <2> QED BY <1>13, <1>14
<1>16. wide \div m = u
  <2> DEFINE i == p * v + u
  <2>1. i \in 0 .. m - 1 BY <1>14
  <2> HIDE DEF i, m
  <2>2. (m * u + i) \div m = u BY <1>14, <2>1, DivUnique
  <2>3. wide = m * u + i BY <1>15 DEF i
  <2> QED BY <2>2, <2>3, Zenon
<1> DEFINE g == n * u + (hv + d)
<1>17. wide = 2 * g + b
  <2>1. m * u = 2 * (n * u)
    <3>1. (2 * n) * u = 2 * (n * u) BY <1>6, <1>14, Z3
    <3> QED BY <3>1
  <2> HIDE DEF m, n, wide
  <2> QED BY <1>1, <1>4, <1>9, <1>12, <1>14, <1>15, <2>1
<1>18. g \in Int /\ hv + d \in 0 .. n - 1
  <2> HIDE DEF n
  <2> QED BY <1>1, <1>2, <1>4, <1>5, <1>6, <1>9, <1>11, <1>12, <1>14
<1> HIDE DEF wide
<1>19. wide \div 2 = g
  <2> HIDE DEF g
  <2>1. 2 \in Nat \ {0} /\ b \in 0 .. 2 - 1 BY <1>5
  <2>2. (2 * g + b) \div 2 = g BY <1>18, <2>1, DivUnique
  <2> QED BY <1>17, <2>2, Zenon
<1>20. g % n = hv + d
  <2> DEFINE i == hv + d
  <2>1. i \in 0 .. n - 1 BY <1>18
  <2> HIDE DEF i, n
  <2>2. (n * u + i) % n = i BY <1>6, <1>14, <2>1, DivUnique
  <2> QED BY <2>2 DEF i
<1>21. u % 2 = b
  <2>1. 2 \in Nat \ {0} /\ b \in 0 .. 2 - 1 BY <1>5
  <2>2. (2 * d + b) % 2 = b BY <1>1, <2>1, DivUnique
  <2> QED BY <1>9, <2>2, Zenon
<1>22. x \in Nat /\ x < p * q
  <2> HIDE DEF n
  <2>1. a < n BY DEF n
  <2>2. CASE c = 0
    <3>1. n * c = 0 BY <1>6, <2>2
    <3> QED BY <1>6, <2>1, <3>1
  <2>3. CASE c = 1
    <3>1. n * c = n BY <1>6, <2>3
    <3> QED BY <1>6, <2>1, <3>1
  <2> QED BY <2>2, <2>3
<1> DEFINE j == h * c + d
<1>23. j \in Int /\ x = q * j + w
  <2>1. j \in Int BY <1>1
  <2>2. (q * h) * c + (q * d + w) = q * (h * c + d) + w BY <1>1, Z3
  <2>3. n * c = (q * h) * c BY <1>6
  <2> QED BY <1>1, <2>1, <2>2, <2>3
<1> HIDE DEF x, j, n
<1>24. x % q = w /\ x \div q = j
  <2>1. (q * j + w) \div q = j /\ (q * j + w) % q = w BY <1>1, <1>23, DivUnique
  <2> QED BY <1>23, <2>1, Zenon
<1>25. (x * p) % (p * q) = p * (x % q) /\ (x * p) \div (p * q) = x \div q
  <2> HIDE DEF m, g
  <2>1. p \in Nat \ {0} BY <1>6
  <2> QED BY <1>22, <2>1, TurnOver
<1> DEFINE l == (x * p) % (p * q)
           k == (x * p) \div (p * q)
<1>26. l = p * w /\ k = j BY <1>24, <1>25
<1>27. p * w + j = n * b + (hv + d)
  <2>1. (2 * h) * w + (h * c + d) = h * (2 * w + c) + d BY <1>1, Z3
  <2>2. h * (q * b + v) + d = (h * q) * b + (h * v + d) BY <1>1, <1>4, Z3
  <2> QED BY <1>4, <2>1, <2>2 DEF p, j, e, n, hv
<1> HIDE DEF l, k
<1>28. n * (u % 2) + ((wide \div 2) % n) = l + k
  BY <1>19, <1>20, <1>21, <1>26, <1>27
<1>29. wide \in Int
  <2> HIDE DEF g
  <2> QED BY <1>4, <1>17, <1>18
<1> QED BY <1>14, <1>16, <1>28, <1>29 DEF TurnedBehind, l, k, x, wide, u, base, p, n, m

(* The lower part of a number is one of two words, of which the upper one  *)
(* is a bit.                                                               *)
LEMMA UpperBit ==
  ASSUME NEW n \in Nat \ {0}, NEW g \in Int, NEW y \in Nat, y < 2 * n
  PROVE  LET w == 2 * (n * g) + y
         IN  /\ (w \div n) % 2 \in {0, 1}
             /\ n * ((w \div n) % 2) + (w % n) = y
<1> DEFINE w == 2 * (n * g) + y
           b == y \div n
           r == y % n
           d == 2 * g + b
<1>1. b \in Int /\ r \in 0 .. n - 1 /\ y = n * b + r BY DivMod
<1> HIDE DEF b, r
<1>2. b \in {0, 1}
  <2>1. n * b < n * 2
    <3>1. n * b \in Int /\ n * 2 = 2 * n BY <1>1
    <3> QED BY <1>1, <3>1
  <2>2. n * (-1) < n * b
    <3>1. n * b \in Int /\ n * (-1) = -n BY <1>1
    <3> QED BY <1>1, <3>1
  <2>3. 2 \in Int /\ -1 \in Int OBVIOUS
  <2>4. b < 2 BY <1>1, <2>1, <2>3, ProductOrder
  <2>5. -1 < b BY <1>1, <2>2, <2>3, ProductOrder
  <2> QED BY <1>1, <2>4, <2>5
<1>3. w = n * d + r /\ d \in Int
  <2>1. n * (2 * g + b) = 2 * (n * g) + n * b BY <1>1, Z3
  <2>2. n * g \in Int /\ n * b \in Int BY <1>1
  <2> QED BY <1>1, <2>1, <2>2
<1> HIDE DEF w
<1>4. w \div n = d /\ w % n = r
  <2> HIDE DEF d
  <2>1. (n * d + r) \div n = d /\ (n * d + r) % n = r BY <1>1, <1>3, DivUnique
  <2> QED BY <1>3, <2>1, Zenon
<1>5. d % 2 = b
  <2>1. 2 \in Nat \ {0} /\ b \in 0 .. 2 - 1 BY <1>2
  <2>2. (2 * g + b) % 2 = b BY <2>1, DivUnique
  <2> QED BY <2>2
<1> HIDE DEF d
<1>6. (w \div n) % 2 = b BY <1>4, <1>5, Zenon
<1>7. n * ((w \div n) % 2) + (w % n) = y
  <2>1. n * b \in Int BY <1>1
  <2>2. n * b + r = y BY <1>1, <2>1
  <2> QED BY <1>4, <1>6, <2>2, Zenon
<1> QED BY <1>2, <1>6, <1>7 DEF w

-----------------------------------------------------------------------------
(* Folds.  A fold over a set is the value, at that set, of a function that *)
(* is defined by recursion over its subsets: c picks an element, G adds it *)
(* to the value of the others.                                             *)

Recursion(F, S, base, c, G) ==
  \A s \in SUBSET S :
    F[s] = IF s = {} THEN base ELSE G[<<c[s], F[s \ {c[s]}]>>]

(* The same as far as the values are known to have their type.             *)
TypedRecursion(F, S, V, base, c, G) ==
  /\ F[{}] = base
  /\ \A s \in SUBSET S : s # {} /\ F[s \ {c[s]}] \in V
       => F[s] = G[<<c[s], F[s \ {c[s]}]>>]

Picks(c, S) == \A s \in SUBSET S : s # {} => c[s] \in s
PicksGreatest(c, S) == \A s \in SUBSET S : s # {} => c[s] \in s /\ \A y \in s : c[s] >= y
Adds(G, S, V) == \A x \in S, v \in V : G[<<x, v>>] \in V

(* There is such a function for a finite set, and it has a type.           *)
LEMMA FoldExists ==
  ASSUME NEW S, IsFiniteSet(S), NEW V, NEW base \in V, NEW c, NEW G,
         Picks(c, S), Adds(G, S, V)
  PROVE  \E F \in [SUBSET S -> V] : Recursion(F, S, base, c, G)
<1> USE DEF Picks, Adds
<1> DEFINE Value(F, s) == IF s = {} THEN base ELSE G[<<c[s], F[s \ {c[s]}]>>]
           Upto(F, n) == \A s \in SUBSET S : Cardinality(s) <= n => F[s] = Value(F, s)
           T == {n \in Nat : \E F \in [SUBSET S -> V] : Upto(F, n)}
<1>1. \A s \in SUBSET S : IsFiniteSet(s) /\ Cardinality(s) \in Nat
                          /\ Cardinality(s) <= Cardinality(S)
  BY FS_Subset, FS_CardinalityType
<1>2. 0 \in T
  <2> DEFINE F == [s \in SUBSET S |-> base]
  <2>1. F \in [SUBSET S -> V] OBVIOUS
  <2>2. Upto(F, 0)
    <3> SUFFICES ASSUME NEW s \in SUBSET S, Cardinality(s) <= 0
                 PROVE  F[s] = Value(F, s)
      OBVIOUS
    <3>1. s = {} BY <1>1, FS_EmptySet
    <3> QED BY <3>1
  <2> QED BY <2>1, <2>2
<1>3. ASSUME NEW n \in T PROVE n + 1 \in T
  <2>1. PICK F \in [SUBSET S -> V] : Upto(F, n) OBVIOUS
  <2> DEFINE H == [s \in SUBSET S |-> Value(F, s)]
  <2>2. H \in [SUBSET S -> V]
    <3> SUFFICES ASSUME NEW s \in SUBSET S PROVE Value(F, s) \in V OBVIOUS
    <3>1. CASE s = {} BY <3>1
    <3>2. CASE s # {}
      <4>1. c[s] \in S /\ F[s \ {c[s]}] \in V BY <3>2
      <4> QED BY <3>2, <4>1
    <3> QED BY <3>1, <3>2
  <2>3. Upto(H, n + 1)
    <3> SUFFICES ASSUME NEW s \in SUBSET S, Cardinality(s) <= n + 1
                 PROVE  H[s] = Value(H, s)
      OBVIOUS
    <3>1. CASE s = {} BY <3>1
    <3>2. CASE s # {}
      <4> DEFINE r == s \ {c[s]}
      <4>1. c[s] \in s BY <3>2
      <4>2. Cardinality(r) = Cardinality(s) - 1 BY <1>1, <4>1, FS_RemoveElement
      <4>3. r \in SUBSET S /\ Cardinality(r) <= n BY <1>1, <4>2
      <4>4. F[r] = Value(F, r) BY <2>1, <4>3
      <4>5. H[r] = F[r] BY <4>3, <4>4
      <4>6. H[s] = G[<<c[s], F[r]>>] BY <3>2
      <4> HIDE DEF H
      <4> QED BY <3>2, <4>5, <4>6
    <3> QED BY <3>1, <3>2
  <2>4. n + 1 \in Nat OBVIOUS
  <2> HIDE DEF H, Upto
  <2> QED BY <2>2, <2>3, <2>4
<1>4. T = Nat
  <2> HIDE DEF T
  <2>1. T \in SUBSET Nat BY DEF T
  <2> QED BY <1>2, <1>3, <2>1, Induction
<1>5. Cardinality(S) \in T BY <1>4, FS_CardinalityType
<1>6. PICK F \in [SUBSET S -> V] : Upto(F, Cardinality(S)) BY <1>5
<1>7. Recursion(F, S, base, c, G) BY <1>1, <1>6 DEF Recursion
<1> QED BY <1>6, <1>7

(* One function satisfies the recursion.                                   *)
LEMMA FoldUnique ==
  ASSUME NEW S, IsFiniteSet(S), NEW base, NEW c, NEW G, NEW F, NEW H,
         Picks(c, S), Recursion(F, S, base, c, G), Recursion(H, S, base, c, G)
  PROVE  \A s \in SUBSET S : F[s] = H[s]
<1> USE DEF Picks
<1> DEFINE T == {n \in Nat : \A s \in SUBSET S : Cardinality(s) <= n => F[s] = H[s]}
<1>1. \A s \in SUBSET S : IsFiniteSet(s) /\ Cardinality(s) \in Nat
                          /\ Cardinality(s) <= Cardinality(S)
  BY FS_Subset, FS_CardinalityType
<1>2. 0 \in T
  <2> SUFFICES ASSUME NEW s \in SUBSET S, Cardinality(s) <= 0 PROVE F[s] = H[s] OBVIOUS
  <2>1. s = {} BY <1>1, FS_EmptySet
  <2> QED BY <2>1 DEF Recursion
<1>3. ASSUME NEW n \in T PROVE n + 1 \in T
  <2>1. ASSUME NEW s \in SUBSET S, Cardinality(s) <= n + 1 PROVE F[s] = H[s]
    <3>1. CASE s = {} BY <3>1 DEF Recursion
    <3>2. CASE s # {}
      <4> DEFINE r == s \ {c[s]}
      <4>1. c[s] \in s BY <3>2
      <4>2. Cardinality(r) = Cardinality(s) - 1 BY <1>1, <4>1, FS_RemoveElement
      <4>3. r \in SUBSET S /\ Cardinality(r) <= n BY <1>1, <2>1, <4>2
      <4>4. F[r] = H[r] BY <4>3
      <4> QED BY <3>2, <4>4 DEF Recursion
    <3> QED BY <3>1, <3>2
  <2> QED BY <2>1
<1>4. T = Nat
  <2> HIDE DEF T
  <2>1. T \in SUBSET Nat BY DEF T
  <2> QED BY <1>2, <1>3, <2>1, Induction
<1>5. Cardinality(S) \in T BY <1>4, FS_CardinalityType
<1> QED BY <1>1, <1>5

(* What is defined by the recursion as long as the values have their type  *)
(* has it.                                                                 *)
LEMMA FoldType ==
  ASSUME NEW S, IsFiniteSet(S), NEW V, NEW base \in V, NEW c, NEW G, NEW F,
         Picks(c, S), Adds(G, S, V), TypedRecursion(F, S, V, base, c, G)
  PROVE  (\A s \in SUBSET S : F[s] \in V) /\ Recursion(F, S, base, c, G)
<1> USE DEF Picks, Adds, TypedRecursion
<1> DEFINE T == {n \in Nat : \A s \in SUBSET S : Cardinality(s) <= n => F[s] \in V}
<1>1. \A s \in SUBSET S : IsFiniteSet(s) /\ Cardinality(s) \in Nat
                          /\ Cardinality(s) <= Cardinality(S)
  BY FS_Subset, FS_CardinalityType
<1>2. 0 \in T
  <2> SUFFICES ASSUME NEW s \in SUBSET S, Cardinality(s) <= 0 PROVE F[s] \in V OBVIOUS
  <2>1. s = {} BY <1>1, FS_EmptySet
  <2> QED BY <2>1
<1>3. ASSUME NEW n \in T PROVE n + 1 \in T
  <2>1. ASSUME NEW s \in SUBSET S, Cardinality(s) <= n + 1 PROVE F[s] \in V
    <3>1. CASE s = {} BY <3>1
    <3>2. CASE s # {}
      <4> DEFINE r == s \ {c[s]}
      <4>1. c[s] \in s BY <3>2
      <4>2. Cardinality(r) = Cardinality(s) - 1 BY <1>1, <4>1, FS_RemoveElement
      <4>3. r \in SUBSET S /\ Cardinality(r) <= n BY <1>1, <2>1, <4>2
      <4>4. F[r] \in V BY <4>3
      <4> QED BY <3>2, <4>1, <4>4
    <3> QED BY <3>1, <3>2
  <2> QED BY <2>1
<1>4. T = Nat
  <2> HIDE DEF T
  <2>1. T \in SUBSET Nat BY DEF T
  <2> QED BY <1>2, <1>3, <2>1, Induction
<1>5. Cardinality(S) \in T BY <1>4, FS_CardinalityType
<1>6. \A s \in SUBSET S : F[s] \in V BY <1>1, <1>5
<1>7. Recursion(F, S, base, c, G)
  <2>1. ASSUME NEW s \in SUBSET S, s # {}
        PROVE  F[s] = G[<<c[s], F[s \ {c[s]}]>>]
    <3>1. s \ {c[s]} \in SUBSET S OBVIOUS
    <3> QED BY <1>6, <2>1, <3>1
  <2> QED BY <2>1 DEF Recursion
<1> QED BY <1>6, <1>7

(* A set of numbers up to n that is not empty has a greatest element.      *)
LEMMA Greatest ==
  ASSUME NEW n \in Nat, NEW s \in SUBSET (1 .. n), s # {}
  PROVE  \E x \in s : \A y \in s : x >= y
<1> DEFINE U == {k \in Nat : \E y \in s : k = n - y}
<1>1. U \in SUBSET Nat /\ U # {}
  <2>1. PICK y \in s : TRUE OBVIOUS
  <2>2. n - y \in U BY <2>1
  <2> QED BY <2>2
<1>2. PICK m \in U : \A k \in U : m <= k
  <2> HIDE DEF U
  <2> QED BY <1>1, Least
<1>3. PICK x \in s : m = n - x OBVIOUS
<1>4. ASSUME NEW y \in s PROVE x >= y
  <2>1. n - y \in U OBVIOUS
  <2>2. m <= n - y BY <1>2, <2>1
  <2> QED BY <1>3, <2>2
<1> QED BY <1>4

(* A fold from left to right as a sequence of partial results.             *)
LEMMA LeftFold ==
  ASSUME NEW n \in Nat, NEW V, NEW base \in V, NEW c, NEW G, NEW F,
         PicksGreatest(c, 1 .. n), Adds(G, 1 .. n, V),
         TypedRecursion(F, 1 .. n, V, base, c, G)
  PROVE  \E R \in [0 .. n -> V] :
            /\ R[0] = base
            /\ \A k \in 1 .. n : R[k] = G[<<k, R[k - 1]>>]
            /\ F[1 .. n] = R[n]
<1>1. IsFiniteSet(1 .. n) BY FS_Interval
<1>2. (\A s \in SUBSET (1 .. n) : F[s] \in V) /\ Recursion(F, 1 .. n, base, c, G)
  <2>1. Picks(c, 1 .. n) BY DEF Picks, PicksGreatest
  <2> QED BY <1>1, <2>1, FoldType
<1> DEFINE R == [k \in 0 .. n |-> F[1 .. k]]
<1>3. R \in [0 .. n -> V]
  <2>1. \A k \in 0 .. n : 1 .. k \in SUBSET (1 .. n) OBVIOUS
  <2> QED BY <1>2, <2>1
<1>4. R[0] = base
  <2>1. 1 .. 0 = {} OBVIOUS
  <2> QED BY <2>1 DEF TypedRecursion
<1>5. ASSUME NEW k \in 1 .. n PROVE R[k] = G[<<k, R[k - 1]>>]
  <2>1. 1 .. k \in SUBSET (1 .. n) /\ 1 .. k # {} /\ k \in 1 .. k
    <3>1. \A x \in 1 .. k : x \in 1 .. n OBVIOUS
    <3>2. k \in 1 .. k OBVIOUS
    <3> QED BY <3>1, <3>2
  <2>2. c[1 .. k] \in 1 .. k /\ c[1 .. k] >= k BY <2>1 DEF PicksGreatest
  <2>3. c[1 .. k] = k BY <2>2
  <2>4. (1 .. k) \ {k} = 1 .. k - 1 OBVIOUS
  <2>5. F[1 .. k] = G[<<k, F[1 .. k - 1]>>] BY <1>2, <2>1, <2>3, <2>4 DEF Recursion
  <2>6. k \in 0 .. n /\ k - 1 \in 0 .. n OBVIOUS
  <2> QED BY <2>5, <2>6
<1>6. F[1 .. n] = R[n] OBVIOUS
<1> HIDE DEF R
<1> QED BY <1>3, <1>4, <1>5, <1>6

-----------------------------------------------------------------------------
(* Sums over sets                                                          *)

(* What SumSet makes of the subsets of T: F.                               *)
SumOf(F, T) ==
  \A s \in SUBSET T :
    F[s] = SumSet(s) /\ (s = {} => F[s] = 0) /\ \A y \in s : F[s] = y + F[s \ {y}]

LEMMA SumExists ==
  ASSUME NEW T, IsFiniteSet(T), T \subseteq Int
  PROVE  \E F \in [SUBSET T -> Int] : SumOf(F, T)
<1> DEFINE Pick(s) == CHOOSE x \in s : TRUE
           c == [s \in SUBSET T |-> Pick(s)]
           G == [p \in T \X Int |-> p[1] + p[2]]
<1>1. Picks(c, T) BY DEF Picks
<1>2. Adds(G, T, Int)
  <2> SUFFICES ASSUME NEW x \in T, NEW v \in Int PROVE G[<<x, v>>] \in Int BY DEF Adds
  <2>1. x \in Int /\ G[<<x, v>>] = x + v OBVIOUS
  <2> QED BY <2>1
<1>3. PICK F \in [SUBSET T -> Int] : Recursion(F, T, 0, c, G)
  <2> HIDE DEF c, G
  <2>1. 0 \in Int OBVIOUS
  <2> QED BY <1>1, <1>2, <2>1, FoldExists
<1>4. \A s \in SUBSET T : IsFiniteSet(s) /\ Cardinality(s) \in Nat
                          /\ Cardinality(s) <= Cardinality(T)
  BY FS_Subset, FS_CardinalityType
<1>5. ASSUME NEW s \in SUBSET T, s # {}
      PROVE  Pick(s) \in s /\ s \ {Pick(s)} \in SUBSET T /\ F[s] = Pick(s) + F[s \ {Pick(s)}]
  <2>1. Pick(s) \in s /\ s \ {Pick(s)} \in SUBSET T /\ c[s] = Pick(s) BY <1>5
  <2>2. F[s] = G[<<Pick(s), F[s \ {Pick(s)}]>>] BY <1>3, <1>5, <2>1 DEF Recursion
  <2>3. F[s \ {Pick(s)}] \in Int BY <2>1
  <2> HIDE DEF Pick
  <2> QED BY <2>1, <2>2, <2>3
<1>6. F[{}] = 0
  <2>1. {} \in SUBSET T OBVIOUS
  <2> QED BY <1>3, <2>1 DEF Recursion
<1> HIDE DEF c, G
<1>7. ASSUME NEW S \in SUBSET T PROVE F[S] = SumSet(S)
  <2> DEFINE Step(H) == [s \in SUBSET S |-> IF s = {} THEN 0
                           ELSE Pick(s) + H[s \ {Pick(s)}]]
             iter == CHOOSE H : H = Step(H)
  <2>1. SumSet(S) = iter[S] BY DEF SumSet, FoldSet, MapThenFoldSet
  <2> HIDE DEF Pick
  <2> DEFINE E == [s \in SUBSET S |-> F[s]]
  <2>2. E = Step(E)
    <3>1. ASSUME NEW s \in SUBSET S
          PROVE  E[s] = IF s = {} THEN 0 ELSE Pick(s) + E[s \ {Pick(s)}]
      <4>1. s \in SUBSET T /\ E[s] = F[s] OBVIOUS
      <4>2. CASE s = {} BY <1>6, <4>1, <4>2
      <4>3. CASE s # {}
        <5>1. s \ {Pick(s)} \in SUBSET S OBVIOUS
        <5>2. E[s \ {Pick(s)}] = F[s \ {Pick(s)}] BY <5>1
        <5> HIDE DEF E
        <5> QED BY <1>5, <4>1, <4>3, <5>2
      <4> QED BY <4>2, <4>3
    <3>2. E = [s \in SUBSET S |-> E[s]] OBVIOUS
    <3> HIDE DEF E
    <3> QED BY <3>1, <3>2
  <2>3. iter = Step(iter)
    <3> HIDE DEF Step, E
    <3> QED BY <2>2
  <2> HIDE DEF iter
  <2>4. \A s \in SUBSET S : iter[s] = IF s = {} THEN 0 ELSE Pick(s) + iter[s \ {Pick(s)}]
    BY <2>3
  <2> HIDE DEF E, Step
  <2> DEFINE Q == {n \in Nat : \A s \in SUBSET S : Cardinality(s) <= n => iter[s] = F[s]}
  <2>5. 0 \in Q
    <3> SUFFICES ASSUME NEW s \in SUBSET S, Cardinality(s) <= 0 PROVE iter[s] = F[s] OBVIOUS
    <3>1. s = {} BY <1>4, FS_EmptySet
    <3> QED BY <1>6, <2>4, <3>1
  <2>6. ASSUME NEW n \in Q PROVE n + 1 \in Q
    <3>1. ASSUME NEW s \in SUBSET S, Cardinality(s) <= n + 1 PROVE iter[s] = F[s]
      <4>1. CASE s = {} BY <1>6, <2>4, <4>1
      <4>2. CASE s # {}
        <5> DEFINE r == s \ {Pick(s)}
        <5>1. Pick(s) \in s /\ F[s] = Pick(s) + F[r]
          <6>1. s \in SUBSET T OBVIOUS
          <6> QED BY <1>5, <4>2, <6>1
        <5>2. Cardinality(r) = Cardinality(s) - 1 BY <1>4, <5>1, FS_RemoveElement
        <5>3. r \in SUBSET S /\ Cardinality(r) <= n
          <6>1. s \in SUBSET T /\ r \in SUBSET S OBVIOUS
          <6>2. Cardinality(s) \in Nat BY <1>4, <6>1
          <6> HIDE DEF r
          <6> QED BY <3>1, <5>2, <6>1, <6>2
        <5>4. iter[r] = F[r] BY <5>3
        <5>5. iter[s] = Pick(s) + iter[r] BY <2>4, <4>2
        <5> QED BY <5>1, <5>4, <5>5
      <4> QED BY <4>1, <4>2
    <3> QED BY <3>1
  <2>7. Q = Nat
    <3> HIDE DEF Q
    <3>1. Q \in SUBSET Nat BY DEF Q
    <3> QED BY <2>5, <2>6, <3>1, Induction
  <2>8. Cardinality(S) \in Q BY <1>4, <2>7
  <2>9. iter[S] = F[S] BY <1>4, <2>8
  <2> QED BY <2>1, <2>9
<1> HIDE DEF Pick
<1> DEFINE R(n) == \A s \in SUBSET T, y \in T :
                     y \in s /\ Cardinality(s) <= n => F[s] = y + F[s \ {y}]
           U == {n \in Nat : R(n)}
<1>8. 0 \in U
  <2> SUFFICES ASSUME NEW s \in SUBSET T, NEW y \in s, Cardinality(s) <= 0 PROVE FALSE
    OBVIOUS
  <2>1. s = {} BY <1>4, FS_EmptySet
  <2> QED BY <2>1
<1>9. ASSUME NEW n \in U PROVE n + 1 \in U
  <2>1. ASSUME NEW s \in SUBSET T, NEW y \in T, y \in s, Cardinality(s) <= n + 1
        PROVE  F[s] = y + F[s \ {y}]
    <3> DEFINE x == Pick(s)
               r == s \ {x}
               q == s \ {y}
               b == r \ {y}
    <3>1. x \in s /\ r \in SUBSET T /\ F[s] = x + F[r] BY <1>5, <2>1
    <3>2. CASE x = y BY <3>1, <3>2
    <3>3. CASE x # y
      <4>1. Cardinality(r) <= n /\ Cardinality(q) <= n
        <5>1. Cardinality(r) = Cardinality(s) - 1 BY <1>4, <3>1, FS_RemoveElement
        <5>2. Cardinality(q) = Cardinality(s) - 1 BY <1>4, <2>1, FS_RemoveElement
        <5> QED BY <1>4, <2>1, <5>1, <5>2
      <4>2. y \in r /\ x \in q /\ x \in T /\ q \in SUBSET T BY <2>1, <3>1, <3>3
      <4>3. q \ {x} = b OBVIOUS
      <4> HIDE DEF x, r, q, b
      <4>4. F[r] = y + F[r \ {y}] BY <2>1, <3>1, <4>1, <4>2
      <4>5. F[q] = x + F[q \ {x}] BY <2>1, <3>1, <4>1, <4>2
      <4>6. F[r] = y + F[b] BY <4>4 DEF b
      <4>7. F[q] = x + F[b] BY <4>5, <4>3
      <4>8. b \in SUBSET T BY <3>1 DEF b
      <4>9. F[b] \in Int /\ x \in Int /\ y \in Int BY <4>2, <4>8
      <4>10. F[s] = x + (y + F[b]) BY <3>1, <4>6
      <4>11. F[s] = y + F[q] BY <4>7, <4>9, <4>10
      <4> QED BY <4>11 DEF q
    <3> QED BY <3>2, <3>3
  <2> QED BY <2>1
<1>10. U = Nat
  <2> HIDE DEF U
  <2>1. U \in SUBSET Nat BY DEF U
  <2> QED BY <1>8, <1>9, <2>1, Induction
<1>11. Cardinality(T) \in U BY <1>4, <1>10
<1>12. ASSUME NEW s \in SUBSET T, NEW y \in s PROVE F[s] = y + F[s \ {y}]
  <2>1. Cardinality(s) <= Cardinality(T) /\ y \in T BY <1>4
  <2> QED BY <1>11, <2>1
<1> QED BY <1>6, <1>7, <1>12 DEF SumOf

-----------------------------------------------------------------------------
(* Numbers to a base B: P is its powers and D the digits of a number.      *)

PowersOf(P, B, w) == P[0] = 1 /\ \A k \in 0 .. w - 1 : P[k + 1] = B * P[k]
DigitsOf(D, B, w) == \A k \in 0 .. w - 1 : D[k] \in 0 .. B - 1

(* Z has the amounts the digits stand for, but for 0.                      *)
Amounts(Z, D, P, w) ==
  /\ Z \subseteq {D[k] * P[k] : k \in 0 .. w - 1}
  /\ \A k \in 0 .. w - 1 : D[k] # 0 => D[k] * P[k] \in Z

IsNumber(n, D, P, B, w) ==
  n \in 0 .. P[w] - 1 /\ \A k \in 0 .. w - 1 : (n \div P[k]) % B = D[k]

LEMMA PowersAre ==
  ASSUME NEW B \in Nat \ {0}, NEW w \in Nat, NEW P, PowersOf(P, B, w)
  PROVE  /\ \A k \in 0 .. w : P[k] \in Nat \ {0}
         /\ \A j \in 0 .. w : \A k \in 0 .. j : \E q \in Nat \ {0} : P[j] = P[k] * q
<1> DEFINE S == {n \in Nat : n <= w => P[n] \in Nat \ {0}}
           T == {n \in Nat : n <= w => \A k \in 0 .. n : \E q \in Nat \ {0} : P[n] = P[k] * q}
<1>1. \A k \in Nat : k < w => P[k + 1] = B * P[k] BY DEF PowersOf
<1>2. S = Nat
  <2>1. 0 \in S BY DEF PowersOf
  <2>2. ASSUME NEW n \in S PROVE n + 1 \in S
    <3> SUFFICES ASSUME n + 1 <= w PROVE P[n + 1] \in Nat \ {0} OBVIOUS
    <3>1. P[n] \in Nat \ {0} /\ P[n + 1] = B * P[n] BY <1>1
    <3> DEFINE p == P[n]
    <3>2. p \in Nat \ {0} /\ P[n + 1] = B * p BY <3>1
    <3> HIDE DEF p
    <3>3. B * p \in Nat BY <3>2
    <3>4. B * p # 0 BY <3>2
    <3> QED BY <3>2, <3>3, <3>4
  <2> HIDE DEF S
  <2>3. S \in SUBSET Nat BY DEF S
  <2> QED BY <2>1, <2>2, <2>3, Induction
<1>3. \A k \in 0 .. w : P[k] \in Nat \ {0} BY <1>2
<1>4. T = Nat
  <2>1. 0 \in T
    <3>1. P[0] = P[0] * 1 BY <1>3
    <3>2. \A k \in 0 .. 0 : k = 0 OBVIOUS
    <3>3. 1 \in Nat \ {0} OBVIOUS
    <3> QED BY <3>1, <3>2, <3>3
  <2>2. ASSUME NEW n \in T PROVE n + 1 \in T
    <3> SUFFICES ASSUME n + 1 <= w, NEW k \in 0 .. n + 1
                 PROVE  \E q \in Nat \ {0} : P[n + 1] = P[k] * q
      OBVIOUS
    <3>1. CASE k = n + 1
      <4>1. P[k] = P[k] * 1 BY <1>3
      <4>2. 1 \in Nat \ {0} OBVIOUS
      <4> QED BY <3>1, <4>1, <4>2
    <3>2. CASE k # n + 1
      <4>1. k \in 0 .. n BY <3>2
      <4>2. PICK q \in Nat \ {0} : P[n] = P[k] * q BY <4>1
      <4>3. P[n + 1] = B * P[n] BY <1>1
      <4> DEFINE p == P[k]
      <4>4. p \in Nat \ {0} BY <1>3
      <4>5. P[n + 1] = B * (p * q) BY <4>2, <4>3
      <4> HIDE DEF p
      <4>6. B * (p * q) = p * (B * q) BY <4>4
      <4>7. B * q \in Nat \ {0} OBVIOUS
      <4> QED BY <4>5, <4>6, <4>7 DEF p
    <3> QED BY <3>1, <3>2
  <2> HIDE DEF T
  <2>3. T \in SUBSET Nat BY DEF T
  <2> QED BY <2>1, <2>2, <2>3, Induction
<1>5. ASSUME NEW j \in 0 .. w, NEW k \in 0 .. j
      PROVE  \E q \in Nat \ {0} : P[j] = P[k] * q
  <2>1. j \in T BY <1>4
  <2> QED BY <2>1
<1> QED BY <1>3, <1>5

(* One more digit d at the top of n, which is below the power p.           *)
LEMMA TopDigit ==
  ASSUME NEW B \in Nat \ {0}, NEW p \in Nat \ {0}, NEW n \in 0 .. p - 1, NEW d \in 0 .. B - 1
  PROVE  /\ d * p + n \in 0 .. B * p - 1
         /\ ((d * p + n) \div p) % B = d
         /\ d * p \in Nat /\ d * p + n \in Nat
         /\ d # 0 => d * p >= p
<1>1. p * d <= p * (B - 1) BY ProductOrder
<1>2. p * (B - 1) = B * p - p OBVIOUS
<1>3. p * d = d * p OBVIOUS
<1>4. d * p \in Nat OBVIOUS
<1>5. d # 0 => p * 1 <= p * d BY ProductOrder
<1>6. p * 1 = p OBVIOUS
<1>7. B * p \in Nat OBVIOUS
<1>8. (p * d + n) \div p = d BY DivUnique
<1>9. d % B = d OBVIOUS
<1>10. d * p + n = p * d + n BY <1>3, Zenon
<1> DEFINE x == d * p
           y == B * p
<1>11. x <= y - p /\ x \in Nat /\ y \in Nat /\ (d # 0 => p <= x)
  BY <1>1, <1>2, <1>3, <1>4, <1>5, <1>6, <1>7
<1>12. (x + n) \div p = d BY <1>8, <1>10
<1> HIDE DEF x, y
<1>13. x + n \in 0 .. y - 1 BY <1>11
<1> QED BY <1>9, <1>11, <1>12, <1>13 DEF x, y

(* A digit below it stays the same.                                        *)
LEMMA LowDigit ==
  ASSUME NEW B \in Nat \ {0}, NEW p \in Nat \ {0}, NEW q \in Nat, NEW n \in Nat, NEW d \in Nat
  PROVE  ((d * ((B * p) * q) + n) \div p) % B = (n \div p) % B
<1> DEFINE a == n \div p
           e == d * q
<1>1. a \in Int /\ e \in Int BY DivMod
<1>2. d * ((B * p) * q) = p * (B * e)
  <2>1. (B * p) * q = p * (B * q) OBVIOUS
  <2> DEFINE b == B * q
  <2>2. b \in Int /\ d * b = B * (d * q) OBVIOUS
  <2> HIDE DEF b
  <2>3. d * (p * b) = p * (d * b) BY <2>2
  <2> QED BY <2>1, <2>2, <2>3 DEF b
<1>3. B * e \in Int BY <1>1
<1> DEFINE f == B * e
<1>4. d * ((B * p) * q) = p * f /\ f \in Int BY <1>2, <1>3
<1> HIDE DEF f
<1>9. f \in Int BY <1>4
<1>5. (n + p * f) \div p = a + f
  <2>1. n \in Int OBVIOUS
  <2> QED BY <1>9, <2>1, DivAdd
<1>8. d * ((B * p) * q) + n = n + p * f
  <2> DEFINE x == p * f
  <2>1. x \in Int BY <1>4
  <2>2. d * ((B * p) * q) = x BY <1>4
  <2> HIDE DEF x
  <2>3. d * ((B * p) * q) + n = x + n BY <2>2, Zenon
  <2>4. x + n = n + x BY <2>1
  <2> QED BY <2>3, <2>4 DEF x
<1>6. (d * ((B * p) * q) + n) \div p = a + f BY <1>5, <1>8
<1> HIDE DEF a, e
<1>7. (a + B * e) % B = a % B BY <1>1, DivAdd
<1> QED BY <1>6, <1>7 DEF a, f

(* A set of numbers, one at most for every digit, adds up to the number    *)
(* with these digits.                                                      *)
LEMMA Positional ==
  ASSUME NEW B \in Nat \ {0}, NEW w \in Nat, NEW P, PowersOf(P, B, w),
         NEW D, DigitsOf(D, B, w), NEW Z, Amounts(Z, D, P, w)
  PROVE  /\ Z \subseteq Nat /\ IsFiniteSet(Z)
         /\ IsNumber(SumSet(Z), D, P, B, w)
<1>1. \A k \in 0 .. w : P[k] \in Nat \ {0} BY PowersAre
<1>2. \A k \in 0 .. w - 1 : D[k] \in Nat /\ D[k] * P[k] \in Nat
  <2> SUFFICES ASSUME NEW k \in 0 .. w - 1 PROVE D[k] \in Nat /\ D[k] * P[k] \in Nat OBVIOUS
  <2> DEFINE d == D[k]
             p == P[k]
  <2>1. d \in Nat /\ p \in Nat BY <1>1 DEF DigitsOf
  <2> HIDE DEF d, p
  <2>2. d * p \in Nat BY <2>1
  <2> QED BY <2>1, <2>2 DEF d, p
<1> DEFINE t == [k \in 0 .. w - 1 |-> D[k] * P[k]]
           All == {t[k] : k \in 0 .. w - 1}
<1>3. All \subseteq Nat /\ IsFiniteSet(All)
  <2>1. IsFiniteSet(0 .. w - 1) BY FS_Interval
  <2>2. t \in [0 .. w - 1 -> Nat] BY <1>2
  <2> HIDE DEF t
  <2>4. t \in Surjection(0 .. w - 1, All) BY <2>2 DEF Surjection
  <2>3. IsFiniteSet(All) BY <2>1, <2>4, FS_Surjection
  <2> QED BY <2>2, <2>3
<1>4. ASSUME NEW X, NEW n \in 0 .. w, Amounts(X, D, P, n) PROVE X \in SUBSET All
  <2> SUFFICES ASSUME NEW x \in X PROVE x \in All OBVIOUS
  <2>1. PICK k \in 0 .. n - 1 : x = D[k] * P[k] BY <1>4 DEF Amounts
  <2>2. k \in 0 .. w - 1 OBVIOUS
  <2>3. x = t[k] BY <2>1, <2>2
  <2> HIDE DEF t
  <2> QED BY <2>2, <2>3
<1>5. PICK F \in [SUBSET All -> Int] : SumOf(F, All)
  <2> HIDE DEF All
  <2>1. All \subseteq Int BY <1>3
  <2> QED BY <1>3, <2>1, SumExists
<1>6. \A s \in SUBSET All : F[s] = SumSet(s) /\ (s = {} => F[s] = 0)
                            /\ \A y \in s : F[s] = y + F[s \ {y}]
  BY <1>5 DEF SumOf
<1> HIDE DEF t, All
<1> DEFINE T == {n \in Nat : n <= w =>
                   \A X \in SUBSET All : Amounts(X, D, P, n) => IsNumber(F[X], D, P, B, n)}
<1>7. 0 \in T
  <2> SUFFICES ASSUME NEW X \in SUBSET All, Amounts(X, D, P, 0)
               PROVE  IsNumber(F[X], D, P, B, 0)
    OBVIOUS
  <2>1. X = {} BY DEF Amounts
  <2>2. F[X] = 0 BY <1>6, <2>1
  <2>3. P[0] = 1 BY DEF PowersOf
  <2> QED BY <2>2, <2>3 DEF IsNumber
<1>8. ASSUME NEW n \in T PROVE n + 1 \in T
  <2> SUFFICES ASSUME n + 1 <= w, NEW X \in SUBSET All, Amounts(X, D, P, n + 1)
               PROVE  IsNumber(F[X], D, P, B, n + 1)
    OBVIOUS
  <2> DEFINE p == P[n]
             d == D[n]
             x == d * p
             Y == X \ {x}
             y == F[Y]
  <2>1. p \in Nat \ {0} /\ d \in 0 .. B - 1 BY <1>1 DEF DigitsOf
  <2>2. n \in 0 .. w - 1 /\ \A k \in 0 .. n : k \in 0 .. w - 1 OBVIOUS
  <2>3. P[n + 1] = B * p BY <2>2 DEF PowersOf
  <2>4. ASSUME NEW k \in 0 .. n - 1, D[k] # 0
        PROVE  D[k] * P[k] # 0 /\ (d # 0 => D[k] * P[k] # x)
    <3> DEFINE e == D[k]
               r == P[k]
               z == e * r
    <3>1. r \in Nat \ {0} /\ e \in 0 .. B - 1 /\ e # 0 BY <1>1, <2>4 DEF DigitsOf
    <3>2. 0 \in 0 .. r - 1 BY <3>1
    <3> HIDE DEF e, r, d, p
    <3>3. e * r + 0 \in 0 .. B * r - 1 /\ e * r \in Nat /\ e * r >= r
      BY <3>1, <3>2, TopDigit
    <3>4. d # 0 => x >= p /\ x \in Nat
      <4>1. 0 \in 0 .. p - 1 BY <2>1
      <4> QED BY <2>1, <4>1, TopDigit
    <3>5. PICK q \in Nat \ {0} : P[n] = P[k + 1] * q
      <4>1. n \in 0 .. w /\ k + 1 \in 0 .. n OBVIOUS
      <4> QED BY <4>1, PowersAre
    <3>6. P[k + 1] = B * r BY <2>2 DEF PowersOf, r
    <3> DEFINE u == B * r
    <3>7. p = u * q /\ u \in Nat BY <3>1, <3>5, <3>6 DEF p
    <3>8. z >= r /\ z \in 0 .. u - 1 BY <3>1, <3>3
    <3> HIDE DEF u, x, z
    <3>9. u # 0 BY <3>8
    <3>10. u * 1 <= u * q BY <3>7, <3>9, ProductOrder
    <3>11. u <= p BY <3>7, <3>10
    <3>12. z # 0 /\ (d # 0 => z # x) BY <2>1, <3>1, <3>4, <3>7, <3>8, <3>11
    <3> QED BY <3>12 DEF z, e, r
  <2>5. Amounts(Y, D, P, n)
    <3>1. ASSUME NEW z \in Y PROVE z \in {D[k] * P[k] : k \in 0 .. n - 1}
      <4>1. PICK k \in 0 .. n : z = D[k] * P[k] BY DEF Amounts
      <4>2. k # n BY <4>1
      <4> QED BY <4>1, <4>2
    <3>2. ASSUME NEW k \in 0 .. n - 1, D[k] # 0 PROVE D[k] * P[k] \in Y
      <4>1. D[k] * P[k] \in X BY <3>2 DEF Amounts
      <4>2. D[k] * P[k] # x
        <5>1. CASE d # 0 BY <2>4, <3>2, <5>1
        <5>2. CASE d = 0
          <6>1. x = 0 BY <2>1, <5>2
          <6> QED BY <2>4, <3>2, <6>1
        <5> QED BY <5>1, <5>2
      <4> QED BY <4>1, <4>2
    <3> HIDE DEF Y
    <3> QED BY <3>1, <3>2 DEF Amounts
  <2>6. IsNumber(y, D, P, B, n)
    <3>1. Y \in SUBSET All OBVIOUS
    <3> HIDE DEF Y
    <3> QED BY <2>5, <3>1
  <2>7. y \in 0 .. p - 1 BY <2>6 DEF IsNumber
  <2>8. F[X] = x + y
    <3>1. CASE x \in X BY <1>6, <3>1
    <3>2. CASE x \notin X
      <4>1. Y = X BY <3>2
      <4>2. d = 0 BY <2>2, <3>2 DEF Amounts
      <4>3. x = 0 BY <2>1, <4>2
      <4> HIDE DEF x, Y
      <4> QED BY <2>7, <4>1, <4>3
    <3> QED BY <3>1, <3>2
  <2>9. /\ d * p + y \in 0 .. B * p - 1
        /\ ((d * p + y) \div p) % B = d
    <3> HIDE DEF y, d, p
    <3> QED BY <2>1, <2>7, TopDigit
  <2>10. ASSUME NEW k \in 0 .. n - 1 PROVE ((d * p + y) \div P[k]) % B = D[k]
    <3>1. PICK q \in Nat \ {0} : P[n] = P[k + 1] * q
      <4>1. n \in 0 .. w /\ k + 1 \in 0 .. n OBVIOUS
      <4> QED BY <4>1, PowersAre
    <3> DEFINE r == P[k]
    <3>2. P[k + 1] = B * r BY <2>2 DEF PowersOf
    <3>3. r \in Nat \ {0} BY <1>1
    <3>4. (y \div r) % B = D[k] BY <2>6 DEF IsNumber
    <3>5. p = (B * r) * q BY <3>1, <3>2
    <3> HIDE DEF y, d, p, r
    <3>6. y \in Nat /\ d \in Nat /\ q \in Nat BY <2>1, <2>7
    <3>7. ((d * ((B * r) * q) + y) \div r) % B = (y \div r) % B BY <3>3, <3>6, LowDigit
    <3> QED BY <3>4, <3>5, <3>7 DEF r
  <2> HIDE DEF y, Y
  <2>11. F[X] \in 0 .. P[n + 1] - 1 /\ (F[X] \div p) % B = d BY <2>3, <2>8, <2>9
  <2>12. ASSUME NEW k \in 0 .. (n + 1) - 1 PROVE (F[X] \div P[k]) % B = D[k]
    <3>1. CASE k = n BY <2>11, <3>1
    <3>2. CASE k # n
      <4>1. k \in 0 .. n - 1 BY <3>2
      <4> HIDE DEF d, p
      <4> QED BY <2>8, <2>10, <4>1
    <3> QED BY <3>1, <3>2
  <2> QED BY <2>11, <2>12 DEF IsNumber
<1>9. T = Nat
  <2> HIDE DEF T
  <2>1. T \in SUBSET Nat BY DEF T
  <2> QED BY <1>7, <1>8, <2>1, Induction
<1>10. w \in 0 .. w /\ w \in T BY <1>9
<1>11. Z \in SUBSET All BY <1>4, <1>10
<1>12. IsNumber(F[Z], D, P, B, w) BY <1>10, <1>11
<1>13. F[Z] = SumSet(Z) BY <1>6, <1>11
<1>14. IsFiniteSet(Z) /\ Z \subseteq Nat BY <1>3, <1>11, FS_Subset
<1> QED BY <1>12, <1>13, <1>14

(* A finite set of natural numbers that is not empty has a greatest one.   *)
LEMMA GreatestOfFinite ==
  ASSUME NEW S \in SUBSET Nat, IsFiniteSet(S), S # {}
  PROVE  \E x \in S : \A y \in S : x >= y
<1> DEFINE T == {n \in Nat : \A s \in SUBSET S : s # {} /\ Cardinality(s) <= n
                               => \E x \in s : \A y \in s : x >= y}
<1>1. \A s \in SUBSET S : IsFiniteSet(s) /\ Cardinality(s) \in Nat
  BY FS_Subset, FS_CardinalityType
<1>2. 0 \in T
  <2> SUFFICES ASSUME NEW s \in SUBSET S, s # {}, Cardinality(s) <= 0 PROVE FALSE OBVIOUS
  <2>1. s = {} BY <1>1, FS_EmptySet
  <2> QED BY <2>1
<1>3. ASSUME NEW n \in T PROVE n + 1 \in T
  <2> SUFFICES ASSUME NEW s \in SUBSET S, s # {}, Cardinality(s) <= n + 1
               PROVE  \E x \in s : \A y \in s : x >= y
    OBVIOUS
  <2>1. PICK z \in s : TRUE OBVIOUS
  <2> DEFINE r == s \ {z}
  <2>2. Cardinality(r) = Cardinality(s) - 1 BY <1>1, <2>1, FS_RemoveElement
  <2>3. r \in SUBSET S /\ Cardinality(r) <= n BY <1>1, <2>2
  <2>4. CASE r = {} BY <2>1, <2>4
  <2>5. CASE r # {}
    <3>1. PICK x \in r : \A y \in r : x >= y BY <2>3, <2>5
    <3>2. x \in s /\ x \in Nat /\ z \in Nat OBVIOUS
    <3>3. CASE x >= z BY <3>1, <3>2, <3>3
    <3>4. CASE ~ (x >= z)
      <4>1. ASSUME NEW y \in s PROVE z >= y
        <5>1. CASE y = z BY <3>2, <5>1
        <5>2. CASE y # z
          <6>1. y \in r /\ y \in Nat BY <5>2
          <6>2. x >= y BY <3>1, <6>1
          <6> QED BY <3>2, <3>4, <6>1, <6>2
        <5> QED BY <5>1, <5>2
      <4> QED BY <4>1
    <3> QED BY <3>3, <3>4
  <2> QED BY <2>4, <2>5
<1>4. T = Nat
  <2> HIDE DEF T
  <2>1. T \in SUBSET Nat BY DEF T
  <2> QED BY <1>2, <1>3, <2>1, Induction
<1>5. S \in SUBSET S /\ Cardinality(S) \in T BY <1>1, <1>4
<1> QED BY <1>1, <1>5

-----------------------------------------------------------------------------
(* Numbers of three parts: the lowest is below k, the middle one below w.  *)

(* Another middle part leaves the others alone, and the number as wide.    *)
LEMMA Splice ==
  ASSUME NEW k \in Nat \ {0}, NEW w \in Nat \ {0}, NEW n \in Nat, NEW x \in 0 .. w - 1
  PROVE  LET y == (n - ((n \div k) % w) * k) + x * k
         IN  /\ y \in Nat /\ y % k = n % k /\ (y \div k) % w = x
             /\ (y \div k) \div w = (n \div k) \div w
             /\ \A z \in Nat : n < (k * w) * z => y < (k * w) * z
<1> DEFINE low == n % k
           up  == n \div k
           mid == up % w
           top == up \div w
           y   == (n - mid * k) + x * k
           u   == w * top + x
<1>1. low \in 0 .. k - 1 /\ up \in Int /\ n = k * up + low BY DivMod
<1>2. mid \in 0 .. w - 1 /\ top \in Int /\ up = w * top + mid BY <1>1, DivMod
<1>3. up \in Nat BY QuotientBelow
<1>4. top \in Nat BY <1>3, QuotientBelow
<1> HIDE DEF low, up, mid, top
<1>5. u \in Nat
  <2>1. w * top \in Nat BY <1>4
  <2> QED BY <2>1
<1>6. y = k * u + low
  <2>1. k * (w * top + mid) = k * (w * top) + k * mid BY <1>2, <1>4
  <2>2. k * (w * top + x) = k * (w * top) + k * x BY <1>4
  <2>3. mid * k = k * mid /\ x * k = k * x BY <1>2
  <2> DEFINE c == k * (w * top)
             d == k * mid
             e == k * x
  <2>4. c \in Int /\ d \in Int /\ e \in Int BY <1>2, <1>4
  <2>5. n = (c + d) + low BY <1>1, <1>2, <2>1
  <2>6. y = (n - d) + e BY <2>3
  <2>7. k * u + low = (c + e) + low BY <2>2
  <2> HIDE DEF c, d, e, y, u
  <2> QED BY <1>1, <2>4, <2>5, <2>6, <2>7
<1>7. y \div k = u /\ y % k = low
  <2> HIDE DEF u, y
  <2> QED BY <1>1, <1>5, <1>6, DivUnique
<1>8. u \div w = top /\ u % w = x BY <1>4, DivUnique
<1>9. y \in Nat
  <2>1. k * u \in Nat BY <1>5
  <2> HIDE DEF u, y
  <2> QED BY <1>1, <1>6, <2>1
<1>10. ASSUME NEW z \in Nat, n < (k * w) * z PROVE y < (k * w) * z
  <2>1. up < w * z
    <3> SUFFICES ASSUME ~(up < w * z) PROVE FALSE OBVIOUS
    <3> DEFINE t == w * z
    <3>0. t \in Nat OBVIOUS
    <3>2. k * t = (k * w) * z OBVIOUS
    <3>7. ~(up < t) OBVIOUS
    <3> HIDE DEF t
    <3>1. t \in Nat /\ t <= up BY <1>3, <3>0, <3>7
    <3>3. k * t <= k * up BY <1>3, <3>1, ProductOrder
    <3> DEFINE a == k * t
               b == k * up
    <3>4. a \in Int /\ b \in Int BY <1>3, <3>1
    <3>5. n < a BY <1>10, <3>2
    <3> HIDE DEF a, b
    <3>6. n = b + low BY <1>1 DEF b
    <3> QED BY <1>1, <3>3, <3>4, <3>5, <3>6 DEF a, b
  <2>2. top < z
    <3>1. w * top <= up
      <4> DEFINE a == w * top
      <4>1. a \in Int BY <1>4
      <4>2. up = a + mid BY <1>2
      <4> HIDE DEF a
      <4> QED BY <1>2, <4>1, <4>2 DEF a
    <3>2. w * top \in Int /\ w * z \in Int BY <1>4
    <3>3. w * top < w * z BY <1>3, <2>1, <3>1, <3>2
    <3> QED BY <1>4, <3>3, ProductOrder
  <2>3. u + 1 <= w * z
    <3>1. w * (top + 1) <= w * z BY <1>4, <2>2, ProductOrder
    <3>2. w * (top + 1) = w * top + w BY <1>4
    <3> DEFINE a == w * top
               b == w * z
    <3>3. a \in Int /\ b \in Int BY <1>4
    <3>4. a + w <= b BY <3>1, <3>2
    <3> HIDE DEF a, b
    <3>5. (a + x) + 1 <= b BY <3>3, <3>4
    <3> QED BY <3>5 DEF a, b
  <2>4. k * (u + 1) <= k * (w * z)
    <3> HIDE DEF u
    <3>1. w * z \in Int OBVIOUS
    <3> QED BY <1>5, <2>3, <3>1, ProductOrder
  <2>5. k * (u + 1) = k * u + k /\ k * (w * z) = (k * w) * z
    <3> HIDE DEF u
    <3> QED BY <1>5
  <2> DEFINE a == k * u
             b == (k * w) * z
  <2>6. a \in Int /\ b \in Int
    <3> HIDE DEF u
    <3> QED BY <1>5
  <2>7. a + k <= b /\ y = a + low BY <1>6, <2>4, <2>5
  <2> HIDE DEF a, b, y
  <2>8. y < b BY <1>1, <2>6, <2>7
  <2> QED BY <2>8 DEF b
<1>11. (y \div k) % w = x /\ (y \div k) \div w = up \div w BY <1>7, <1>8 DEF top
<1> HIDE DEF y
<1>12. /\ y \in Nat /\ y % k = n % k /\ (y \div k) % w = x
       /\ (y \div k) \div w = (n \div k) \div w
       /\ \A z \in Nat : n < (k * w) * z => y < (k * w) * z
  BY <1>7, <1>9, <1>10, <1>11 DEF low, up
<1> QED BY <1>12 DEF y, mid, up


(* A power of two is above its exponent.                                   *)
LEMMA ExponentBelow ==
  ASSUME NEW w \in Nat, NEW P, PowersOf(P, 2, w)
  PROVE  \A k \in 0 .. w : k < P[k]
<1> DEFINE T == {n \in Nat : n <= w => n < P[n]}
<1>1. \A k \in 0 .. w : P[k] \in Nat \ {0}
  <2>1. 2 \in Nat \ {0} OBVIOUS
  <2> QED BY <2>1, PowersAre
<1>2. 0 \in T BY DEF PowersOf
<1>3. ASSUME NEW n \in T PROVE n + 1 \in T
  <2> SUFFICES ASSUME n + 1 <= w PROVE n + 1 < P[n + 1] OBVIOUS
  <2> DEFINE p == P[n]
  <2>1. p \in Nat /\ n < p BY <1>1
  <2>2. P[n + 1] = 2 * p
    <3>1. n \in 0 .. w - 1 OBVIOUS
    <3> QED BY <3>1 DEF PowersOf
  <2> HIDE DEF p
  <2> QED BY <2>1, <2>2
<1>4. T = Nat
  <2> HIDE DEF T
  <2>1. T \in SUBSET Nat BY DEF T
  <2> QED BY <1>2, <1>3, <2>1, Induction
<1> QED BY <1>4

(* Dividing in two steps.                                                  *)
LEMMA DivideTwice ==
  ASSUME NEW n \in Nat, NEW p \in Nat \ {0}, NEW q \in Nat \ {0}
  PROVE  /\ n % (p * q) = p * ((n \div p) % q) + (n % p)
         /\ n \div (p * q) = (n \div p) \div q
         /\ (n % (p * q)) \div p = (n \div p) % q
         /\ (n % (p * q)) % p = n % p
<1> DEFINE a == n \div p
           r == n % p
           d == a \div q
           e == a % q
           m == p * q
           s == p * e + r
<1>1. a \in Int /\ r \in 0 .. p - 1 /\ n = p * a + r BY DivMod
<1>2. d \in Int /\ e \in 0 .. q - 1 /\ a = q * d + e BY <1>1, DivMod
<1> HIDE DEF a, r, d, e
<1>3. m \in Nat \ {0} BY Z3
<1>4. s \in 0 .. m - 1
  <2>1. p * e <= p * (q - 1) BY <1>2, ProductOrder
  <2>2. p * (q - 1) = m - p BY Z3
  <2>3. p * e \in Nat BY <1>2
  <2> DEFINE u == p * e
  <2>4. u \in Nat /\ u <= m - p BY <2>1, <2>2, <2>3
  <2> HIDE DEF m, u
  <2>5. u + r \in 0 .. m - 1 BY <1>1, <1>3, <2>4
  <2> QED BY <2>5 DEF u
<1>5. n = m * d + s
  <2>1. p * (q * d + e) = (p * q) * d + p * e BY <1>2, Z3
  <2> DEFINE u == (p * q) * d
             v == p * e
  <2>2. u \in Int /\ v \in Int BY <1>2
  <2>3. n = (u + v) + r BY <1>1, <1>2, <2>1
  <2>4. m * d + s = u + (v + r) OBVIOUS
  <2> HIDE DEF u, v, m, s
  <2> QED BY <1>1, <2>2, <2>3, <2>4
<1>6. n \div m = d /\ n % m = s
  <2> HIDE DEF m, s
  <2> QED BY <1>2, <1>3, <1>4, <1>5, DivUnique
<1>7. s \div p = e /\ s % p = r BY <1>1, <1>2, DivUnique
<1> HIDE DEF m, s
<1>8. n % m = s /\ n \div m = d /\ (n % m) \div p = e /\ (n % m) % p = r BY <1>6, <1>7
<1> QED BY <1>8 DEF m, s, a, r, d, e

(* Powers multiply as their exponents add.                                 *)
LEMMA PowersMultiply ==
  ASSUME NEW B \in Nat \ {0}, NEW w \in Nat, NEW P, PowersOf(P, B, w), NEW j \in 0 .. w
  PROVE  \A k \in 0 .. w - j : P[j + k] = P[j] * P[k]
<1> DEFINE T == {n \in Nat : n <= w - j => P[j + n] = P[j] * P[n]}
<1>1. \A k \in 0 .. w : P[k] \in Nat \ {0} BY PowersAre
<1>2. 0 \in T
  <2>1. P[j] * 1 = P[j] /\ j + 0 = j BY <1>1
  <2> QED BY <2>1 DEF PowersOf
<1>3. ASSUME NEW n \in T PROVE n + 1 \in T
  <2> SUFFICES ASSUME n + 1 <= w - j PROVE P[j + (n + 1)] = P[j] * P[n + 1] OBVIOUS
  <2>1. n \in 0 .. w - 1 /\ j + n \in 0 .. w - 1 /\ j + (n + 1) = (j + n) + 1 OBVIOUS
  <2>2. P[n + 1] = B * P[n] /\ P[(j + n) + 1] = B * P[j + n] BY <2>1 DEF PowersOf
  <2>3. P[j + n] = P[j] * P[n] BY <2>1
  <2> DEFINE x == P[j]
             y == P[n]
  <2>4. x \in Nat /\ y \in Nat BY <1>1, <2>1
  <2> HIDE DEF x, y
  <2>5. B * (x * y) = x * (B * y) BY <2>4, Z3
  <2> QED BY <2>1, <2>2, <2>3, <2>5 DEF x, y
<1>4. T = Nat
  <2> HIDE DEF T
  <2>1. T \in SUBSET Nat BY DEF T
  <2> QED BY <1>2, <1>3, <2>1, Induction
<1> QED BY <1>4

(* The digits of a remainder are the low digits.                           *)
LEMMA DigitsOfRemainder ==
  ASSUME NEW B \in Nat \ {0}, NEW w \in Nat, NEW P, PowersOf(P, B, w),
         NEW j \in 0 .. w, NEW n \in Nat
  PROVE  \A k \in 0 .. j - 1 : ((n % P[j]) \div P[k]) % B = (n \div P[k]) % B
<1> SUFFICES ASSUME NEW k \in 0 .. j - 1
             PROVE  ((n % P[j]) \div P[k]) % B = (n \div P[k]) % B
  OBVIOUS
<1>1. P[k] \in Nat \ {0} /\ P[k + 1] = B * P[k]
  <2>1. k \in 0 .. w - 1 OBVIOUS
  <2> QED BY <2>1, PowersAre DEF PowersOf
<1>2. PICK q \in Nat \ {0} : P[j] = P[k + 1] * q
  <2>1. k + 1 \in 0 .. j OBVIOUS
  <2> QED BY <2>1, PowersAre
<1> DEFINE p == P[k]
           m == B * q
           a == n \div p
<1>3. P[j] = p * m
  <2>1. p \in Nat BY <1>1
  <2> HIDE DEF p
  <2>2. (B * p) * q = p * (B * q) BY <2>1, Z3
  <2> QED BY <1>1, <1>2, <2>2 DEF p
<1>4. m \in Nat \ {0} BY Z3
<1>5. (n % (p * m)) \div p = a % m
  <2>1. p \in Nat \ {0} BY <1>1
  <2> HIDE DEF p, m
  <2> QED BY <1>4, <2>1, DivideTwice
<1>6. a \in Nat BY <1>1, QuotientBelow
<1>7. (a % m) % B = a % B
  <2> HIDE DEF a
  <2> QED BY <1>6, DivideTwice
<1> QED BY <1>3, <1>5, <1>7

(* Numbers with the same digits are equal as far as the digits go.         *)
LEMMA SameDigits ==
  ASSUME NEW B \in Nat \ {0}, NEW w \in Nat, NEW P, PowersOf(P, B, w),
         NEW a \in Nat, NEW b \in Nat,
         \A k \in 0 .. w - 1 : (a \div P[k]) % B = (b \div P[k]) % B
  PROVE  a % P[w] = b % P[w]
<1> DEFINE T == {n \in Nat : n <= w => a % P[n] = b % P[n]}
<1>1. \A k \in 0 .. w : P[k] \in Nat \ {0} BY PowersAre
<1>2. 0 \in T
  <2>1. P[0] = 1 BY DEF PowersOf
  <2>2. a % 1 = b % 1
    <3>1. 1 \in Nat \ {0} OBVIOUS
    <3>2. a % 1 \in 0 .. 1 - 1 /\ b % 1 \in 0 .. 1 - 1 BY <3>1, DivMod
    <3> QED BY <3>2
  <2> QED BY <2>1, <2>2
<1>3. ASSUME NEW n \in T PROVE n + 1 \in T
  <2> SUFFICES ASSUME n + 1 <= w PROVE a % P[n + 1] = b % P[n + 1] OBVIOUS
  <2>1. n \in 0 .. w - 1 OBVIOUS
  <2> DEFINE p == P[n]
  <2>2. p \in Nat \ {0} BY <1>1
  <2>3. P[n + 1] = p * B
    <3>1. P[n + 1] = B * p BY <2>1 DEF PowersOf
    <3> HIDE DEF p
    <3> QED BY <2>2, <3>1
  <2>4. a % p = b % p /\ (a \div p) % B = (b \div p) % B BY <2>1
  <2> HIDE DEF p
  <2>5. a % (p * B) = p * ((a \div p) % B) + (a % p) BY <2>2, DivideTwice
  <2>6. b % (p * B) = p * ((b \div p) % B) + (b % p) BY <2>2, DivideTwice
  <2> QED BY <2>3, <2>4, <2>5, <2>6
<1>4. T = Nat
  <2> HIDE DEF T
  <2>1. T \in SUBSET Nat BY DEF T
  <2> QED BY <1>2, <1>3, <2>1, Induction
<1> QED BY <1>4

(* A number below its divisor.                                             *)
LEMMA Below ==
  ASSUME NEW p \in Nat \ {0}, NEW n \in 0 .. p - 1
  PROVE  n \div p = 0 /\ n % p = n
<1>1. p * 0 + n = n OBVIOUS
<1>2. 0 \in Int OBVIOUS
<1>3. (p * 0 + n) \div p = 0 /\ (p * 0 + n) % p = n BY <1>2, DivUnique
<1> QED BY <1>1, <1>3

(* The digits of a number that is put on top of another one.               *)
AreStacked(n, a, c, B, P, w, j) ==
  /\ n \in Nat /\ n % P[j] = a /\ n \div P[j] = c
  /\ \A k \in 0 .. j - 1 : (n \div P[k]) % B = (a \div P[k]) % B
  /\ \A k \in 0 .. w - j : n \div P[j + k] = c \div P[k]

(* The digits of a number with another one on top of it.                   *)
LEMMA StackedDigits ==
  ASSUME NEW B \in Nat \ {0}, NEW w \in Nat, NEW P, PowersOf(P, B, w),
         NEW j \in 0 .. w, NEW a \in 0 .. P[j] - 1, NEW c \in Nat
  PROVE  AreStacked(a + c * P[j], a, c, B, P, w, j)
<1> DEFINE p == P[j]
           n == a + c * p
<1>1. \A k \in 0 .. w : P[k] \in Nat \ {0} BY PowersAre
<1>2. p \in Nat \ {0} BY <1>1
<1>3. a \in Nat /\ a \in 0 .. p - 1 BY <1>2
<1>4. n \in Nat /\ n = p * c + a
  <2> HIDE DEF p
  <2> DEFINE u == c * p
             v == p * c
  <2>1. u \in Nat /\ u = v BY <1>2, Z3
  <2>2. n = a + u OBVIOUS
  <2> HIDE DEF u, v, n
  <2>3. n \in Nat /\ n = v + a BY <1>3, <2>1, <2>2
  <2> QED BY <2>3, Zenon DEF v
<1>5. n % p = a /\ n \div p = c
  <2> HIDE DEF p, n
  <2>1. (p * c + a) % p = a /\ (p * c + a) \div p = c
    <3>1. c \in Int OBVIOUS
    <3> QED BY <1>2, <1>3, <3>1, DivUnique, Zenon
  <2> QED BY <1>4, <2>1
<1>6. ASSUME NEW k \in 0 .. j - 1 PROVE (n \div P[k]) % B = (a \div P[k]) % B
  <2>1. ((n % P[j]) \div P[k]) % B = (n \div P[k]) % B
    <3>1. n \in Nat BY <1>4
    <3> HIDE DEF n
    <3> QED BY <3>1, DigitsOfRemainder
  <2>2. n % P[j] = a BY <1>5
  <2> QED BY <2>1, <2>2
<1>7. ASSUME NEW k \in 0 .. w - j PROVE n \div P[j + k] = c \div P[k]
  <2>1. P[j + k] = p * P[k] BY PowersMultiply
  <2>2. P[k] \in Nat \ {0} BY <1>1
  <2>3. n \in Nat BY <1>4
  <2> HIDE DEF p, n
  <2>4. n \div (p * P[k]) = (n \div p) \div P[k] BY <1>2, <2>2, <2>3, DivideTwice
  <2> QED BY <1>5, <2>1, <2>4
<1> HIDE DEF n
<1>8. /\ n \in Nat /\ n % p = a /\ n \div p = c
      /\ \A k \in 0 .. j - 1 : (n \div P[k]) % B = (a \div P[k]) % B
      /\ \A k \in 0 .. w - j : n \div P[j + k] = c \div P[k]
  BY <1>4, <1>5, <1>6, <1>7
<1> QED BY <1>8 DEF n, p, AreStacked

(* Digits further up are digits of the quotient.                           *)
LEMMA DigitsOfQuotient ==
  ASSUME NEW B \in Nat \ {0}, NEW w \in Nat, NEW P, PowersOf(P, B, w),
         NEW j \in 0 .. w, NEW n \in Nat
  PROVE  n \div P[j] \in Nat /\ \A k \in 0 .. w - j : n \div P[j + k] = (n \div P[j]) \div P[k]
<1>1. \A k \in 0 .. w : P[k] \in Nat \ {0} BY PowersAre
<1> DEFINE p == P[j]
<1>2. p \in Nat \ {0} BY <1>1
<1>3. ASSUME NEW k \in 0 .. w - j PROVE n \div P[j + k] = (n \div p) \div P[k]
  <2>1. P[j + k] = p * P[k] BY PowersMultiply
  <2>2. P[k] \in Nat \ {0} BY <1>1
  <2> HIDE DEF p
  <2>3. n \div (p * P[k]) = (n \div p) \div P[k] BY <1>2, <2>2, DivideTwice
  <2> QED BY <2>1, <2>3
<1>4. n \div p \in Nat
  <2> HIDE DEF p
  <2> QED BY <1>2, QuotientBelow
<1> QED BY <1>3, <1>4

(* The digits of a number y that differs from n in w digits.               *)
HasSplicedDigits(y, n, B, P, v, j, w) ==
  \A k \in 0 .. v - 1 :
    (y \div P[k]) % B =
      IF k \in j .. j + w - 1 THEN (((y \div P[j]) % P[w]) \div P[k - j]) % B
      ELSE (n \div P[k]) % B

(* The digits of a number whose middle has been replaced.                  *)
LEMMA SplicedDigits ==
  ASSUME NEW B \in Nat \ {0}, NEW v \in Nat, NEW P, PowersOf(P, B, v),
         NEW j \in 0 .. v, NEW w \in 0 .. v - j, NEW n \in Nat, NEW y \in Nat,
         y % P[j] = n % P[j],
         (y \div P[j]) \div P[w] = (n \div P[j]) \div P[w]
  PROVE  HasSplicedDigits(y, n, B, P, v, j, w)
<1> DEFINE a == y \div P[j]
           b == n \div P[j]
<1>1. a \in Nat /\ b \in Nat BY DigitsOfQuotient
<1> SUFFICES ASSUME NEW k \in 0 .. v - 1
             PROVE  (y \div P[k]) % B =
                      IF k \in j .. j + w - 1 THEN ((a % P[w]) \div P[k - j]) % B
                      ELSE (n \div P[k]) % B
  BY DEF HasSplicedDigits
<1>2. CASE k < j
  <2>1. k \in 0 .. j - 1 BY <1>2
  <2>2. ((y % P[j]) \div P[k]) % B = (y \div P[k]) % B BY <2>1, DigitsOfRemainder
  <2>3. ((n % P[j]) \div P[k]) % B = (n \div P[k]) % B BY <2>1, DigitsOfRemainder
  <2> QED BY <1>2, <2>2, <2>3
<1>3. CASE k >= j
  <2> DEFINE i == k - j
  <2>1. i \in 0 .. v - j /\ j + i = k /\ i \in Nat BY <1>3
  <2>2. y \div P[k] = a \div P[i] /\ n \div P[k] = b \div P[i]
    <3> HIDE DEF i
    <3>1. y \div P[j + i] = a \div P[i] BY <2>1, DigitsOfQuotient
    <3>2. n \div P[j + i] = b \div P[i] BY <2>1, DigitsOfQuotient
    <3> QED BY <2>1, <3>1, <3>2
  <2>3. CASE i < w
    <3>1. i \in 0 .. w - 1 /\ w \in 0 .. v BY <2>1, <2>3
    <3> HIDE DEF a, i
    <3>2. ((a % P[w]) \div P[i]) % B = (a \div P[i]) % B BY <1>1, <3>1, DigitsOfRemainder
    <3>3. k \in j .. j + w - 1 BY <2>1, <3>1
    <3> QED BY <2>2, <3>2, <3>3 DEF i
  <2>4. CASE i >= w
    <3> DEFINE h == i - w
    <3>1. h \in 0 .. v - w /\ w + h = i /\ w \in 0 .. v BY <2>1, <2>4
    <3>2. a \div P[w] = b \div P[w] OBVIOUS
    <3> HIDE DEF a, b, h, i
    <3>3. a \div P[w + h] = (a \div P[w]) \div P[h] BY <1>1, <3>1, DigitsOfQuotient
    <3>4. b \div P[w + h] = (b \div P[w]) \div P[h] BY <1>1, <3>1, DigitsOfQuotient
    <3>5. a \div P[i] = b \div P[i] BY <3>1, <3>2, <3>3, <3>4
    <3>6. k \notin j .. j + w - 1 BY <2>1, <2>4
    <3> QED BY <2>2, <3>5, <3>6
  <2> QED BY <2>1, <2>3, <2>4
<1> QED BY <1>2, <1>3

=============================================================================
