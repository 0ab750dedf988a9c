--------------------------- MODULE ArithmeticProofs ---------------------------
(***************************************************************************)
(* What programs of integer opcodes come to, for every width of the        *)
(* operands.  First powers of two and the bits of a number, then what      *)
(* single opcodes do, then the programs, an instruction at a time.         *)
(***************************************************************************)
EXTENDS Arithmetic, Mathematics, SequenceTheorems

-----------------------------------------------------------------------------
(* Powers of two                                                           *)

Most == 2 * Bits["dword"] + 1

LEMMA Widths ==
  /\ \A z \in Sizes : /\ Bits[z] \in Nat \ {0} /\ Top(z) \in Nat
                      /\ 2 * Bits[z] <= Most - 1
                      /\ Bits["byte"] <= Bits[z]
  /\ Most \in Nat /\ Nibble \in Nat \ {0} /\ Nibble <= Bits["byte"]
  /\ Nibble < Bits["word"] /\ Bits["byte"] >= 2
<1>1. Bits \in [{"byte", "word", "dword"} -> Nat \ {0, 1}]
      /\ Nibble \in 1 .. Bits["byte"] /\ Nibble < Bits["word"]
      /\ Bits["byte"] <= Bits["word"] /\ Bits["word"] <= Bits["dword"]
  BY WidthAssumption
<1>2. /\ Bits["byte"] \in Nat \ {0} /\ Bits["word"] \in Nat \ {0}
      /\ Bits["dword"] \in Nat \ {0} /\ Bits["byte"] >= 2
  BY <1>1
<1>3. Most \in Nat /\ Nibble \in Nat \ {0} /\ Nibble <= Bits["byte"]
  BY <1>1, <1>2 DEF Most
<1>4. ASSUME NEW z \in Sizes
      PROVE  /\ Bits[z] \in Nat \ {0} /\ Top(z) \in Nat /\ 2 * Bits[z] <= Most - 1
             /\ Bits["byte"] <= Bits[z]
  <2>1. z = "byte" \/ z = "word" \/ z = "dword" BY DEF Sizes
  <2> QED BY <2>1, <1>1, <1>2 DEF Most, Top
<1> QED BY <1>1, <1>2, <1>3, <1>4

LEMMA PowerType ==
  ASSUME NEW k \in Nat, k <= Most
  PROVE  2 ^ k \in Nat \ {0}
<1> DEFINE T == {n \in Nat : n <= Most => 2 ^ n \in Nat \ {0}}
<1>1. 0 \in T BY PowerAssumption
<1>2. ASSUME NEW n \in T PROVE n + 1 \in T
  <2>1. CASE n + 1 <= Most
    <3>1. n \in 0 .. 2 * Bits["dword"] BY <2>1, Widths DEF Most, Sizes
    <3>2. 2 ^ (n + 1) = 2 * 2 ^ n BY <3>1, PowerAssumption
    <3>3. 2 ^ n \in Nat \ {0} BY <1>2, <2>1, Widths
    <3> QED BY <3>2, <3>3
  <2> QED BY <2>1, <1>2
<1> HIDE DEF T
<1>3. T = Nat BY <1>1, <1>2, Induction DEF T
<1> QED BY <1>3 DEF T

LEMMA PowerNext ==
  ASSUME NEW k \in Nat, k < Most
  PROVE  2 ^ (k + 1) = 2 * 2 ^ k
<1>1. k \in 0 .. 2 * Bits["dword"] BY Widths DEF Most, Sizes
<1> QED BY <1>1, PowerAssumption

LEMMA PowerSum ==
  ASSUME NEW j \in Nat, NEW k \in Nat, j + k <= Most
  PROVE  2 ^ (j + k) = 2 ^ j * 2 ^ k
<1> DEFINE T == {n \in Nat : n + k <= Most => 2 ^ (n + k) = 2 ^ n * 2 ^ k}
<1>0. Most \in Nat BY Widths
<1>1. 0 \in T
  <2>1. k <= Most BY <1>0
  <2>2. 2 ^ k \in Nat BY <2>1, PowerType
  <2>3. 2 ^ 0 = 1 BY PowerAssumption
  <2>4. 2 ^ (0 + k) = 2 ^ k OBVIOUS
  <2>5. 2 ^ 0 * 2 ^ k = 2 ^ k BY <2>2, <2>3
  <2> QED BY <2>4, <2>5
<1>2. ASSUME NEW n \in T PROVE n + 1 \in T
  <2>1. n \in Nat OBVIOUS
  <2> SUFFICES ASSUME n + 1 + k <= Most PROVE 2 ^ ((n + 1) + k) = 2 ^ (n + 1) * 2 ^ k
    BY <2>1
  <2>2. n + k < Most /\ n < Most /\ k <= Most BY <1>0, <2>1
  <2> DEFINE x == 2 ^ n
             y == 2 ^ k
             z == 2 ^ (n + k)
  <2>3. x \in Nat /\ y \in Nat BY <2>1, <2>2, <1>0, PowerType
  <2>9. z = x * y BY <2>2, <1>2, <1>0
  <2>4. 2 ^ (n + 1) = 2 * x BY <2>1, <2>2, PowerNext
  <2>5. n + k \in Nat BY <2>1
  <2>6. 2 ^ ((n + k) + 1) = 2 * z BY <2>2, <2>5, PowerNext
  <2>7. (n + 1) + k = (n + k) + 1 BY <2>1
  <2> HIDE DEF x, y, z
  <2>8. 2 * (x * y) = (2 * x) * y BY <2>3
  <2> QED BY <2>3, <2>4, <2>6, <2>7, <2>8, <2>9 DEF y
<1> HIDE DEF T
<1>3. T = Nat BY <1>1, <1>2, Induction DEF T
<1> QED BY <1>3 DEF T

(* Half of the values of a size.                                           *)
Half(z) == 2 ^ Top(z)

LEMMA Halves ==
  ASSUME NEW z \in Sizes
  PROVE  /\ Half(z) \in Nat \ {0} /\ N(z) \in Nat \ {0}
         /\ N(z) = 2 * Half(z) /\ N(z) \div 2 = Half(z)
<1>1. Bits[z] \in Nat \ {0} /\ Top(z) \in Nat /\ Top(z) < Most BY Widths DEF Top
<1>2. Half(z) \in Nat \ {0} BY <1>1, Widths, PowerType DEF Half
<1>3. Top(z) + 1 = Bits[z] BY <1>1 DEF Top
<1>4. N(z) = 2 * Half(z) BY <1>1, <1>3, PowerNext DEF N, Half
<1> QED BY <1>2, <1>4

-----------------------------------------------------------------------------
(* What the opcodes leave is of the type it should be                      *)

LEMMA ValuesAre ==
  ASSUME NEW z \in Sizes
  PROVE  /\ \A x \in Int : Wrap(z, x) \in Values(z)
         /\ \A x \in Values(z) : x \in Nat /\ x < N(z)
         /\ \A x \in Nat : x < N(z) => x \in Values(z)
<1>1. N(z) \in Nat \ {0} BY Halves
<1>2. ASSUME NEW x \in Int PROVE Wrap(z, x) \in Values(z)
  BY <1>1, DivMod DEF Wrap, Values
<1>3. ASSUME NEW x \in Values(z) PROVE x \in Nat /\ x < N(z)
  BY <1>1 DEF Values
<1>4. ASSUME NEW x \in Nat, x < N(z) PROVE x \in Values(z)
  BY <1>1, <1>4 DEF Values
<1> QED BY <1>2, <1>3, <1>4

LEMMA FlagsSet ==
  ASSUME NEW f \in FlagSet, NEW b \in BOOLEAN
  PROVE  /\ [f EXCEPT !.carry = b] \in FlagSet
         /\ [f EXCEPT !.parity = b] \in FlagSet
         /\ [f EXCEPT !.adjust = b] \in FlagSet
         /\ [f EXCEPT !.zero = b] \in FlagSet
         /\ [f EXCEPT !.sign = b] \in FlagSet
         /\ [f EXCEPT !.overflow = b] \in FlagSet
BY DEF FlagSet

LEMMA FlagsAre ==
  ASSUME NEW f \in FlagSet
  PROVE  /\ f.carry \in BOOLEAN /\ f.parity \in BOOLEAN /\ f.adjust \in BOOLEAN
         /\ f.zero \in BOOLEAN /\ f.sign \in BOOLEAN /\ f.overflow \in BOOLEAN
BY DEF FlagSet

LEMMA JudgedType ==
  ASSUME NEW z \in Sizes, NEW r, NEW f \in FlagSet
  PROVE  Judged(z, r, f) \in FlagSet
<1>1. (r = 0) \in BOOLEAN /\ Parity(r) \in BOOLEAN /\ Bit(r, Top(z)) \in BOOLEAN
  BY DEF Parity, Bit
<1> DEFINE g == [f EXCEPT !.zero = r = 0]
           h == [g EXCEPT !.parity = Parity(r)]
<1>2. g \in FlagSet BY <1>1, FlagsSet
<1>3. h \in FlagSet BY <1>1, <1>2, FlagsSet
<1>4. [h EXCEPT !.sign = Bit(r, Top(z))] \in FlagSet BY <1>1, <1>3, FlagsSet
<1>5. Judged(z, r, f) = [h EXCEPT !.sign = Bit(r, Top(z))] BY DEF Judged
<1> QED BY <1>4, <1>5

(* An outcome that a register and the flags can take.                      *)
Fits(z, o) == o.value \in Values(z) /\ o.flags \in FlagSet

LEMMA AddSubType ==
  ASSUME NEW z \in Sizes, NEW a \in Int, NEW b \in Int, NEW f \in FlagSet
  PROVE  Fits(z, Add(z, a, b, f)) /\ Fits(z, Sub(z, a, b, f))
<1>1. a + b \in Int /\ a - b \in Int OBVIOUS
<1>2. Wrap(z, a + b) \in Values(z) /\ Wrap(z, a - b) \in Values(z)
  BY <1>1, ValuesAre
<1>3. Judged(z, Wrap(z, a + b), f) \in FlagSet /\ Judged(z, Wrap(z, a - b), f) \in FlagSet
  BY JudgedType
<1>4. /\ (a + b >= N(z)) \in BOOLEAN /\ (a < b) \in BOOLEAN
      /\ (Signed(z, a) + Signed(z, b) \notin SignedValues(z)) \in BOOLEAN
      /\ (Signed(z, a) - Signed(z, b) \notin SignedValues(z)) \in BOOLEAN
      /\ AdjustUp(a, b) \in BOOLEAN /\ AdjustDown(a, b) \in BOOLEAN
  BY DEF AdjustUp, AdjustDown
<1>5. Add(z, a, b, f).flags \in FlagSet
  BY <1>3, <1>4, FlagsSet DEF Add, Outcome
<1>6. Sub(z, a, b, f).flags \in FlagSet
  BY <1>3, <1>4, FlagsSet DEF Sub, Outcome
<1> QED BY <1>2, <1>5, <1>6 DEF Fits, Add, Sub, Outcome

LEMMA IncDecType ==
  ASSUME NEW z \in Sizes, NEW a \in Int, NEW f \in FlagSet
  PROVE  Fits(z, Inc(z, a, f)) /\ Fits(z, Dec(z, a, f))
<1>1. f.carry \in BOOLEAN BY FlagsAre
<1>2. Fits(z, Add(z, a, 1, f)) /\ Fits(z, Sub(z, a, 1, f)) BY AddSubType
<1>3. [Add(z, a, 1, f).flags EXCEPT !.carry = f.carry] \in FlagSet
      /\ [Sub(z, a, 1, f).flags EXCEPT !.carry = f.carry] \in FlagSet
  BY <1>1, <1>2, FlagsSet DEF Fits
<1>4. /\ Inc(z, a, f).value = Add(z, a, 1, f).value
      /\ Inc(z, a, f).flags = [Add(z, a, 1, f).flags EXCEPT !.carry = f.carry]
  BY DEF Inc, Add, Outcome
<1>5. /\ Dec(z, a, f).value = Sub(z, a, 1, f).value
      /\ Dec(z, a, f).flags = [Sub(z, a, 1, f).flags EXCEPT !.carry = f.carry]
  BY DEF Dec, Sub, Outcome
<1> QED BY <1>2, <1>3, <1>4, <1>5 DEF Fits

LEMMA NegType ==
  ASSUME NEW z \in Sizes, NEW a \in Int, NEW f \in FlagSet
  PROVE  Fits(z, Neg(z, a, f))
<1>1. -a \in Int OBVIOUS
<1>2. Wrap(z, -a) \in Values(z) BY <1>1, ValuesAre
<1> DEFINE g == [f EXCEPT !.carry = a # 0]
           h == [g EXCEPT !.zero = a = 0]
           o == -Signed(z, a) \notin SignedValues(z)
<1>3. (a # 0) \in BOOLEAN /\ (a = 0) \in BOOLEAN /\ o \in BOOLEAN OBVIOUS
<1>4. g \in FlagSet BY <1>3, FlagsSet
<1>5. h \in FlagSet BY <1>3, <1>4, FlagsSet
<1>6. [h EXCEPT !.overflow = o] \in FlagSet BY <1>3, <1>5, FlagsSet
<1>7. Neg(z, a, f) = Outcome(Wrap(z, -a), [h EXCEPT !.overflow = o]) BY DEF Neg
<1> QED BY <1>2, <1>6, <1>7 DEF Fits, Outcome

LEMMA NotType ==
  ASSUME NEW z \in Sizes, NEW a \in Values(z), NEW f \in FlagSet
  PROVE  Fits(z, Not(z, a, f))
<1>1. N(z) \in Nat \ {0} BY Halves
<1>2. N(z) - 1 - a \in Values(z) BY <1>1 DEF Values
<1> QED BY <1>2 DEF Fits, Not, Outcome

LEMMA LogicalType ==
  ASSUME NEW z \in Sizes, NEW r \in Values(z), NEW f \in FlagSet
  PROVE  Fits(z, Logical(z, r, f))
<1> DEFINE g == [Judged(z, r, f) EXCEPT !.carry = FALSE]
<1>1. Judged(z, r, f) \in FlagSet BY JudgedType
<1>2. g \in FlagSet BY <1>1, FlagsSet
<1>3. [g EXCEPT !.overflow = FALSE] \in FlagSet BY <1>2, FlagsSet
<1>4. Logical(z, r, f) = Outcome(r, [g EXCEPT !.overflow = FALSE]) BY DEF Logical
<1> QED BY <1>3, <1>4 DEF Fits, Outcome

-----------------------------------------------------------------------------
(* The bits of a number                                                    *)

(* A bit more on top does not change the lower ones.                       *)
LEMMA TopBit ==
  ASSUME NEW n \in Nat, n < Most, NEW x \in Nat, x < 2 ^ n
  PROVE  /\ ~ Bit(x, n) /\ Bit(x + 2 ^ n, n)
         /\ \A k \in 0 .. n - 1 : Bit(x + 2 ^ n, k) <=> Bit(x, k)
<1>0. Most \in Nat BY Widths
<1> DEFINE p == 2 ^ n
<1>9. n <= Most BY <1>0
<1>1. p \in Nat \ {0} /\ x < p BY <1>9, PowerType
<1> HIDE DEF p
<1>8. x \in Int /\ x \div p = 0 BY <1>1
<1>2. ~ Bit(x, n)
  <2> QED BY <1>8 DEF Bit, p
<1>3. Bit(x + p, n)
  <2>2. 1 \in Int OBVIOUS
  <2>1. (x + p * 1) \div p = (x \div p) + 1 BY <1>1, <1>8, <2>2, DivAdd, Zenon
  <2>3. p * 1 = p BY <1>1
  <2>4. (x + p) \div p = 1 BY <1>8, <2>1, <2>3
  <2> QED BY <2>4 DEF Bit, p
<1>4. ASSUME NEW k \in 0 .. n - 1 PROVE Bit(x + p, k) <=> Bit(x, k)
  <2> DEFINE u == 2 ^ k
             m == 2 ^ (n - 1 - k)
             d == x \div u
  <2>0. k \in Nat /\ n - 1 - k \in Nat /\ k + 1 \in Nat /\ (k + 1) + (n - 1 - k) = n
        /\ k < Most /\ k <= Most /\ n <= Most /\ n - 1 - k <= Most
    BY <1>0
  <2>1. u \in Nat \ {0} BY <2>0, PowerType
  <2>2. m \in Nat \ {0} BY <2>0, PowerType
  <2>3. 2 ^ ((k + 1) + (n - 1 - k)) = 2 ^ (k + 1) * m BY <2>0, PowerSum
  <2>4. 2 ^ (k + 1) = 2 * u BY <2>0, PowerNext
  <2>5. p = (2 * u) * m BY <2>0, <2>3, <2>4 DEF p
  <2> HIDE DEF u, m, p
  <2>6. p = u * (2 * m) BY <2>1, <2>2, <2>5
  <2> DEFINE q == 2 * m
  <2>7. q \in Int BY <2>2
  <2> HIDE DEF q
  <2>8. (x + u * q) \div u = d + q BY <1>8, <2>1, <2>7, DivAdd, Zenon
  <2> HIDE DEF d
  <2>9. d \in Int BY <2>1, DivMod DEF d
  <2>10. (d + 2 * m) % 2 = d % 2 BY <2>2, <2>9, DivAdd
  <2>11. Bit(x + p, k) = ((d + 2 * m) % 2 = 1) BY <2>6, <2>8 DEF Bit, q, u
  <2>12. Bit(x, k) = (d % 2 = 1) BY DEF Bit, d, u
  <2> QED BY <2>10, <2>11, <2>12
<1> QED BY <1>2, <1>3, <1>4 DEF p

(* Every set of bits is that of a number.                                  *)
LEMMA Exists ==
  ASSUME NEW n \in Nat, n <= Most, NEW K \in SUBSET (0 .. n - 1)
  PROVE  \E x \in Nat : x < 2 ^ n /\ \A k \in 0 .. n - 1 : Bit(x, k) <=> k \in K
<1>0. Most \in Nat BY Widths
<1> DEFINE Has(m, L) == \E x \in Nat : /\ x < 2 ^ m
                                       /\ \A k \in 0 .. m - 1 : Bit(x, k) <=> k \in L
           T == {m \in Nat : m <= Most => \A L \in SUBSET (0 .. m - 1) : Has(m, L)}
<1>1. 0 \in T
  <2>1. 0 < 2 ^ 0 /\ 0 .. 0 - 1 = {} BY PowerAssumption
  <2> QED BY <2>1
<1>2. ASSUME NEW m \in T PROVE m + 1 \in T
  <2> SUFFICES ASSUME m + 1 <= Most, NEW L \in SUBSET (0 .. (m + 1) - 1)
               PROVE  Has(m + 1, L)
    OBVIOUS
  <2> DEFINE M == L \ {m}
             p == 2 ^ m
  <2>0. m \in Nat /\ m < Most /\ m <= Most BY <1>0
  <2>1. 2 ^ (m + 1) = 2 * p BY <2>0, PowerNext
  <2>2. p \in Nat \ {0} BY <2>0, PowerType
  <2>3. \A k \in 0 .. (m + 1) - 1 : k = m \/ k \in 0 .. m - 1 BY <2>0
  <2>4. M \in SUBSET (0 .. m - 1) BY <2>3
  <2>5. PICK x \in Nat : x < 2 ^ m /\ \A k \in 0 .. m - 1 : Bit(x, k) <=> k \in M
    BY <2>0, <2>4
  <2>6. /\ ~ Bit(x, m) /\ Bit(x + 2 ^ m, m)
        /\ \A k \in 0 .. m - 1 : Bit(x + 2 ^ m, k) <=> Bit(x, k)
    BY <2>0, <2>5, TopBit
  <2>7. \A k \in 0 .. m - 1 : k # m /\ (k \in M <=> k \in L) BY <2>0
  <2> HIDE DEF M
  <2>8. CASE m \in L
    <3> DEFINE y == x + p
    <3>1. y \in Nat /\ y < 2 * p BY <2>2, <2>5
    <3>2. \A k \in 0 .. (m + 1) - 1 : Bit(y, k) <=> k \in L
      BY <2>3, <2>5, <2>6, <2>7, <2>8
    <3> HIDE DEF y
    <3> QED BY <3>1, <3>2, <2>1
  <2>9. CASE m \notin L
    <3>1. x < 2 * p BY <2>2, <2>5
    <3>2. \A k \in 0 .. (m + 1) - 1 : Bit(x, k) <=> k \in L
      BY <2>3, <2>5, <2>6, <2>7, <2>9
    <3> QED BY <3>1, <3>2, <2>1
  <2> QED BY <2>8, <2>9
<1> HIDE DEF T
<1>3. T = Nat BY <1>1, <1>2, Induction DEF T
<1> QED BY <1>3 DEF T

(* The bits determine the number.                                          *)
LEMMA Unique ==
  ASSUME NEW n \in Nat, n <= Most, NEW x \in Nat, NEW y \in Nat,
         x < 2 ^ n, y < 2 ^ n, \A k \in 0 .. n - 1 : Bit(x, k) <=> Bit(y, k)
  PROVE  x = y
<1>0. Most \in Nat BY Widths
<1> DEFINE Same(m, v, w) == \A k \in 0 .. m - 1 : Bit(v, k) <=> Bit(w, k)
           T == {m \in Nat : m <= Most =>
                   \A v, w \in Nat : v < 2 ^ m /\ w < 2 ^ m /\ Same(m, v, w) => v = w}
<1>1. 0 \in T
  <2>1. 2 ^ 0 = 1 BY PowerAssumption
  <2>2. \A v, w \in Nat : v < 1 /\ w < 1 => v = w OBVIOUS
  <2> QED BY <2>1, <2>2
<1>2. ASSUME NEW m \in T PROVE m + 1 \in T
  <2> SUFFICES ASSUME m + 1 <= Most, NEW v \in Nat, NEW w \in Nat,
                      v < 2 ^ (m + 1), w < 2 ^ (m + 1), Same(m + 1, v, w)
               PROVE  v = w
    OBVIOUS
  <2> DEFINE p == 2 ^ m
             Low(u) == IF u < p THEN u ELSE u - p
  <2>0. m \in Nat /\ m < Most /\ m <= Most BY <1>0
  <2>1. 2 ^ (m + 1) = 2 * p BY <2>0, PowerNext
  <2>2. p \in Nat \ {0} BY <2>0, PowerType
  <2>3. ASSUME NEW u \in Nat, u < 2 ^ (m + 1)
        PROVE  /\ Low(u) \in Nat /\ Low(u) < p
               /\ Bit(u, m) <=> ~ (u < p)
               /\ \A k \in 0 .. m - 1 : Bit(u, k) <=> Bit(Low(u), k)
    <3>1. Low(u) \in Nat /\ Low(u) < p BY <2>1, <2>2, <2>3
    <3>2. /\ ~ Bit(Low(u), m) /\ Bit(Low(u) + p, m)
          /\ \A k \in 0 .. m - 1 : Bit(Low(u) + p, k) <=> Bit(Low(u), k)
      BY <2>0, <3>1, TopBit
    <3>3. u < p => u = Low(u) OBVIOUS
    <3>4. ~ (u < p) => u = Low(u) + p BY <2>2
    <3> HIDE DEF Low
    <3> QED BY <3>1, <3>2, <3>3, <3>4
  <2>4. \A k \in 0 .. m - 1 : k \in 0 .. (m + 1) - 1 BY <2>0
  <2>5. m \in 0 .. (m + 1) - 1 BY <2>0
  <2>6. Same(m, Low(v), Low(w))
    <3> HIDE DEF Low
    <3> QED BY <2>3, <2>4
  <2>7. v < p <=> w < p
    <3> HIDE DEF Low
    <3> QED BY <2>3, <2>5
  <2>8. Low(v) = Low(w)
    <3> HIDE DEF Low
    <3> QED BY <2>0, <2>3, <2>6
  <2> QED BY <2>2, <2>7, <2>8
<1> HIDE DEF T
<1>3. T = Nat BY <1>1, <1>2, Induction DEF T
<1> QED BY <1>3 DEF T

LEMMA SizeOfValues ==
  ASSUME NEW z \in Sizes
  PROVE  /\ Bits[z] \in Nat /\ Bits[z] <= Most /\ Bits[z] - 1 = Top(z)
         /\ \A x \in Values(z) : x \in Nat /\ x < 2 ^ Bits[z]
         /\ \A x \in Nat : x < 2 ^ Bits[z] => x \in Values(z)
<1>1. Bits[z] \in Nat \ {0} /\ 2 * Bits[z] <= Most - 1 /\ Most \in Nat BY Widths
<1>2. Bits[z] <= Most BY <1>1
<1> QED BY <1>1, <1>2, ValuesAre DEF Top, N

LEMMA FromBitsIs ==
  ASSUME NEW z \in Sizes, NEW K \in SUBSET (0 .. Top(z))
  PROVE  FromBits(z, K) \in Values(z) /\ BitsOf(z, FromBits(z, K)) = K
<1>1. K \in SUBSET (0 .. Bits[z] - 1) BY SizeOfValues
<1>2. PICK x \in Nat : x < 2 ^ Bits[z] /\ \A k \in 0 .. Bits[z] - 1 : Bit(x, k) <=> k \in K
  BY <1>1, SizeOfValues, Exists
<1>3. x \in Values(z) BY <1>2, SizeOfValues
<1>4. \A k \in 0 .. Top(z) : Bit(x, k) <=> k \in K BY <1>2, SizeOfValues
<1>5. BitsOf(z, x) = K BY <1>4 DEF BitsOf
<1> QED BY <1>3, <1>5 DEF FromBits

LEMMA SameBits ==
  ASSUME NEW z \in Sizes, NEW x \in Values(z), NEW y \in Values(z),
         BitsOf(z, x) = BitsOf(z, y)
  PROVE  x = y
<1>1. \A k \in 0 .. Top(z) : Bit(x, k) <=> Bit(y, k) BY DEF BitsOf
<1>2. \A k \in 0 .. Bits[z] - 1 : Bit(x, k) <=> Bit(y, k) BY <1>1, SizeOfValues
<1>3. x \in Nat /\ y \in Nat /\ x < 2 ^ Bits[z] /\ y < 2 ^ Bits[z] BY SizeOfValues
<1> QED BY <1>2, <1>3, SizeOfValues, Unique

(* Taking a number from all ones turns its bits over.                      *)
LEMMA Complement ==
  ASSUME NEW z \in Sizes, NEW x \in Values(z)
  PROVE  BitsOf(z, N(z) - 1 - x) = (0 .. Top(z)) \ BitsOf(z, x)
<1>1. ASSUME NEW k \in 0 .. Top(z)
      PROVE  Bit(N(z) - 1 - x, k) <=> ~ Bit(x, k)
  <2> DEFINE n == Bits[z]
             u == 2 ^ k
             m == 2 ^ (n - 1 - k)
             d == x \div u
             r == x % u
             p == N(z)
             e == 2 * m - d - 1
             t == u - 1 - r
  <2>0. n \in Nat \ {0} /\ Top(z) = n - 1 /\ 2 * n <= Most - 1 /\ Most \in Nat
    BY Widths DEF Top
  <2>1. k \in Nat /\ n - 1 - k \in Nat /\ k + 1 \in Nat /\ (k + 1) + (n - 1 - k) = n
        /\ k < Most /\ k <= Most /\ n <= Most /\ n - 1 - k <= Most
    BY <2>0
  <2>2. u \in Nat \ {0} BY <2>1, PowerType
  <2>3. m \in Nat \ {0} BY <2>1, PowerType
  <2>4. 2 ^ ((k + 1) + (n - 1 - k)) = 2 ^ (k + 1) * m BY <2>1, PowerSum
  <2>5. 2 ^ (k + 1) = 2 * u BY <2>1, PowerNext
  <2>6. p = (2 * u) * m BY <2>1, <2>4, <2>5 DEF N
  <2>7. x \in Int BY ValuesAre
  <2>8. d \in Int /\ r \in 0 .. u - 1 /\ x = u * d + r
    <3> HIDE DEF u
    <3> QED BY <2>2, <2>7, DivMod
  <2>9. Bit(x, k) = (d % 2 = 1) BY DEF Bit
  <2>10. Bit(p - 1 - x, k) = (((p - 1 - x) \div u) % 2 = 1) BY DEF Bit
  <2> HIDE DEF u, m, d, r, p
  <2>11. e \in Int /\ t \in 0 .. u - 1 BY <2>2, <2>3, <2>8
  <2>12. u * e + t = u * (2 * m) - u * d - u + t
    <3>1. u * (2 * m - d - 1) = u * (2 * m) - u * d - u BY <2>2, <2>3, <2>8, Z3
    <3> QED BY <3>1
  <2>13. p = u * (2 * m) BY <2>2, <2>3, <2>6
  <2>14. u * (2 * m) \in Int /\ u * d \in Int BY <2>2, <2>3, <2>8
  <2>15. p - 1 - x = u * e + t BY <2>2, <2>8, <2>11, <2>12, <2>13, <2>14
  <2> HIDE DEF e, t
  <2>16. (u * e + t) \div u = e BY <2>2, <2>11, DivUnique
  <2>17. (e % 2 = 1) <=> ~ (d % 2 = 1) BY <2>3, <2>8 DEF e
  <2> QED BY <2>9, <2>10, <2>15, <2>16, <2>17 DEF p
<1> QED BY <1>1 DEF BitsOf

LEMMA LogicType ==
  ASSUME NEW z \in Sizes, NEW a, NEW b, NEW f \in FlagSet
  PROVE  Fits(z, And(z, a, b, f)) /\ Fits(z, Or(z, a, b, f)) /\ Fits(z, Xor(z, a, b, f))
<1>1. BitsOf(z, a) \in SUBSET (0 .. Top(z)) /\ BitsOf(z, b) \in SUBSET (0 .. Top(z))
  BY DEF BitsOf
<1> QED BY <1>1, FromBitsIs, LogicalType DEF And, Or, Xor

(* The power that a count reduced to less than w places stands for.        *)
LEMMA ReducedPower ==
  ASSUME NEW k \in Int, NEW w \in Nat \ {0}, w <= Most
  PROVE  k % w \in Nat /\ k % w < w /\ 2 ^ (k % w) \in Nat \ {0}
<1>1. k % w \in 0 .. w - 1 BY DivMod
<1> DEFINE m == k % w
<1>2. m \in Nat /\ m < w BY <1>1
<1> HIDE DEF m
<1>3. m <= Most BY <1>2, Widths
<1> QED BY <1>2, <1>3, PowerType DEF m

LEMMA ByOneType ==
  ASSUME NEW k, NEW o \in BOOLEAN, NEW f \in FlagSet
  PROVE  ByOne(k, o, f) \in BOOLEAN
BY FlagsAre DEF ByOne

LEMMA CarryOverflow ==
  ASSUME NEW f \in FlagSet, NEW c \in BOOLEAN, NEW o \in BOOLEAN
  PROVE  [f EXCEPT !.carry = c, !.overflow = o] \in FlagSet
<1> DEFINE g == [f EXCEPT !.carry = c]
<1>1. g \in FlagSet BY FlagsSet
<1>2. [g EXCEPT !.overflow = o] \in FlagSet BY <1>1, FlagsSet
<1> QED BY <1>2

LEMMA ShlType ==
  ASSUME NEW z \in Sizes, NEW a \in Int, NEW k \in Nat, NEW f \in FlagSet
  PROVE  Fits(z, Shl(z, a, k, f))
<1> DEFINE W == ShlWidth(z)
           p == 2 ^ (k % W)
           w == 2 ^ W
           wide == (a * p) % w
           r == Wrap(z, wide)
           c == Bit(wide, ShlCarry(z))
           e == IF z = "word" THEN wide = 0 ELSE r = 0
           o == ByOne(k, Bit(a, Top(z)) # Bit(r, Top(z)), f)
           g == [Judged(z, r, f) EXCEPT !.carry = c]
           h == [g EXCEPT !.zero = e]
<1>1. W \in Nat \ {0} /\ W <= Most BY Widths DEF ShlWidth
<1>2. p \in Nat \ {0} /\ w \in Nat \ {0}
  <2> HIDE DEF W
  <2>1. k \in Int OBVIOUS
  <2> QED BY <1>1, <2>1, ReducedPower, PowerType
<1>3. wide \in Int
  <2> HIDE DEF p, w
  <2>1. a * p \in Int BY <1>2
  <2> QED BY <1>2, <2>1, DivMod
<1>4. r \in Values(z)
  <2> HIDE DEF wide
  <2> QED BY <1>3, ValuesAre
<1>5. c \in BOOLEAN /\ e \in BOOLEAN /\ o \in BOOLEAN BY ByOneType DEF Bit
<1>6. Shl(z, a, k, f) = Outcome(r, [h EXCEPT !.overflow = o]) BY DEF Shl
<1> HIDE DEF r, c, e, o
<1>7. g \in FlagSet BY <1>5, JudgedType, FlagsSet
<1>8. h \in FlagSet BY <1>5, <1>7, FlagsSet
<1>9. [h EXCEPT !.overflow = o] \in FlagSet BY <1>5, <1>8, FlagsSet
<1> QED BY <1>4, <1>6, <1>9 DEF Fits, Outcome

LEMMA ShrType ==
  ASSUME NEW z \in Sizes, NEW a \in Values(z), NEW k \in Nat, NEW f \in FlagSet
  PROVE  Fits(z, Shr(z, a, k, f))
<1> DEFINE W == ShrWidth(z)
           p == 2 ^ (k % W)
           r == a \div p
           o == ByOne(k, Bit(a, Top(z)) # Bit(r, Top(z)), f)
<1>1. W \in Nat \ {0} /\ W <= Most
  <2>1. Bits[z] \in Nat \ {0} /\ 2 * Bits[z] <= Most - 1 /\ Most \in Nat BY Widths
  <2> QED BY <2>1 DEF ShrWidth
<1>2. p \in Nat \ {0}
  <2> HIDE DEF W
  <2>1. k \in Int OBVIOUS
  <2> QED BY <1>1, <2>1, ReducedPower
<1>3. r \in Values(z)
  <2>1. a \in Nat /\ a < N(z) BY ValuesAre
  <2>2. r \in 0 .. a
    <3> HIDE DEF p
    <3> QED BY <1>2, <2>1, QuotientBelow
  <2>3. r \in Nat /\ r < N(z)
    <3> HIDE DEF r
    <3> QED BY <2>1, <2>2, Halves
  <2> HIDE DEF r
  <2> QED BY <2>3, ValuesAre
<1>4. LastOut(z, a, k) \in BOOLEAN /\ o \in BOOLEAN BY ByOneType DEF LastOut, Bit
<1>5. Shr(z, a, k, f) = Outcome(r, [Judged(z, r, f) EXCEPT !.carry = LastOut(z, a, k),
                                                           !.overflow = o])
  BY DEF Shr
<1> HIDE DEF r, o
<1>6. [Judged(z, r, f) EXCEPT !.carry = LastOut(z, a, k), !.overflow = o] \in FlagSet
  BY <1>4, JudgedType, CarryOverflow
<1> QED BY <1>3, <1>5, <1>6 DEF Fits, Outcome

LEMMA SignedType ==
  ASSUME NEW z \in Sizes, NEW a \in Int
  PROVE  Signed(z, a) \in Int
BY Halves DEF Signed

LEMMA SarType ==
  ASSUME NEW z \in Sizes, NEW a \in Values(z), NEW k \in Nat, NEW f \in FlagSet
  PROVE  Fits(z, Sar(z, a, k, f))
<1> DEFINE t == Reduced(k)
           p == 2 ^ (t % Bits[z])
           r == Wrap(z, Signed(z, a) \div p)
           o == ByOne(k, FALSE, f)
           c == Bit(a, (t - 1) % Bits[z])
<1>1. Bits[z] \in Nat \ {0} /\ Bits[z] <= Most /\ Most \in Nat
      /\ Bits["dword"] \in Nat \ {0}
  BY Widths, SizeOfValues DEF Sizes
<1>2. t \in Int
  <2>1. k \in Int OBVIOUS
  <2> QED BY <1>1, <2>1, DivMod DEF Reduced
<1>3. p \in Nat \ {0}
  <2> HIDE DEF t
  <2> QED BY <1>1, <1>2, ReducedPower
<1>4. r \in Values(z)
  <2> HIDE DEF p
  <2>1. Signed(z, a) \in Int BY ValuesAre, SignedType
  <2>2. Signed(z, a) \div p \in Int BY <1>3, <2>1, DivMod
  <2> QED BY <2>2, ValuesAre
<1>5. o \in BOOLEAN /\ c \in BOOLEAN BY ByOneType DEF Bit
<1>6. Sar(z, a, k, f) =
        IF t = 0 THEN Outcome(a, [f EXCEPT !.overflow = o])
        ELSE Outcome(r, [Judged(z, r, f) EXCEPT !.carry = c, !.overflow = o])
  BY DEF Sar
<1> HIDE DEF t, r, o, c
<1>7. [f EXCEPT !.overflow = o] \in FlagSet BY <1>5, FlagsSet
<1>8. [Judged(z, r, f) EXCEPT !.carry = c, !.overflow = o] \in FlagSet
  BY <1>5, JudgedType, CarryOverflow
<1> QED BY <1>4, <1>6, <1>7, <1>8 DEF Fits, Outcome

(* A rotation by t places: the halves of the ring.                         *)
LEMMA Places ==
  ASSUME NEW z \in Sizes, NEW t \in 1 .. Top(z)
  PROVE  /\ t \in Nat /\ Bits[z] - t \in Nat
         /\ 2 ^ t \in Nat \ {0} /\ 2 ^ (Bits[z] - t) \in Nat \ {0}
         /\ N(z) = 2 ^ t * 2 ^ (Bits[z] - t)
         /\ 2 ^ (Bits[z] + 1 - t) = 2 * 2 ^ (Bits[z] - t)
         /\ 2 ^ (Bits[z] + 1 - t) \in Nat \ {0}
<1>1. Bits[z] \in Nat \ {0} /\ 2 * Bits[z] <= Most - 1 /\ Most \in Nat
      /\ Top(z) = Bits[z] - 1
  BY Widths DEF Top
<1>2. /\ t \in Nat /\ Bits[z] - t \in Nat /\ t + (Bits[z] - t) = Bits[z]
      /\ Bits[z] <= Most /\ t <= Most /\ Bits[z] - t < Most /\ Bits[z] - t <= Most
      /\ (Bits[z] - t) + 1 = Bits[z] + 1 - t
  BY <1>1
<1>3. 2 ^ t \in Nat \ {0} /\ 2 ^ (Bits[z] - t) \in Nat \ {0} BY <1>2, PowerType
<1>4. 2 ^ (t + (Bits[z] - t)) = 2 ^ t * 2 ^ (Bits[z] - t) BY <1>2, PowerSum
<1>5. 2 ^ ((Bits[z] - t) + 1) = 2 * 2 ^ (Bits[z] - t) BY <1>2, PowerNext
<1> QED BY <1>2, <1>3, <1>4, <1>5 DEF N

LEMMA TurnsType ==
  ASSUME NEW z \in Sizes, NEW k \in Nat
  PROVE  Turns(z, k) = 0 \/ Turns(z, k) \in 1 .. Top(z)
<1>1. Bits[z] \in Nat \ {0} /\ Top(z) = Bits[z] - 1 BY Widths DEF Top
<1>2. k % Bits[z] \in 0 .. Bits[z] - 1
  <2>1. k \in Int OBVIOUS
  <2> QED BY <1>1, <2>1, DivMod
<1> QED BY <1>1, <1>2 DEF Turns

LEMMA RolType ==
  ASSUME NEW z \in Sizes, NEW a \in Values(z), NEW k \in Nat, NEW f \in FlagSet
  PROVE  Fits(z, Rol(z, a, k, f)) /\ Fits(z, Ror(z, a, k, f))
<1> DEFINE t == Turns(z, k)
           p == 2 ^ t
           q == 2 ^ (Bits[z] - t)
           l == Wrap(z, a * p) + (a \div q)
           r == (a \div p) + Wrap(z, a * q)
           lc == Bit(l, 0)
           rc == Bit(r, Top(z))
           lo == ByOne(t, Bit(l, Top(z)) # Bit(l, 0), f)
           ro == ByOne(t, Bit(r, Top(z)) # Bit(r, Top(z) - 1), f)
<1>1. /\ Rol(z, a, k, f) = IF t = 0 THEN Outcome(a, f)
                           ELSE Outcome(l, [f EXCEPT !.carry = lc, !.overflow = lo])
      /\ Ror(z, a, k, f) = IF t = 0 THEN Outcome(a, f)
                           ELSE Outcome(r, [f EXCEPT !.carry = rc, !.overflow = ro])
  BY DEF Rol, Ror
<1>2. lc \in BOOLEAN /\ rc \in BOOLEAN /\ lo \in BOOLEAN /\ ro \in BOOLEAN
  BY ByOneType DEF Bit
<1>3. a \in Nat /\ a < N(z) BY ValuesAre
<1>4. CASE t \in 1 .. Top(z)
  <2>1. p \in Nat \ {0} /\ q \in Nat \ {0} /\ N(z) = p * q BY <1>4, Places
  <2> HIDE DEF p, q
  <2>2. a < p * q BY <1>3, <2>1
  <2>3. (a * p) % (p * q) = p * (a % q) /\ p * (a % q) + (a \div q) \in Nat
        /\ p * (a % q) + (a \div q) < p * q
    BY <1>3, <2>1, <2>2, TurnOver
  <2>4. a < q * p /\ N(z) = q * p BY <1>3, <2>1
  <2>5. (a * q) % (q * p) = q * (a % p) /\ q * (a % p) + (a \div p) \in Nat
        /\ q * (a % p) + (a \div p) < q * p
    BY <1>3, <2>1, <2>4, TurnOver
  <2>6. l = p * (a % q) + (a \div q) BY <2>1, <2>3 DEF Wrap
  <2>7. r = q * (a % p) + (a \div p)
    <3>1. q * (a % p) \in Int /\ a \div p \in Int
      <4>1. a \in Int BY <1>3
      <4>2. a % p \in Int /\ a \div p \in Int BY <4>1, <2>1, DivMod
      <4> QED BY <2>1, <4>2
    <3>2. r = (a \div p) + q * (a % p) BY <2>4, <2>5 DEF Wrap
    <3> HIDE DEF r
    <3> QED BY <3>1, <3>2
  <2>8. l \in Nat /\ l < N(z)
    <3> HIDE DEF l
    <3> QED BY <2>1, <2>3, <2>6
  <2>9. r \in Nat /\ r < N(z)
    <3> HIDE DEF r
    <3> QED BY <2>4, <2>5, <2>7
  <2> HIDE DEF l, r, lc, rc, lo, ro, t
  <2>10. l \in Values(z) /\ r \in Values(z) BY <2>8, <2>9, ValuesAre
  <2>11. t # 0 BY <1>4
  <2>12. /\ [f EXCEPT !.carry = lc, !.overflow = lo] \in FlagSet
         /\ [f EXCEPT !.carry = rc, !.overflow = ro] \in FlagSet
    BY <1>2, CarryOverflow
  <2> QED BY <1>1, <2>10, <2>11, <2>12 DEF Fits, Outcome
<1>5. CASE t = 0 BY <1>1, <1>5 DEF Fits, Outcome
<1> QED BY <1>4, <1>5, TurnsType

LEMMA RclType ==
  ASSUME NEW z \in Sizes, NEW a \in Values(z), NEW k \in Nat, NEW f \in FlagSet
  PROVE  Fits(z, Rcl(z, a, k, f)) /\ Fits(z, Rcr(z, a, k, f))
<1> DEFINE t == Turns(z, k)
           p == 2 ^ t
           q == 2 ^ (Bits[z] + 1 - t)
           lb == 2 * a + Number(f.carry)
           lw == lb * p + (lb \div q)
           l == Wrap(z, lw \div 2)
           lc == Bit(lw, Bits[z] + 1)
           lo == ByOne(t, Bit(IF z = "dword" THEN l ELSE lw, Top(z)) # lc, f)
           rb == a + N(z) * Number(f.carry)
           rw == (rb \div p) + rb * q
           r == Wrap(z, rw)
           rc == Bit(rw, Bits[z])
           ro == ByOne(t, Bit(r, Top(z)) # Bit(r, Top(z) - 1), f)
<1>1. /\ Rcl(z, a, k, f) = IF t = 0 THEN Outcome(a, f)
                           ELSE Outcome(l, [f EXCEPT !.carry = lc, !.overflow = lo])
      /\ Rcr(z, a, k, f) = IF t = 0 THEN Outcome(a, f)
                           ELSE Outcome(r, [f EXCEPT !.carry = rc, !.overflow = ro])
  BY DEF Rcl, Rcr
<1>2. lc \in BOOLEAN /\ rc \in BOOLEAN /\ lo \in BOOLEAN /\ ro \in BOOLEAN
  BY ByOneType DEF Bit
<1>3. a \in Nat /\ N(z) \in Nat BY ValuesAre, Halves
<1>4. Number(f.carry) \in Nat BY DEF Number
<1>5. CASE t \in 1 .. Top(z)
  <2>1. p \in Nat \ {0} /\ q \in Nat \ {0} BY <1>5, Places
  <2> HIDE DEF p, q
  <2>2. lb \in Nat /\ rb \in Nat BY <1>3, <1>4
  <2> HIDE DEF lb, rb
  <2>3. lb \div q \in Int /\ rb \div p \in Int BY <2>1, <2>2, DivMod
  <2>4. lw \in Int /\ rw \in Int BY <2>1, <2>2, <2>3
  <2> HIDE DEF lw, rw
  <2>5. lw \div 2 \in Int BY <2>4
  <2>6. l \in Values(z) /\ r \in Values(z) BY <2>4, <2>5, ValuesAre
  <2> HIDE DEF l, r, lc, rc, lo, ro, t
  <2>7. t # 0 BY <1>5
  <2>8. /\ [f EXCEPT !.carry = lc, !.overflow = lo] \in FlagSet
        /\ [f EXCEPT !.carry = rc, !.overflow = ro] \in FlagSet
    BY <1>2, CarryOverflow
  <2> QED BY <1>1, <2>6, <2>7, <2>8 DEF Fits, Outcome
<1>6. CASE t = 0 BY <1>1, <1>6 DEF Fits, Outcome
<1> QED BY <1>5, <1>6, TurnsType

(* Two words and flags that the registers can take.                        *)
FitsPair(z, p) ==
  p.high \in Values(z) /\ p.low \in Values(z) /\ p.flags \in FlagSet

LEMMA ProductType ==
  ASSUME NEW z \in Sizes, NEW x \in Int, NEW f \in FlagSet
  PROVE  FitsPair(z, Product(z, x, f))
<1>1. N(z) \in Nat \ {0} BY Halves
<1>2. x \div N(z) \in Int BY <1>1, DivMod
<1>3. High(z, x) \in Values(z) BY <1>2, ValuesAre DEF High, Wrap
<1>4. x % N(z) \in Values(z) BY ValuesAre DEF Wrap
<1>5. (High(z, x) > 0) \in BOOLEAN OBVIOUS
<1>6. [f EXCEPT !.carry = High(z, x) > 0, !.overflow = High(z, x) > 0] \in FlagSet
  BY <1>5, CarryOverflow
<1> QED BY <1>3, <1>4, <1>6 DEF FitsPair, Product

LEMMA MulType ==
  ASSUME NEW z \in Sizes, NEW a \in Int, NEW b \in Int, NEW f \in FlagSet
  PROVE  FitsPair(z, Mul(z, a, b, f)) /\ FitsPair(z, Imul(z, a, b, f))
<1>1. a * b \in Int OBVIOUS
<1>2. Signed(z, a) \in Int /\ Signed(z, b) \in Int BY SignedType
<1> DEFINE c == IF z = "byte" THEN a ELSE Signed(z, a)
<1>3. c \in Int BY <1>2
<1>4. c * Signed(z, b) \in Int
  <2> HIDE DEF c
  <2> QED BY <1>2, <1>3
<1> QED BY <1>1, <1>4, ProductType DEF Mul, Imul

LEMMA QuotientType ==
  ASSUME NEW x \in Int, NEW y \in Int, y # 0
  PROVE  Quotient(x, y) \in Int /\ Remainder(x, y) \in Int
<1> DEFINE m == Magnitude(x)
           n == Magnitude(y)
           d == m \div n
<1>1. m \in Int /\ n \in Nat \ {0} BY DEF Magnitude
<1>2. d \in Int
  <2> HIDE DEF m, n
  <2> QED BY <1>1, DivMod
<1>3. Quotient(x, y) \in Int
  <2>1. Quotient(x, y) = IF (x < 0) # (y < 0) THEN -d ELSE d BY DEF Quotient
  <2> HIDE DEF d
  <2> QED BY <1>2, <2>1
<1>4. y * Quotient(x, y) \in Int BY <1>3
<1> QED BY <1>3, <1>4 DEF Remainder

(* A quotient that two words can take, or why there is none.               *)
FitsQuotient(z, d) ==
  \/ d.result \in {"DivideByZero", "Panic"}
  \/ d.result = "Ok" /\ d.quotient \in Values(z) /\ d.remainder \in Values(z)

LEMMA DivideType ==
  ASSUME NEW z \in Sizes, NEW x \in Int, NEW y \in Int
  PROVE  FitsQuotient(z, Divided(z, x, y))
<1>1. y # 0 => /\ Wrap(z, Quotient(x, y)) \in Values(z)
               /\ Wrap(z, Remainder(x, y)) \in Values(z)
  BY QuotientType, ValuesAre
<1> QED BY <1>1 DEF Divided, FitsQuotient

LEMMA DivType ==
  ASSUME NEW z \in Sizes, NEW h \in Int, NEW l \in Int, NEW b \in Int
  PROVE  FitsQuotient(z, Div(z, h, l, b)) /\ FitsQuotient(z, Idiv(z, h, l, b))
<1>1. N(z) \in Int BY Halves
<1>2. h * N(z) + l \in Int BY <1>1
<1>3. Signed(z, h) \in Int /\ Signed(z, b) \in Int BY SignedType
<1> DEFINE x == IF z = "dword" /\ l >= N(z) \div 2 THEN l - N(z)
                ELSE Signed(z, h) * N(z) + l
           y == IF z = "dword" THEN Signed(z, b) ELSE b
           m == -((N(z) * N(z)) \div 2)
<1>4. Signed(z, h) * N(z) + l \in Int /\ l - N(z) \in Int BY <1>1, <1>3
<1>5. x \in Int /\ y \in Int BY <1>3, <1>4
<1>6. Idiv(z, h, l, b) = IF y = -1 /\ x = m THEN [result |-> "Panic"]
                         ELSE Divided(z, x, y)
  BY DEF Idiv
<1> HIDE DEF x, y, m
<1>7. FitsQuotient(z, [result |-> "Panic"]) BY DEF FitsQuotient
<1> QED BY <1>2, <1>5, <1>6, <1>7, DivideType DEF Div

-----------------------------------------------------------------------------
(* The decimal opcodes are of real bytes.                                  *)

LEMMA ByteIs ==
  ASSUME Bits["byte"] = 8
  PROVE  N("byte") = 256 /\ Values("byte") = 0 .. 255 /\ "byte" \in Sizes
<1>1. "byte" \in Sizes BY DEF Sizes
<1>2. Most \in Nat /\ 8 <= Most - 1 BY <1>1, Widths
<1>3. 2 ^ (0 + 1) = 2 * 2 ^ 0 BY <1>2, PowerNext
<1>4. 2 ^ 1 = 2 BY <1>3, PowerAssumption
<1>5. 2 ^ (1 + 1) = 2 * 2 ^ 1 BY <1>2, PowerNext
<1>6. 2 ^ 2 = 4 BY <1>4, <1>5
<1>7. 2 ^ (2 + 2) = 2 ^ 2 * 2 ^ 2 BY <1>2, PowerSum
<1>8. 2 ^ 4 = 16 BY <1>6, <1>7
<1>9. 2 ^ (4 + 4) = 2 ^ 4 * 2 ^ 4 BY <1>2, PowerSum
<1>10. 2 ^ 8 = 256 BY <1>8, <1>9
<1> QED BY <1>1, <1>10 DEF N, Values

LEMMA DecimalType ==
  ASSUME NEW h \in 0 .. 255, NEW l \in 0 .. 255, NEW b \in Nat, NEW f \in FlagSet,
         Bits["byte"] = 8
  PROVE  /\ FitsPair("byte", Aaa(h, l, f)) /\ FitsPair("byte", Aas(h, l, f))
         /\ FitsPair("byte", Aad(h, l, b, f))
         /\ Fits("byte", Daa(l, f)) /\ Fits("byte", Das(l, f))
         /\ \/ Aam(l, b, f).result = "DivideByZero"
            \/ Aam(l, b, f).result = "Ok" /\ FitsPair("byte", Aam(l, b, f))
<1>1. N("byte") = 256 /\ Values("byte") = 0 .. 255 /\ "byte" \in Sizes BY ByteIs
<1>2. Irregular(l, f) \in BOOLEAN BY FlagsAre DEF Irregular
<1>3. Adjusted(Irregular(l, f), f) \in FlagSet
  <2> DEFINE g == [f EXCEPT !.adjust = Irregular(l, f)]
  <2>1. g \in FlagSet BY <1>2, FlagsSet
  <2>2. [g EXCEPT !.carry = Irregular(l, f)] \in FlagSet BY <1>2, <2>1, FlagsSet
  <2>3. Adjusted(Irregular(l, f), f) = [g EXCEPT !.carry = Irregular(l, f)] BY DEF Adjusted
  <2> QED BY <2>2, <2>3
<1>4. /\ Digit(l) \in 0 .. 255 /\ Digit(l + 6) \in 0 .. 255 /\ Digit(l - 6) \in 0 .. 255
  BY DEF Digit
<1>5. \A x \in Int : Wrap("byte", x) \in 0 .. 255 BY <1>1, ValuesAre
<1>6. Wrap("byte", h + 1) \in 0 .. 255 /\ Wrap("byte", h - 1) \in 0 .. 255
  <2>1. h + 1 \in Int /\ h - 1 \in Int OBVIOUS
  <2> QED BY <1>5, <2>1
<1>7. FitsPair("byte", Aaa(h, l, f)) /\ FitsPair("byte", Aas(h, l, f))
  BY <1>1, <1>3, <1>4, <1>6 DEF Aaa, Aas, FitsPair
<1>8. FitsPair("byte", Aad(h, l, b, f))
  <2> DEFINE r == Wrap("byte", h * b + l)
  <2>1. h * b + l \in Int OBVIOUS
  <2>2. r \in 0 .. 255 BY <1>5, <2>1
  <2>3. Aad(h, l, b, f) = [high |-> 0, low |-> r, flags |-> Judged("byte", r, f)]
    BY DEF Aad
  <2> HIDE DEF r
  <2>4. Judged("byte", r, f) \in FlagSet BY <1>1, JudgedType
  <2> QED BY <1>1, <2>2, <2>3, <2>4 DEF FitsPair
<1>9. Fits("byte", Daa(l, f))
  <2> DEFINE one == IF Irregular(l, f) THEN Wrap("byte", l + 6) ELSE l
             ten == l > 153 \/ f.carry
             r   == IF ten THEN Wrap("byte", one + 96) ELSE one
             g   == [Judged("byte", r, f) EXCEPT !.adjust = Irregular(l, f)]
  <2>1. l + 6 \in Int OBVIOUS
  <2>2. one \in 0 .. 255 BY <1>5, <2>1
  <2>3. r \in 0 .. 255
    <3> HIDE DEF one
    <3>1. one + 96 \in Int BY <2>2
    <3> QED BY <1>5, <2>2, <3>1
  <2>4. ten \in BOOLEAN BY FlagsAre
  <2>5. Daa(l, f) = Outcome(r, [g EXCEPT !.carry = ten]) BY DEF Daa
  <2> HIDE DEF r, ten
  <2>6. g \in FlagSet BY <1>1, <1>2, JudgedType, FlagsSet
  <2>7. [g EXCEPT !.carry = ten] \in FlagSet BY <2>4, <2>6, FlagsSet
  <2> QED BY <1>1, <2>3, <2>5, <2>7 DEF Fits, Outcome
<1>10. Fits("byte", Das(l, f))
  <2> DEFINE one == IF Irregular(l, f) THEN Wrap("byte", l - 6) ELSE l
             ten == l > 153 \/ f.carry
             c   == ten \/ (Irregular(l, f) /\ l < 6)
             r   == IF ten THEN Wrap("byte", one - 96) ELSE one
             g   == [Judged("byte", r, f) EXCEPT !.adjust = Irregular(l, f)]
  <2>1. l - 6 \in Int OBVIOUS
  <2>2. one \in 0 .. 255 BY <1>5, <2>1
  <2>3. r \in 0 .. 255
    <3> HIDE DEF one
    <3>1. one - 96 \in Int BY <2>2
    <3> QED BY <1>5, <2>2, <3>1
  <2>4. c \in BOOLEAN BY <1>2, FlagsAre
  <2>5. Das(l, f) = Outcome(r, [g EXCEPT !.carry = c]) BY DEF Das
  <2> HIDE DEF r, c
  <2>6. g \in FlagSet BY <1>1, <1>2, JudgedType, FlagsSet
  <2>7. [g EXCEPT !.carry = c] \in FlagSet BY <2>4, <2>6, FlagsSet
  <2> QED BY <1>1, <2>3, <2>5, <2>7 DEF Fits, Outcome
<1>11. CASE b = 0 BY <1>7, <1>8, <1>9, <1>10, <1>11 DEF Aam
<1>12. CASE b # 0
  <2>1. b \in Nat \ {0} /\ l \in Nat BY <1>12
  <2>2. l \div b \in 0 .. l /\ l % b \in 0 .. l BY <2>1, QuotientBelow, RemainderBelow
  <2>3. l \div b \in 0 .. 255 /\ l % b \in 0 .. 255
    <3>1. \A x \in 0 .. l : x \in 0 .. 255 OBVIOUS
    <3> QED BY <2>2, <3>1
  <2>4. Judged("byte", l % b, f) \in FlagSet BY <1>1, JudgedType
  <2>5. FitsPair("byte", Aam(l, b, f)) /\ Aam(l, b, f).result = "Ok"
    BY <1>1, <1>12, <2>3, <2>4 DEF Aam, FitsPair
  <2> QED BY <1>7, <1>8, <1>9, <1>10, <2>5
<1> QED BY <1>11, <1>12

-----------------------------------------------------------------------------
(* The machine.  Programs are what their names stand for, and what is left *)
(* to do consists of instructions.                                         *)

Admissible ==
  {i \in Instructions :
     i.op \in Adjusting => s = "byte" /\ Bits["byte"] = 8 /\ Nibble = 4}

GivenInv ==
  /\ s \in Sizes
  /\ given.regs \in [Regs -> Values(s)]
  /\ given.carry \in BOOLEAN /\ given.checked \in BOOLEAN
  /\ Listed(given.name, s, given.code)
  /\ Prepared(given.name, given.regs)

TypeInv == TypeOK /\ GivenInv /\ todo \in Seq(Admissible)

LEMMA Fields ==
  ASSUME NEW i \in Instructions
  PROVE  /\ i.dst \in Regs
         /\ i.kind = "reg" => i.src \in Regs
         /\ i.kind # "reg" => i.imm \in Nat
         /\ i.op \in {"xadd", "cmpxchg", "cmovcc", "setcc"} => i.src \in Regs
BY DEF Instructions, Binary, ShiftOps, Adjusting

(* What every instruction has to work with.                                *)
LEMMA Available ==
  ASSUME TypeInv, NEW op, Fetched(op)
  PROVE  /\ Instruction \in Admissible /\ Instruction \in Instructions
         /\ Instruction.op = op /\ Instruction.dst \in Regs
         /\ s \in Sizes /\ flags \in FlagSet
         /\ \A x \in Regs : regs[x] \in Values(s) /\ regs[x] \in Nat
         /\ Destination \in Values(s) /\ Destination \in Nat /\ Destination \in Int
         /\ \A m \in [Regs -> Values(s)] : Source(m) \in Nat /\ Source(m) \in Int
         /\ todo' \in Seq(Admissible) /\ given' = given /\ result = "Ok"
<1>1. todo \in Seq(Admissible) /\ todo # <<>> BY DEF TypeInv, Fetched
<1>2. Head(todo) \in Admissible /\ Tail(todo) \in Seq(Admissible) BY <1>1
<1>3. Instruction \in Admissible /\ Instruction \in Instructions
  BY <1>2 DEF Instruction, Admissible
<1>4. regs \in [Regs -> Values(s)] /\ flags \in FlagSet /\ s \in Sizes
  BY DEF TypeInv, TypeOK, GivenInv
<1>5. \A x \in Regs : regs[x] \in Values(s) /\ regs[x] \in Nat BY <1>4, ValuesAre
<1>6. Instruction.dst \in Regs BY <1>3, Fields
<1>7. Destination \in Values(s) /\ Destination \in Nat /\ Destination \in Int
  <2>1. Destination \in Values(s) /\ Destination \in Nat BY <1>5, <1>6 DEF Destination
  <2> QED BY <2>1
<1>8. ASSUME NEW m \in [Regs -> Values(s)] PROVE Source(m) \in Nat /\ Source(m) \in Int
  <2>1. Source(m) \in Nat
    <3>1. CASE Instruction.kind = "reg"
      <4>1. Instruction.src \in Regs BY <1>3, <3>1, Fields
      <4>2. m[Instruction.src] \in Values(s) BY <4>1
      <4> QED BY <3>1, <1>4, <4>2, ValuesAre DEF Source
    <3>2. CASE Instruction.kind # "reg" BY <1>3, <3>2, Fields DEF Source
    <3> QED BY <3>1, <3>2
  <2> QED BY <2>1
<1>9. todo' \in Seq(Admissible) BY <1>2 DEF Fetched
<1> QED BY <1>3, <1>4, <1>5, <1>6, <1>7, <1>8, <1>9 DEF Fetched

(* A step that leaves registers and flags as they should be.               *)
LEMMA Keeps ==
  ASSUME TypeInv, given' = given, todo' \in Seq(Admissible),
         regs' \in [Regs -> Values(s)], flags' \in FlagSet,
         result' \in {"Ok", "DivideByZero", "Panic"}
  PROVE  TypeInv'
BY DEF TypeInv, TypeOK, GivenInv, Admissible, s

LEMMA WritesKeep ==
  ASSUME TypeInv, NEW op, Fetched(op), NEW o, Writes(o), Fits(s, o)
  PROVE  TypeInv'
<1>1. regs \in [Regs -> Values(s)] /\ Instruction.dst \in Regs
      /\ todo' \in Seq(Admissible) /\ given' = given
      /\ result' \in {"Ok", "DivideByZero", "Panic"}
  BY Available DEF TypeInv, TypeOK, Writes
<1>2. regs' = [regs EXCEPT ![Instruction.dst] = o.value] /\ flags' = o.flags
  BY DEF Writes
<1>3. regs' \in [Regs -> Values(s)] /\ flags' \in FlagSet BY <1>1, <1>2 DEF Fits
<1> QED BY <1>1, <1>3, Keeps

LEMMA TestsKeep ==
  ASSUME TypeInv, NEW op, Fetched(op), NEW o, Tests(o), Fits(s, o)
  PROVE  TypeInv'
<1>1. regs \in [Regs -> Values(s)]
      /\ todo' \in Seq(Admissible) /\ given' = given
      /\ result \in {"Ok", "DivideByZero", "Panic"}
  BY Available DEF TypeInv, TypeOK
<1>2. regs' = regs /\ flags' \in FlagSet /\ result' = result BY DEF Tests, Fits
<1> QED BY <1>1, <1>2, Keeps

LEMMA PairsKeep ==
  ASSUME TypeInv, NEW op, Fetched(op), NEW h \in Values(s), NEW l \in Values(s),
         NEW f \in FlagSet, WritesPair(h, l, f)
  PROVE  TypeInv'
<1>1. regs \in [Regs -> Values(s)]
      /\ todo' \in Seq(Admissible) /\ given' = given
      /\ result' \in {"Ok", "DivideByZero", "Panic"}
  BY Available DEF TypeInv, TypeOK, WritesPair
<1>2. regs' = [regs EXCEPT !["ext"] = h, !["acc"] = l] /\ flags' = f
  BY DEF WritesPair
<1>3. regs' \in [Regs -> Values(s)] BY <1>1, <1>2
<1> QED BY <1>1, <1>2, <1>3, Keeps

LEMMA FailureKeeps ==
  ASSUME TypeInv, NEW op, Fetched(op), NEW e \in {"DivideByZero", "Panic"}, Fails(e)
  PROVE  TypeInv'
BY Available, Keeps DEF TypeInv, TypeOK, Fails

LEMMA ShiftsKeep ==
  ASSUME TypeInv, NEW op, Fetched(op), NEW overflows, NEW o,
         Shifts(overflows, o), Fits(s, o)
  PROVE  TypeInv'
BY WritesKeep, FailureKeeps DEF Shifts

LEMMA DividesKeep ==
  ASSUME TypeInv, NEW op, Fetched(op), NEW d, Divides(d), FitsQuotient(s, d)
  PROVE  TypeInv'
<1>1. CASE d.result # "Ok" /\ Fails(d.result)
  <2>1. d.result \in {"DivideByZero", "Panic"} BY <1>1 DEF FitsQuotient
  <2> QED BY <1>1, <2>1, FailureKeeps
<1>2. CASE d.result = "Ok" /\ WritesPair(d.remainder, d.quotient, flags)
  <2>1. d.remainder \in Values(s) /\ d.quotient \in Values(s)
    BY <1>2 DEF FitsQuotient
  <2>2. flags \in FlagSet BY DEF TypeInv, TypeOK
  <2> QED BY <1>2, <2>1, <2>2, PairsKeep
<1> QED BY <1>1, <1>2 DEF Divides

(* setcc writes a byte: what is above it stays.                            *)
LEMMA LowByte ==
  ASSUME NEW z \in Sizes, NEW a \in Values(z), NEW b \in {0, 1}
  PROVE  (a - Wrap("byte", a)) + b \in Values(z)
<1> DEFINE n == N("byte")
           d == a \div n
           r == a % n
           p == 2 ^ (Bits[z] - Bits["byte"])
<1>1. "byte" \in Sizes BY DEF Sizes
<1>2. /\ Bits["byte"] \in Nat \ {0} /\ Bits[z] \in Nat \ {0} /\ Bits["byte"] <= Bits[z]
      /\ 2 * Bits[z] <= Most - 1 /\ Most \in Nat
  BY <1>1, Widths
<1>3. n \in Nat \ {0} /\ n >= 2 BY <1>1, Halves
<1>4. a \in Nat /\ a < N(z) BY ValuesAre
<1>5. N(z) = n * p /\ p \in Nat \ {0}
  <2>1. /\ Bits[z] - Bits["byte"] \in Nat /\ Bits["byte"] + (Bits[z] - Bits["byte"]) = Bits[z]
        /\ Bits[z] - Bits["byte"] <= Most /\ Bits[z] <= Most
    BY <1>2
  <2>2. 2 ^ (Bits["byte"] + (Bits[z] - Bits["byte"])) = n * p
    BY <1>2, <2>1, PowerSum DEF N
  <2>3. p \in Nat \ {0} BY <2>1, PowerType
  <2>4. N(z) = 2 ^ (Bits["byte"] + (Bits[z] - Bits["byte"])) BY <2>1 DEF N
  <2> HIDE DEF n, p
  <2> QED BY <2>2, <2>3, <2>4
<1> HIDE DEF n, p
<1>6. a \in Int BY <1>4
<1>7. d \in Int /\ r \in 0 .. n - 1 /\ a = n * d + r BY <1>3, <1>6, DivMod
<1> HIDE DEF d, r
<1>8. n * d \in Int BY <1>3, <1>7
<1>9. d < p
  <2>1. n * d <= a BY <1>3, <1>4, <1>7, <1>8
  <2>2. n * d < N(z) BY <1>4, <1>8, <2>1, Halves
  <2>3. n * d < n * p BY <1>5, <2>2
  <2>4. p \in Int BY <1>5
  <2> QED BY <1>3, <1>7, <2>3, <2>4, ProductOrder
<1>10. n * d + n <= N(z)
  <2>1. d + 1 <= p BY <1>5, <1>7, <1>9
  <2>2. n * (d + 1) <= n * p BY <1>3, <1>5, <1>7, <2>1, ProductOrder
  <2>3. n * (d + 1) = n * d + n BY <1>3, <1>7, Z3
  <2> QED BY <1>5, <2>2, <2>3
<1>11. n * d >= 0
  <2>1. d >= 0
    <3>1. CASE d < 0
      <4>1. d + 1 <= 0 BY <3>1, <1>7
      <4>2. n * (d + 1) <= n * 0 BY <1>3, <1>7, <4>1, ProductOrder
      <4>3. n * (d + 1) = n * d + n /\ n * 0 = 0 BY <1>3, <1>7, Z3
      <4> QED BY <1>3, <1>4, <1>7, <1>8, <4>2, <4>3
    <3> QED BY <3>1, <1>7
  <2>2. n * 0 <= n * d BY <1>3, <1>7, <2>1, ProductOrder
  <2>3. n * 0 = 0 BY <1>3
  <2> QED BY <2>2, <2>3
<1>12. (a - r) + b = n * d + b BY <1>4, <1>7, <1>8
<1>13. n * d + b \in Nat /\ n * d + b < N(z)
  <2>1. b \in Nat /\ b <= 1 OBVIOUS
  <2>2. N(z) \in Nat BY Halves
  <2> QED BY <1>3, <1>8, <1>10, <1>11, <2>1, <2>2
<1>14. Wrap("byte", a) = r BY DEF Wrap, r, n
<1> QED BY <1>12, <1>13, <1>14, ValuesAre


(* What a carry adds to or takes from a destination keeps its type.        *)
LEMMA CarriedType ==
  ASSUME TypeInv, NEW op, Fetched(op), NEW x \in Int
  PROVE  /\ Carried(x) \in [Regs -> Values(s)]
         /\ Carried(x)[Instruction.dst] \in Int /\ Source(Carried(x)) \in Int
<1>1. regs \in [Regs -> Values(s)] BY DEF TypeInv, TypeOK
<1>2. Instruction.dst \in Regs /\ Destination \in Int /\ s \in Sizes BY Available
<1>3. Destination + x \in Int BY <1>2
<1>4. Wrap(s, Destination + x) \in Values(s) BY <1>2, <1>3, ValuesAre
<1>5. Carried(x) = [regs EXCEPT ![Instruction.dst] = Wrap(s, Destination + x)]
  BY DEF Carried, Destination
<1>6. Carried(x) \in [Regs -> Values(s)] BY <1>1, <1>4, <1>5
<1>7. Carried(x)[Instruction.dst] \in Values(s) BY <1>2, <1>6
<1>8. Carried(x)[Instruction.dst] \in Int BY <1>2, <1>7, ValuesAre
<1> QED BY <1>6, <1>8, Available

(* What the adjusting instructions have to work with.                      *)
LEMMA Adjustable ==
  ASSUME TypeInv, NEW op \in Adjusting, Fetched(op)
  PROVE  /\ s = "byte" /\ Bits["byte"] = 8 /\ flags \in FlagSet
         /\ regs["ext"] \in Values(s)
         /\ regs["acc"] \in 0 .. 255 /\ regs["ext"] \in 0 .. 255
         /\ Source(regs) \in Nat
<1>0. Instruction \in Admissible /\ Instruction.op = op BY Available
<1>1. s = "byte" /\ Bits["byte"] = 8 BY <1>0 DEF Admissible
<1>2. regs \in [Regs -> Values(s)] /\ "ext" \in Regs /\ "acc" \in Regs
  BY DEF TypeInv, TypeOK, Regs
<1>3. Values(s) = 0 .. 255 BY <1>1, ByteIs
<1>4. regs["ext"] \in Values(s) /\ regs["acc"] \in Values(s) BY <1>2
<1> QED BY <1>1, <1>2, <1>3, <1>4, Available

LEMMA TypeStep ==
  ASSUME TypeInv, Next
  PROVE  TypeInv'
<1>1. CASE ExecAdd
  <2>1. Fetched("add") /\ Writes(Add(s, Destination, Source(regs), flags))
    BY <1>1 DEF ExecAdd
  <2>2. regs \in [Regs -> Values(s)] BY DEF TypeInv, TypeOK
  <2>3. Fits(s, Add(s, Destination, Source(regs), flags))
    BY <2>1, <2>2, Available, AddSubType
  <2> QED BY <2>1, <2>3, WritesKeep
<1>2. CASE ExecAdc
  <2> DEFINE x == Number(flags.carry)
             a == Carried(x)[Instruction.dst]
             b == Source(Carried(x))
  <2>1. Fetched("adc") /\ Writes(Add(s, a, b, flags)) BY <1>2 DEF ExecAdc
  <2>2. x \in Int BY DEF Number
  <2> HIDE DEF x
  <2>3. a \in Int /\ b \in Int BY <2>1, <2>2, CarriedType
  <2> HIDE DEF a, b
  <2>4. Fits(s, Add(s, a, b, flags)) BY <2>1, <2>3, Available, AddSubType
  <2> QED BY <2>1, <2>4, WritesKeep
<1>3. CASE ExecSub
  <2>1. Fetched("sub") /\ Writes(Sub(s, Destination, Source(regs), flags))
    BY <1>3 DEF ExecSub
  <2>2. regs \in [Regs -> Values(s)] BY DEF TypeInv, TypeOK
  <2>3. Fits(s, Sub(s, Destination, Source(regs), flags))
    BY <2>1, <2>2, Available, AddSubType
  <2> QED BY <2>1, <2>3, WritesKeep
<1>4. CASE ExecSbb
  <2> DEFINE x == -Number(flags.carry)
             a == Carried(x)[Instruction.dst]
             b == Source(Carried(x))
  <2>1. Fetched("sbb") /\ Writes(Sub(s, a, b, flags)) BY <1>4 DEF ExecSbb
  <2>2. x \in Int BY DEF Number
  <2> HIDE DEF x
  <2>3. a \in Int /\ b \in Int BY <2>1, <2>2, CarriedType
  <2> HIDE DEF a, b
  <2>4. Fits(s, Sub(s, a, b, flags)) BY <2>1, <2>3, Available, AddSubType
  <2> QED BY <2>1, <2>4, WritesKeep
<1>5. CASE ExecCmp
  <2>1. Fetched("cmp") /\ Tests(Sub(s, Destination, Source(regs), flags))
    BY <1>5 DEF ExecCmp
  <2>2. regs \in [Regs -> Values(s)] BY DEF TypeInv, TypeOK
  <2>3. Fits(s, Sub(s, Destination, Source(regs), flags))
    BY <2>1, <2>2, Available, AddSubType
  <2> QED BY <2>1, <2>3, TestsKeep
<1>6. CASE ExecInc
  <2>1. Fetched("inc") /\ Writes(Inc(s, Destination, flags))
    BY <1>6 DEF ExecInc
  <2>2. regs \in [Regs -> Values(s)] BY DEF TypeInv, TypeOK
  <2>3. Fits(s, Inc(s, Destination, flags))
    BY <2>1, <2>2, Available, IncDecType
  <2> QED BY <2>1, <2>3, WritesKeep
<1>7. CASE ExecDec
  <2>1. Fetched("dec") /\ Writes(Dec(s, Destination, flags))
    BY <1>7 DEF ExecDec
  <2>2. regs \in [Regs -> Values(s)] BY DEF TypeInv, TypeOK
  <2>3. Fits(s, Dec(s, Destination, flags))
    BY <2>1, <2>2, Available, IncDecType
  <2> QED BY <2>1, <2>3, WritesKeep
<1>8. CASE ExecNeg
  <2>1. Fetched("neg") /\ Writes(Neg(s, Destination, flags))
    BY <1>8 DEF ExecNeg
  <2>2. regs \in [Regs -> Values(s)] BY DEF TypeInv, TypeOK
  <2>3. Fits(s, Neg(s, Destination, flags))
    BY <2>1, <2>2, Available, NegType
  <2> QED BY <2>1, <2>3, WritesKeep
<1>9. CASE ExecAnd
  <2>1. Fetched("and") /\ Writes(And(s, Destination, Source(regs), flags))
    BY <1>9 DEF ExecAnd
  <2>2. regs \in [Regs -> Values(s)] BY DEF TypeInv, TypeOK
  <2>3. Fits(s, And(s, Destination, Source(regs), flags))
    BY <2>1, <2>2, Available, LogicType
  <2> QED BY <2>1, <2>3, WritesKeep
<1>10. CASE ExecOr
  <2>1. Fetched("or") /\ Writes(Or(s, Destination, Source(regs), flags))
    BY <1>10 DEF ExecOr
  <2>2. regs \in [Regs -> Values(s)] BY DEF TypeInv, TypeOK
  <2>3. Fits(s, Or(s, Destination, Source(regs), flags))
    BY <2>1, <2>2, Available, LogicType
  <2> QED BY <2>1, <2>3, WritesKeep
<1>11. CASE ExecXor
  <2>1. Fetched("xor") /\ Writes(Xor(s, Destination, Source(regs), flags))
    BY <1>11 DEF ExecXor
  <2>2. regs \in [Regs -> Values(s)] BY DEF TypeInv, TypeOK
  <2>3. Fits(s, Xor(s, Destination, Source(regs), flags))
    BY <2>1, <2>2, Available, LogicType
  <2> QED BY <2>1, <2>3, WritesKeep
<1>12. CASE ExecNot
  <2>1. Fetched("not") /\ Writes(Not(s, Destination, flags))
    BY <1>12 DEF ExecNot
  <2>2. regs \in [Regs -> Values(s)] BY DEF TypeInv, TypeOK
  <2>3. Fits(s, Not(s, Destination, flags))
    BY <2>1, <2>2, Available, NotType
  <2> QED BY <2>1, <2>3, WritesKeep
<1>13. CASE ExecTest
  <2> DEFINE o == And(s, Destination, Source(regs), flags)
  <2>1. Fetched("test") /\ (IF s = "byte" THEN Tests(o) ELSE Writes(o))
    BY <1>13 DEF ExecTest
  <2>2. Fits(s, o) BY <2>1, Available, LogicType
  <2> HIDE DEF o
  <2> QED BY <2>1, <2>2, WritesKeep, TestsKeep
<1>14. CASE ExecShl
  <2> DEFINE c == Source(regs)
             o == Shl(s, Destination, c, flags)
  <2>1. Fetched("shl") /\ Shifts(ShlOverflows(s, c), o) BY <1>14 DEF ExecShl
  <2>2. regs \in [Regs -> Values(s)] BY DEF TypeInv, TypeOK
  <2>3. c \in Nat BY <2>1, <2>2, Available
  <2> HIDE DEF c
  <2>4. Fits(s, o) BY <2>1, <2>3, Available, ShlType
  <2> HIDE DEF o
  <2> QED BY <2>1, <2>4, ShiftsKeep
<1>15. CASE ExecShr
  <2> DEFINE c == Source(regs)
             o == Shr(s, Destination, c, flags)
  <2>1. Fetched("shr") /\ Shifts(ShrOverflows(s, c), o) BY <1>15 DEF ExecShr
  <2>2. regs \in [Regs -> Values(s)] BY DEF TypeInv, TypeOK
  <2>3. c \in Nat BY <2>1, <2>2, Available
  <2> HIDE DEF c
  <2>4. Fits(s, o) BY <2>1, <2>3, Available, ShrType
  <2> HIDE DEF o
  <2> QED BY <2>1, <2>4, ShiftsKeep
<1>16. CASE ExecSar
  <2> DEFINE c == Source(regs)
             o == Sar(s, Destination, c, flags)
  <2>1. Fetched("sar") /\ Shifts(SarOverflows(s, c), o) BY <1>16 DEF ExecSar
  <2>2. regs \in [Regs -> Values(s)] BY DEF TypeInv, TypeOK
  <2>3. c \in Nat BY <2>1, <2>2, Available
  <2> HIDE DEF c
  <2>4. Fits(s, o) BY <2>1, <2>3, Available, SarType
  <2> HIDE DEF o
  <2> QED BY <2>1, <2>4, ShiftsKeep
<1>17. CASE ExecRol
  <2>1. Fetched("rol") /\ Writes(Rol(s, Destination, Source(regs), flags))
    BY <1>17 DEF ExecRol
  <2>2. regs \in [Regs -> Values(s)] BY DEF TypeInv, TypeOK
  <2>3. Fits(s, Rol(s, Destination, Source(regs), flags))
    BY <2>1, <2>2, Available, RolType
  <2> QED BY <2>1, <2>3, WritesKeep
<1>18. CASE ExecRor
  <2>1. Fetched("ror") /\ Writes(Ror(s, Destination, Source(regs), flags))
    BY <1>18 DEF ExecRor
  <2>2. regs \in [Regs -> Values(s)] BY DEF TypeInv, TypeOK
  <2>3. Fits(s, Ror(s, Destination, Source(regs), flags))
    BY <2>1, <2>2, Available, RolType
  <2> QED BY <2>1, <2>3, WritesKeep
<1>19. CASE ExecRcl
  <2>1. Fetched("rcl") /\ Writes(Rcl(s, Destination, Source(regs), flags))
    BY <1>19 DEF ExecRcl
  <2>2. regs \in [Regs -> Values(s)] BY DEF TypeInv, TypeOK
  <2>3. Fits(s, Rcl(s, Destination, Source(regs), flags))
    BY <2>1, <2>2, Available, RclType
  <2> QED BY <2>1, <2>3, WritesKeep
<1>20. CASE ExecRcr
  <2>1. Fetched("rcr") /\ Writes(Rcr(s, Destination, Source(regs), flags))
    BY <1>20 DEF ExecRcr
  <2>2. regs \in [Regs -> Values(s)] BY DEF TypeInv, TypeOK
  <2>3. Fits(s, Rcr(s, Destination, Source(regs), flags))
    BY <2>1, <2>2, Available, RclType
  <2> QED BY <2>1, <2>3, WritesKeep
<1>21. CASE ExecXadd
  <2> DEFINE m == [regs EXCEPT ![Instruction.dst] = regs[Instruction.src],
                               ![Instruction.src] = regs[Instruction.dst]]
             o == Add(s, m[Instruction.dst], m[Instruction.src], flags)
  <2>1. Fetched("xadd") BY <1>21 DEF ExecXadd
  <2>2. /\ regs' = [m EXCEPT ![Instruction.dst] = o.value]
        /\ flags' = o.flags /\ result' = result
    BY <1>21 DEF ExecXadd
  <2>3. regs \in [Regs -> Values(s)] BY DEF TypeInv, TypeOK
  <2>4. Instruction.dst \in Regs /\ Instruction.src \in Regs /\ s \in Sizes
        /\ flags \in FlagSet
    BY <2>1, Available, Fields
  <2>5. m \in [Regs -> Values(s)] BY <2>3, <2>4
  <2> HIDE DEF m
  <2>6. m[Instruction.dst] \in Int /\ m[Instruction.src] \in Int
    <3>1. m[Instruction.dst] \in Values(s) /\ m[Instruction.src] \in Values(s)
      BY <2>4, <2>5
    <3> QED BY <2>4, <3>1, ValuesAre
  <2>7. Fits(s, o) BY <2>4, <2>6, AddSubType
  <2> HIDE DEF o
  <2>8. regs' \in [Regs -> Values(s)] /\ flags' \in FlagSet
    BY <2>2, <2>5, <2>7 DEF Fits
  <2> QED BY <2>1, <2>2, <2>8, Available, Keeps
<1>22. CASE ExecCmpxchg
  <2> DEFINE f == Sub(s, regs["acc"], Destination, flags).flags
  <2>1. Fetched("cmpxchg") BY <1>22 DEF ExecCmpxchg
  <2>2. /\ \/ regs' = [regs EXCEPT ![Instruction.dst] = regs[Instruction.src]]
           \/ regs' = [regs EXCEPT !["acc"] = Destination]
        /\ flags' = f /\ result' = result
    BY <1>22 DEF ExecCmpxchg
  <2>3. regs \in [Regs -> Values(s)] BY DEF TypeInv, TypeOK
  <2>4. Instruction.dst \in Regs /\ Instruction.src \in Regs /\ "acc" \in Regs
        /\ Destination \in Values(s)
    BY <2>1, Available, Fields DEF Regs
  <2>5. regs["acc"] \in Int /\ Destination \in Int BY <2>1, <2>4, Available
  <2>6. f \in FlagSet BY <2>1, <2>5, Available, AddSubType DEF Fits
  <2> HIDE DEF f
  <2>7. regs' \in [Regs -> Values(s)] /\ flags' \in FlagSet
    BY <2>2, <2>3, <2>4, <2>6
  <2> QED BY <2>1, <2>2, <2>7, Available, Keeps
<1>23. CASE ExecSetcc
  <2> DEFINE b == Number(Matches(Instruction.cc, flags))
             v == (Destination - Wrap("byte", Destination)) + b
  <2>1. Fetched("setcc") /\ Writes(Outcome(v, flags)) BY <1>23 DEF ExecSetcc
  <2>2. b \in {0, 1} BY DEF Number
  <2> HIDE DEF b
  <2>3. v \in Values(s) BY <2>1, <2>2, Available, LowByte
  <2> HIDE DEF v
  <2>4. Fits(s, Outcome(v, flags)) BY <2>1, <2>3, Available DEF Fits, Outcome
  <2> QED BY <2>1, <2>4, WritesKeep
<1>24. CASE ExecCmovcc
  <2>1. Fetched("cmovcc") BY <1>24 DEF ExecCmovcc
  <2>2. regs \in [Regs -> Values(s)] /\ flags \in FlagSet
        /\ result \in {"Ok", "DivideByZero", "Panic"}
    BY DEF TypeInv, TypeOK
  <2>3. CASE Writes(Outcome(Source(regs), flags))
    <3>1. Instruction.src \in Regs /\ Instruction \in Instructions
      BY <2>1, Available, Fields
    <3>2. Source(regs) \in Values(s)
      <4>1. Instruction.kind = "reg"
        BY <2>1, <3>1, Available DEF Instructions, Binary, ShiftOps, Adjusting
      <4> QED BY <2>2, <3>1, <4>1 DEF Source
    <3>3. Fits(s, Outcome(Source(regs), flags)) BY <2>2, <3>2 DEF Fits, Outcome
    <3> QED BY <2>1, <2>3, <3>3, WritesKeep
  <2>4. CASE UNCHANGED <<regs, flags, result>> BY <2>1, <2>2, <2>4, Available, Keeps
  <2> QED BY <1>24, <2>3, <2>4 DEF ExecCmovcc
<1>25. CASE ExecMul
  <2> DEFINE p == Mul(s, regs["acc"], Source(regs), flags)
  <2>1. Fetched("mul") /\ WritesPair(p.high, p.low, p.flags) BY <1>25 DEF ExecMul
  <2>2. regs \in [Regs -> Values(s)] /\ "acc" \in Regs BY DEF TypeInv, TypeOK, Regs
  <2>3. regs["acc"] \in Int /\ Source(regs) \in Int BY <2>1, <2>2, Available
  <2>4. FitsPair(s, p) BY <2>1, <2>3, Available, MulType
  <2> HIDE DEF p
  <2> QED BY <2>1, <2>4, PairsKeep DEF FitsPair
<1>26. CASE ExecImul
  <2> DEFINE p == Imul(s, regs["acc"], Source(regs), flags)
  <2>1. Fetched("imul") /\ WritesPair(p.high, p.low, p.flags) BY <1>26 DEF ExecImul
  <2>2. regs \in [Regs -> Values(s)] /\ "acc" \in Regs BY DEF TypeInv, TypeOK, Regs
  <2>3. regs["acc"] \in Int /\ Source(regs) \in Int BY <2>1, <2>2, Available
  <2>4. FitsPair(s, p) BY <2>1, <2>3, Available, MulType
  <2> HIDE DEF p
  <2> QED BY <2>1, <2>4, PairsKeep DEF FitsPair
<1>27. CASE ExecImul2
  <2> DEFINE p == Imul(s, Destination, Source(regs), flags)
  <2>1. Fetched("imul2") /\ Writes(Outcome(p.low, p.flags)) BY <1>27 DEF ExecImul2
  <2>2. regs \in [Regs -> Values(s)] BY DEF TypeInv, TypeOK
  <2>3. Destination \in Int /\ Source(regs) \in Int BY <2>1, <2>2, Available
  <2>4. FitsPair(s, p) BY <2>1, <2>3, Available, MulType
  <2> HIDE DEF p
  <2>5. Fits(s, Outcome(p.low, p.flags)) BY <2>4 DEF FitsPair, Fits, Outcome
  <2> QED BY <2>1, <2>5, WritesKeep
<1>28. CASE ExecDiv
  <2> DEFINE d == Div(s, regs["ext"], regs["acc"], Source(regs))
  <2>1. Fetched("div") /\ Divides(d) BY <1>28 DEF ExecDiv
  <2>2. regs \in [Regs -> Values(s)] /\ "acc" \in Regs /\ "ext" \in Regs
    BY DEF TypeInv, TypeOK, Regs
  <2>3. regs["acc"] \in Int /\ regs["ext"] \in Int /\ Source(regs) \in Int
    BY <2>1, <2>2, Available
  <2>4. FitsQuotient(s, d) BY <2>1, <2>3, Available, DivType
  <2> HIDE DEF d
  <2> QED BY <2>1, <2>4, DividesKeep
<1>29. CASE ExecIdiv
  <2> DEFINE d == Idiv(s, regs["ext"], regs["acc"], Source(regs))
  <2>1. Fetched("idiv") /\ Divides(d) BY <1>29 DEF ExecIdiv
  <2>2. regs \in [Regs -> Values(s)] /\ "acc" \in Regs /\ "ext" \in Regs
    BY DEF TypeInv, TypeOK, Regs
  <2>3. regs["acc"] \in Int /\ regs["ext"] \in Int /\ Source(regs) \in Int
    BY <2>1, <2>2, Available
  <2>4. FitsQuotient(s, d) BY <2>1, <2>3, Available, DivType
  <2> HIDE DEF d
  <2> QED BY <2>1, <2>4, DividesKeep
<1>30. CASE ExecAaa
  <2> DEFINE p == Aaa(regs["ext"], regs["acc"], flags)
  <2>1. Fetched("aaa") /\ WritesPair(p.high, p.low, p.flags) BY <1>30 DEF ExecAaa
  <2>2. "aaa" \in Adjusting BY DEF Adjusting
  <2>3. FitsPair("byte", p) /\ s = "byte" BY <2>1, <2>2, Adjustable, DecimalType
  <2> HIDE DEF p
  <2> QED BY <2>1, <2>3, PairsKeep DEF FitsPair
<1>31. CASE ExecAas
  <2> DEFINE p == Aas(regs["ext"], regs["acc"], flags)
  <2>1. Fetched("aas") /\ WritesPair(p.high, p.low, p.flags) BY <1>31 DEF ExecAas
  <2>2. "aas" \in Adjusting BY DEF Adjusting
  <2>3. FitsPair("byte", p) /\ s = "byte" BY <2>1, <2>2, Adjustable, DecimalType
  <2> HIDE DEF p
  <2> QED BY <2>1, <2>3, PairsKeep DEF FitsPair
<1>32. CASE ExecAad
  <2> DEFINE p == Aad(regs["ext"], regs["acc"], Source(regs), flags)
  <2>1. Fetched("aad") /\ WritesPair(p.high, p.low, p.flags) BY <1>32 DEF ExecAad
  <2>2. "aad" \in Adjusting BY DEF Adjusting
  <2>3. FitsPair("byte", p) /\ s = "byte" BY <2>1, <2>2, Adjustable, DecimalType
  <2> HIDE DEF p
  <2> QED BY <2>1, <2>3, PairsKeep DEF FitsPair
<1>33. CASE ExecAam
  <2> DEFINE p == Aam(regs["acc"], Source(regs), flags)
  <2>1. /\ Fetched("aam")
        /\ \/ p.result # "Ok" /\ Fails(p.result)
           \/ p.result = "Ok" /\ WritesPair(p.high, p.low, p.flags)
    BY <1>33 DEF ExecAam
  <2>2. "aam" \in Adjusting BY DEF Adjusting
  <2>3. /\ s = "byte"
        /\ p.result = "DivideByZero" \/ (p.result = "Ok" /\ FitsPair("byte", p))
    BY <2>1, <2>2, Adjustable, DecimalType
  <2> HIDE DEF p
  <2> QED BY <2>1, <2>3, PairsKeep, FailureKeeps DEF FitsPair
<1>34. CASE ExecDaa
  <2> DEFINE o == Daa(regs["acc"], flags)
  <2>1. Fetched("daa") /\ WritesPair(regs["ext"], o.value, o.flags) BY <1>34 DEF ExecDaa
  <2>2. "daa" \in Adjusting BY DEF Adjusting
  <2>3. Fits("byte", o) /\ s = "byte" /\ regs["ext"] \in Values(s)
    BY <2>1, <2>2, Adjustable, DecimalType
  <2> HIDE DEF o
  <2> QED BY <2>1, <2>3, PairsKeep DEF Fits
<1>35. CASE ExecDas
  <2> DEFINE o == Das(regs["acc"], flags)
  <2>1. Fetched("das") /\ WritesPair(regs["ext"], o.value, o.flags) BY <1>35 DEF ExecDas
  <2>2. "das" \in Adjusting BY DEF Adjusting
  <2>3. Fits("byte", o) /\ s = "byte" /\ regs["ext"] \in Values(s)
    BY <2>1, <2>2, Adjustable, DecimalType
  <2> HIDE DEF o
  <2> QED BY <2>1, <2>3, PairsKeep DEF Fits
<1> QED BY <1>1, <1>2, <1>3, <1>4, <1>5, <1>6, <1>7, <1>8, <1>9, <1>10,
  <1>11, <1>12, <1>13, <1>14, <1>15, <1>16, <1>17, <1>18, <1>19, <1>20,
  <1>21, <1>22, <1>23, <1>24, <1>25, <1>26, <1>27, <1>28, <1>29, <1>30,
  <1>31, <1>32, <1>33, <1>34, <1>35 DEF Next

LEMMA TypeStart ==
  ASSUME Init
  PROVE  TypeInv
<1>1. PICK p \in Programs : \E m \in p.inputs, carry \in p.carries, checked \in p.builds :
        /\ regs = m
        /\ flags = [x \in {"carry", "parity", "adjust", "zero", "sign", "overflow"}
                      |-> x = "carry" /\ carry]
        /\ todo = p.code
        /\ result = "Ok"
        /\ given = [name |-> p.name, size |-> p.size, code |-> p.code,
                    regs |-> m, carry |-> carry, checked |-> checked]
  BY DEF Init
<1>2. PICK m \in p.inputs, carry \in p.carries, checked \in p.builds :
        /\ regs = m
        /\ flags = [x \in {"carry", "parity", "adjust", "zero", "sign", "overflow"}
                      |-> x = "carry" /\ carry]
        /\ todo = p.code
        /\ result = "Ok"
        /\ given = [name |-> p.name, size |-> p.size, code |-> p.code,
                    regs |-> m, carry |-> carry, checked |-> checked]
  BY <1>1
<1>3. /\ p.size \in Sizes /\ p.code \in Seq(Instructions)
      /\ Listed(p.name, p.size, p.code)
      /\ m \in [Regs -> Values(p.size)] /\ carry \in BOOLEAN /\ checked \in BOOLEAN
      /\ (\E i \in DOMAIN p.code : p.code[i].op \in Adjusting) =>
            p.size = "byte" /\ Bits["byte"] = 8 /\ Nibble = 4
      /\ Prepared(p.name, m)
  BY ProgramAssumption
<1>4. s = p.size /\ given.regs = m /\ given.name = p.name /\ given.code = p.code
      /\ given.carry = carry /\ given.checked = checked
  BY <1>2 DEF s
<1>5. flags \in FlagSet BY <1>2, <1>3 DEF FlagSet
<1>6. todo \in Seq(Admissible)
  <2> DEFINE c == p.code
             l == Len(c)
             Adjusts == \E i \in DOMAIN c : c[i].op \in Adjusting
  <2>5. c \in Seq(Instructions) /\ (Adjusts => s = "byte" /\ Bits["byte"] = 8 /\ Nibble = 4)
    BY <1>3, <1>4
  <2> HIDE DEF c
  <2>2. c \in [1 .. l -> Instructions] /\ l \in Nat /\ DOMAIN c = 1 .. l BY <2>5
  <2> HIDE DEF l
  <2>1. \A i \in 1 .. l : c[i] \in Admissible BY <2>2, <2>5 DEF Admissible
  <2>3. c \in [1 .. l -> Admissible] BY <2>1, <2>2
  <2>4. c \in Seq(Admissible) BY <2>2, <2>3, SeqDef
  <2> QED BY <1>2, <2>4 DEF c
<1> QED BY <1>2, <1>3, <1>4, <1>5, <1>6 DEF TypeInv, TypeOK, GivenInv

(* Registers, flags and results are what they should be after every        *)
(* instruction of every program: all arithmetic stays in its width.        *)
THEOREM Types == Spec => []TypeOK
<1>1. Init => TypeInv BY TypeStart
<1>2. TypeInv /\ [Next]_vars => TypeInv'
  <2> SUFFICES ASSUME TypeInv, [Next]_vars PROVE TypeInv' OBVIOUS
  <2>1. CASE Next BY <2>1, TypeStep
  <2>2. CASE UNCHANGED vars
    BY <2>2 DEF vars, TypeInv, TypeOK, GivenInv, Admissible, s
  <2> QED BY <2>1, <2>2
<1>3. TypeInv => TypeOK BY DEF TypeInv
<1> QED BY <1>1, <1>2, <1>3, PTL DEF Spec

-----------------------------------------------------------------------------
(* One instruction                                                         *)

(* Only the action of the instruction at hand can be taken.                *)
LEMMA Executes ==
  ASSUME Next
  PROVE  /\ todo # <<>> /\ todo' = Tail(todo) /\ result = "Ok" /\ given' = given
         /\ Instruction.op = "add" => ExecAdd
         /\ Instruction.op = "adc" => ExecAdc
         /\ Instruction.op = "sub" => ExecSub
         /\ Instruction.op = "sbb" => ExecSbb
         /\ Instruction.op = "cmp" => ExecCmp
         /\ Instruction.op = "inc" => ExecInc
         /\ Instruction.op = "dec" => ExecDec
         /\ Instruction.op = "neg" => ExecNeg
         /\ Instruction.op = "and" => ExecAnd
         /\ Instruction.op = "or" => ExecOr
         /\ Instruction.op = "xor" => ExecXor
         /\ Instruction.op = "not" => ExecNot
         /\ Instruction.op = "test" => ExecTest
         /\ Instruction.op = "shl" => ExecShl
         /\ Instruction.op = "shr" => ExecShr
         /\ Instruction.op = "sar" => ExecSar
         /\ Instruction.op = "rol" => ExecRol
         /\ Instruction.op = "ror" => ExecRor
         /\ Instruction.op = "rcl" => ExecRcl
         /\ Instruction.op = "rcr" => ExecRcr
         /\ Instruction.op = "xadd" => ExecXadd
         /\ Instruction.op = "cmpxchg" => ExecCmpxchg
         /\ Instruction.op = "setcc" => ExecSetcc
         /\ Instruction.op = "cmovcc" => ExecCmovcc
         /\ Instruction.op = "mul" => ExecMul
         /\ Instruction.op = "imul" => ExecImul
         /\ Instruction.op = "imul2" => ExecImul2
         /\ Instruction.op = "div" => ExecDiv
         /\ Instruction.op = "idiv" => ExecIdiv
         /\ Instruction.op = "aaa" => ExecAaa
         /\ Instruction.op = "aas" => ExecAas
         /\ Instruction.op = "aad" => ExecAad
         /\ Instruction.op = "aam" => ExecAam
         /\ Instruction.op = "daa" => ExecDaa
         /\ Instruction.op = "das" => ExecDas
<1>1. ExecAdd => Fetched("add") BY DEF ExecAdd
<1>2. ExecAdc => Fetched("adc") BY DEF ExecAdc
<1>3. ExecSub => Fetched("sub") BY DEF ExecSub
<1>4. ExecSbb => Fetched("sbb") BY DEF ExecSbb
<1>5. ExecCmp => Fetched("cmp") BY DEF ExecCmp
<1>6. ExecInc => Fetched("inc") BY DEF ExecInc
<1>7. ExecDec => Fetched("dec") BY DEF ExecDec
<1>8. ExecNeg => Fetched("neg") BY DEF ExecNeg
<1>9. ExecAnd => Fetched("and") BY DEF ExecAnd
<1>10. ExecOr => Fetched("or") BY DEF ExecOr
<1>11. ExecXor => Fetched("xor") BY DEF ExecXor
<1>12. ExecNot => Fetched("not") BY DEF ExecNot
<1>13. ExecTest => Fetched("test") BY DEF ExecTest
<1>14. ExecShl => Fetched("shl") BY DEF ExecShl
<1>15. ExecShr => Fetched("shr") BY DEF ExecShr
<1>16. ExecSar => Fetched("sar") BY DEF ExecSar
<1>17. ExecRol => Fetched("rol") BY DEF ExecRol
<1>18. ExecRor => Fetched("ror") BY DEF ExecRor
<1>19. ExecRcl => Fetched("rcl") BY DEF ExecRcl
<1>20. ExecRcr => Fetched("rcr") BY DEF ExecRcr
<1>21. ExecXadd => Fetched("xadd") BY DEF ExecXadd
<1>22. ExecCmpxchg => Fetched("cmpxchg") BY DEF ExecCmpxchg
<1>23. ExecSetcc => Fetched("setcc") BY DEF ExecSetcc
<1>24. ExecCmovcc => Fetched("cmovcc") BY DEF ExecCmovcc
<1>25. ExecMul => Fetched("mul") BY DEF ExecMul
<1>26. ExecImul => Fetched("imul") BY DEF ExecImul
<1>27. ExecImul2 => Fetched("imul2") BY DEF ExecImul2
<1>28. ExecDiv => Fetched("div") BY DEF ExecDiv
<1>29. ExecIdiv => Fetched("idiv") BY DEF ExecIdiv
<1>30. ExecAaa => Fetched("aaa") BY DEF ExecAaa
<1>31. ExecAas => Fetched("aas") BY DEF ExecAas
<1>32. ExecAad => Fetched("aad") BY DEF ExecAad
<1>33. ExecAam => Fetched("aam") BY DEF ExecAam
<1>34. ExecDaa => Fetched("daa") BY DEF ExecDaa
<1>35. ExecDas => Fetched("das") BY DEF ExecDas
<1> DEFINE Is(op) == /\ todo # <<>> /\ todo' = Tail(todo) /\ result = "Ok"
                    /\ given' = given /\ Instruction.op = op
<1>50. \A op : Fetched(op) => Is(op) BY DEF Fetched
<1>51. ExecAdd => Is("add") BY <1>1, <1>50
<1>52. ExecAdc => Is("adc") BY <1>2, <1>50
<1>53. ExecSub => Is("sub") BY <1>3, <1>50
<1>54. ExecSbb => Is("sbb") BY <1>4, <1>50
<1>55. ExecCmp => Is("cmp") BY <1>5, <1>50
<1>56. ExecInc => Is("inc") BY <1>6, <1>50
<1>57. ExecDec => Is("dec") BY <1>7, <1>50
<1>58. ExecNeg => Is("neg") BY <1>8, <1>50
<1>59. ExecAnd => Is("and") BY <1>9, <1>50
<1>60. ExecOr => Is("or") BY <1>10, <1>50
<1>61. ExecXor => Is("xor") BY <1>11, <1>50
<1>62. ExecNot => Is("not") BY <1>12, <1>50
<1>63. ExecTest => Is("test") BY <1>13, <1>50
<1>64. ExecShl => Is("shl") BY <1>14, <1>50
<1>65. ExecShr => Is("shr") BY <1>15, <1>50
<1>66. ExecSar => Is("sar") BY <1>16, <1>50
<1>67. ExecRol => Is("rol") BY <1>17, <1>50
<1>68. ExecRor => Is("ror") BY <1>18, <1>50
<1>69. ExecRcl => Is("rcl") BY <1>19, <1>50
<1>70. ExecRcr => Is("rcr") BY <1>20, <1>50
<1>71. ExecXadd => Is("xadd") BY <1>21, <1>50
<1>72. ExecCmpxchg => Is("cmpxchg") BY <1>22, <1>50
<1>73. ExecSetcc => Is("setcc") BY <1>23, <1>50
<1>74. ExecCmovcc => Is("cmovcc") BY <1>24, <1>50
<1>75. ExecMul => Is("mul") BY <1>25, <1>50
<1>76. ExecImul => Is("imul") BY <1>26, <1>50
<1>77. ExecImul2 => Is("imul2") BY <1>27, <1>50
<1>78. ExecDiv => Is("div") BY <1>28, <1>50
<1>79. ExecIdiv => Is("idiv") BY <1>29, <1>50
<1>80. ExecAaa => Is("aaa") BY <1>30, <1>50
<1>81. ExecAas => Is("aas") BY <1>31, <1>50
<1>82. ExecAad => Is("aad") BY <1>32, <1>50
<1>83. ExecAam => Is("aam") BY <1>33, <1>50
<1>84. ExecDaa => Is("daa") BY <1>34, <1>50
<1>85. ExecDas => Is("das") BY <1>35, <1>50
<1> QED BY <1>51, <1>52, <1>53, <1>54, <1>55, <1>56, <1>57, <1>58, <1>59,
  <1>60, <1>61, <1>62, <1>63, <1>64, <1>65, <1>66, <1>67, <1>68, <1>69,
  <1>70, <1>71, <1>72, <1>73, <1>74, <1>75, <1>76, <1>77, <1>78, <1>79,
  <1>80, <1>81, <1>82, <1>83, <1>84, <1>85 DEF Next

(* The instruction at hand, and what comes after it.                       *)
LEMMA Sequences ==
  /\ \A i : Head(<<i>>) = i /\ Tail(<<i>>) = <<>> /\ <<i>> # <<>>
  /\ \A i, j : Head(<<i, j>>) = i /\ Tail(<<i, j>>) = <<j>> /\ <<i, j>> # <<>>
  /\ \A i, j, k : /\ Head(<<i, j, k>>) = i /\ Tail(<<i, j, k>>) = <<j, k>>
                  /\ <<i, j, k>> # <<>>
  /\ \A i, j, k, l, m : /\ Head(<<i, j, k, l, m>>) = i
                        /\ Tail(<<i, j, k, l, m>>) = <<j, k, l, m>>
                        /\ <<i, j, k, l, m>> # <<>>
  /\ \A i, j, k, l : Head(<<i, j, k, l>>) = i /\ Tail(<<i, j, k, l>>) = <<j, k, l>>
<1>1. ASSUME NEW i PROVE Head(<<i>>) = i /\ Tail(<<i>>) = <<>> /\ <<i>> # <<>>
  OBVIOUS
<1>2. ASSUME NEW i, NEW j
      PROVE  Head(<<i, j>>) = i /\ Tail(<<i, j>>) = <<j>> /\ <<i, j>> # <<>>
  OBVIOUS
<1>3. ASSUME NEW i, NEW j, NEW k
      PROVE  Head(<<i, j, k>>) = i /\ Tail(<<i, j, k>>) = <<j, k>> /\ <<i, j, k>> # <<>>
  OBVIOUS
<1>4. ASSUME NEW i, NEW j, NEW k, NEW l, NEW m
      PROVE  /\ Head(<<i, j, k, l, m>>) = i
             /\ Tail(<<i, j, k, l, m>>) = <<j, k, l, m>>
             /\ <<i, j, k, l, m>> # <<>>
  OBVIOUS
<1>5. ASSUME NEW i, NEW j, NEW k, NEW l
      PROVE  Head(<<i, j, k, l>>) = i /\ Tail(<<i, j, k, l>>) = <<j, k, l>>
  OBVIOUS
<1> QED BY <1>1, <1>2, <1>3, <1>4, <1>5

-----------------------------------------------------------------------------
(* Addition, subtraction and comparison                                    *)

LEMMA SignBit ==
  ASSUME NEW z \in Sizes, NEW a \in Values(z)
  PROVE  Bit(a, Top(z)) <=> a >= Half(z)
<1> DEFINE h == Half(z)
           d == a \div h
<1>1. h \in Nat \ {0} /\ N(z) = 2 * h BY Halves
<1>2. a \in Nat /\ a < N(z) BY ValuesAre
<1> HIDE DEF h
<1>3. CASE a < h
  <2>1. a \div h = 0 BY <1>1, <1>2, <1>3
  <2> QED BY <1>1, <1>2, <1>3, <2>1 DEF Bit, h, Half
<1>4. CASE a >= h
  <2>1. a - h \in 0 .. h - 1 BY <1>1, <1>2, <1>4
  <2> DEFINE r == a - h
  <2> HIDE DEF r
  <2>2. (h * 1 + r) \div h = 1
    <3>1. 1 \in Int OBVIOUS
    <3> QED BY <1>1, <2>1, <3>1, DivUnique, Zenon DEF r
  <2>3. h * 1 + r = a BY <1>1, <1>2 DEF r
  <2> QED BY <1>4, <2>2, <2>3 DEF Bit, h, Half
<1> QED BY <1>1, <1>2, <1>3, <1>4 DEF h

LEMMA SignedIs ==
  ASSUME NEW z \in Sizes, NEW a \in Values(z)
  PROVE  /\ a < Half(z) => Signed(z, a) = a
         /\ a >= Half(z) => Signed(z, a) = a - 2 * Half(z)
         /\ Half(z) \in Nat \ {0} /\ a \in Nat /\ a < 2 * Half(z)
<1>1. Half(z) \in Nat \ {0} /\ N(z) = 2 * Half(z) /\ N(z) \div 2 = Half(z) BY Halves
<1>2. a \in Nat /\ a < N(z) BY ValuesAre
<1> QED BY <1>1, <1>2 DEF Signed

(* Sums and differences, and what wraps around.                            *)
LEMMA Wraps ==
  ASSUME NEW z \in Sizes, NEW x \in Int
  PROVE  /\ x >= 0 /\ x < N(z) => Wrap(z, x) = x
         /\ x >= N(z) /\ x < 2 * N(z) => Wrap(z, x) = x - N(z)
         /\ x < 0 /\ x >= -N(z) => Wrap(z, x) = x + N(z)
<1> DEFINE n == N(z)
<1>1. n \in Nat \ {0} BY Halves
<1>2. Wrap(z, x) = x % n BY DEF Wrap
<1> HIDE DEF n
<1>3. CASE x >= 0 /\ x < n
  <2>1. x % n = x BY <1>1, <1>3
  <2> QED BY <1>1, <1>2, <1>3, <2>1 DEF n
<1>4. CASE x >= n /\ x < 2 * n
  <2> DEFINE r == x - n
  <2>1. r \in 0 .. n - 1 /\ n * 1 + r = x BY <1>1, <1>4
  <2>2. 1 \in Int OBVIOUS
  <2> HIDE DEF r
  <2>3. (n * 1 + r) % n = r BY <1>1, <2>1, <2>2, DivUnique, Zenon
  <2>4. x % n = x - n BY <2>1, <2>3 DEF r
  <2> QED BY <1>1, <1>2, <1>4, <2>4 DEF n
<1>5. CASE x < 0 /\ x >= -n
  <2> DEFINE r == x + n
             m == -1
  <2>1. r \in 0 .. n - 1 /\ n * m + r = x BY <1>1, <1>5
  <2>2. m \in Int OBVIOUS
  <2> HIDE DEF r, m
  <2>3. (n * m + r) % n = r BY <1>1, <2>1, <2>2, DivUnique, Zenon
  <2>4. x % n = x + n BY <2>1, <2>3 DEF r
  <2> QED BY <1>1, <1>2, <1>5, <2>4 DEF n
<1>6. /\ x >= 0 /\ x < n => Wrap(z, x) = x
      /\ x >= n /\ x < 2 * n => Wrap(z, x) = x - n
      /\ x < 0 /\ x >= -n => Wrap(z, x) = x + n
  BY <1>2, <1>3, <1>4, <1>5 DEF n
<1> QED BY <1>6 DEF n

LEMMA AddIs ==
  ASSUME NEW z \in Sizes, NEW a \in Values(z), NEW b \in Values(z), NEW f \in FlagSet
  PROVE  /\ Add(z, a, b, f).value = (IF a + b >= N(z) THEN a + b - N(z) ELSE a + b)
         /\ Add(z, a, b, f).flags.carry = (a + b >= N(z))
<1>1. a \in Nat /\ b \in Nat /\ a < N(z) /\ b < N(z) /\ N(z) \in Nat BY ValuesAre, Halves
<1>2. a + b \in Int /\ a + b >= 0 /\ a + b < 2 * N(z) BY <1>1
<1>3. Wrap(z, a + b) = IF a + b >= N(z) THEN a + b - N(z) ELSE a + b
  BY <1>1, <1>2, Wraps
<1>4. Judged(z, Wrap(z, a + b), f) \in FlagSet BY JudgedType
<1> QED BY <1>3, <1>4 DEF Add, Outcome, FlagSet

LEMMA SubIs ==
  ASSUME NEW z \in Sizes, NEW a \in Values(z), NEW b \in Values(z), NEW f \in FlagSet
  PROVE  /\ Sub(z, a, b, f).value = (IF a < b THEN a - b + N(z) ELSE a - b)
         /\ Sub(z, a, b, f).flags.carry = (a < b)
         /\ Sub(z, a, b, f).flags.zero = (a = b)
         /\ Sub(z, a, b, f).flags.sign # Sub(z, a, b, f).flags.overflow
              <=> Signed(z, a) < Signed(z, b)
<1> DEFINE r == Wrap(z, a - b)
           h == Half(z)
           x == Signed(z, a)
           y == Signed(z, b)
           o == x - y \notin SignedValues(z)
           j == Judged(z, r, f)
<1>1. a \in Nat /\ b \in Nat /\ a < N(z) /\ b < N(z) /\ N(z) \in Nat BY ValuesAre, Halves
<1>2. a - b \in Int /\ a - b < N(z) /\ a - b >= -N(z) BY <1>1
<1>3. r = IF a < b THEN a - b + N(z) ELSE a - b BY <1>1, <1>2, Wraps
<1>4. /\ j \in FlagSet /\ j.zero = (r = 0) /\ j.sign = Bit(r, Top(z))
  BY JudgedType DEF Judged, FlagSet
<1>5. h \in Nat \ {0} /\ N(z) = 2 * h /\ SignedValues(z) = -h .. h - 1
  BY Halves DEF SignedValues
<1>6. r \in Values(z) BY <1>2, ValuesAre
<1>7. Bit(r, Top(z)) <=> r >= h BY <1>6, SignBit
<1>8. /\ a < h => x = a
      /\ a >= h => x = a - 2 * h
      /\ b < h => y = b
      /\ b >= h => y = b - 2 * h
  BY SignedIs
<1>9. Sub(z, a, b, f) = Outcome(r, [j EXCEPT !.carry = a < b, !.overflow = o,
                                             !.adjust = AdjustDown(a, b)])
  BY DEF Sub
<1>10. o <=> (x - y < -h \/ x - y >= h)
  <2>1. x - y \in Int BY <1>1, <1>5, SignedType
  <2> HIDE DEF x, y, h
  <2> QED BY <1>5, <2>1
<1> HIDE DEF r, h, x, y
<1>11. ~ ((r >= h) <=> o) <=> x < y
  <2> HIDE DEF o
  <2> QED BY <1>1, <1>3, <1>5, <1>8, <1>10
<1>12. r = 0 <=> a = b BY <1>1, <1>3
<1> HIDE DEF j
<1>13. /\ Sub(z, a, b, f).value = r
       /\ Sub(z, a, b, f).flags.carry = (a < b)
       /\ Sub(z, a, b, f).flags.zero = (r = 0)
       /\ Sub(z, a, b, f).flags.sign <=> Bit(r, Top(z))
       /\ Sub(z, a, b, f).flags.overflow <=> o
       /\ Sub(z, a, b, f).flags \in FlagSet
  <2> DEFINE c == a < b
             d == AdjustDown(a, b)
  <2>1. c \in BOOLEAN /\ d \in BOOLEAN /\ o \in BOOLEAN BY DEF AdjustDown
  <2>2. Sub(z, a, b, f) = Outcome(r, [j EXCEPT !.carry = c, !.overflow = o, !.adjust = d])
    BY <1>9
  <2> HIDE DEF c, d, o
  <2> DEFINE g == [j EXCEPT !.carry = c, !.overflow = o, !.adjust = d]
  <2>3. Sub(z, a, b, f).value = r /\ Sub(z, a, b, f).flags = g BY <2>2 DEF Outcome
  <2> HIDE DEF g
  <2>4. /\ g.carry = c /\ g.overflow = o /\ g.zero = j.zero /\ g.sign = j.sign
        /\ g \in FlagSet
    <3>1. j \in FlagSet BY <1>4
    <3>2. g = [j EXCEPT !.carry = c, !.overflow = o, !.adjust = d] BY DEF g
    <3>3. c \in BOOLEAN /\ o \in BOOLEAN /\ d \in BOOLEAN BY <2>1 DEF c, d, o
    <3> HIDE DEF j
    <3> QED BY <3>1, <3>2, <3>3 DEF FlagSet
  <2> QED BY <1>4, <2>3, <2>4 DEF c, o
<1> DEFINE g == Sub(z, a, b, f).flags
<1>14. (g.sign # g.overflow) <=> ~ (g.sign <=> g.overflow) BY <1>13 DEF FlagSet
<1>15. (g.sign # g.overflow) <=> x < y
  <2> HIDE DEF o, g
  <2> QED BY <1>7, <1>11, <1>13, <1>14 DEF g
<1> QED BY <1>3, <1>12, <1>13, <1>15 DEF x, y

(* A program that has not begun.                                           *)
Started ==
  /\ todo = given.code /\ regs = given.regs /\ result = "Ok"
  /\ flags.carry = given.carry

LEMMA Known ==
  ASSUME TypeInv
  PROVE  /\ s \in Sizes /\ flags \in FlagSet
         /\ regs \in [Regs -> Values(s)] /\ given.regs \in [Regs -> Values(s)]
         /\ \A x \in Regs : /\ given.regs[x] \in Values(s) /\ given.regs[x] \in Nat
                            /\ given.regs[x] < N(s)
                            /\ regs[x] \in Values(s) /\ regs[x] \in Nat /\ regs[x] < N(s)
         /\ {"acc", "ext", "b", "c", "count"} \subseteq Regs
         /\ N(s) \in Nat \ {0}
<1>1. /\ s \in Sizes /\ flags \in FlagSet
      /\ regs \in [Regs -> Values(s)] /\ given.regs \in [Regs -> Values(s)]
  BY DEF TypeInv, TypeOK, GivenInv
<1>2. ASSUME NEW x \in Regs
      PROVE  /\ given.regs[x] \in Values(s) /\ given.regs[x] \in Nat /\ given.regs[x] < N(s)
             /\ regs[x] \in Values(s) /\ regs[x] \in Nat /\ regs[x] < N(s)
  <2>1. given.regs[x] \in Values(s) /\ regs[x] \in Values(s) BY <1>1
  <2> QED BY <1>1, <2>1, ValuesAre
<1> QED BY <1>1, <1>2, Halves DEF Regs

(* What the flags tell after a comparison of a and b.                      *)
Judges(f, a, b) ==
  /\ f.carry = (a < b) /\ f.zero = (a = b)
  /\ f.sign # f.overflow <=> Signed(s, a) < Signed(s, b)

LEMMA ConditionsTell ==
  ASSUME NEW cc \in Relations, NEW f \in FlagSet, TypeInv,
         Judges(f, given.regs["acc"], given.regs["b"])
  PROVE  Matches(cc, f) <=> Related(cc - (cc % 2)) # (cc % 2 = 1)
<1> DEFINE a == given.regs["acc"]
           b == given.regs["b"]
           x == Signed(s, a)
           y == Signed(s, b)
           less == f.sign # f.overflow
<1>1. a \in Nat /\ b \in Nat /\ x \in Int /\ y \in Int
  <2>1. a \in Nat /\ b \in Nat /\ s \in Sizes BY Known
  <2> QED BY <2>1, SignedType
<1>2. f.carry = (a < b) /\ f.zero = (a = b) /\ (less <=> x < y) BY DEF Judges
<1>3. /\ Conditions(f)[2] = f.carry /\ Conditions(f)[3] = f.zero
      /\ Conditions(f)[4] = (f.carry \/ f.zero) /\ Conditions(f)[7] = less
      /\ Conditions(f)[8] = (less \/ f.zero)
  BY DEF Conditions
<1>4. /\ Related(2) = (a < b) /\ Related(4) = (a = b) /\ Related(6) = (a <= b)
      /\ Related(12) = (x < y) /\ Related(14) = (x <= y)
  BY DEF Related
<1>5. f.carry \in BOOLEAN /\ f.zero \in BOOLEAN /\ less \in BOOLEAN BY FlagsAre
<1> HIDE DEF less, a, b, x, y
<1>6. Conditions(f)[2] <=> Related(2) BY <1>1, <1>2, <1>3, <1>4, <1>5
<1>7. Conditions(f)[3] <=> Related(4) BY <1>1, <1>2, <1>3, <1>4, <1>5
<1>8. Conditions(f)[4] <=> Related(6) BY <1>1, <1>2, <1>3, <1>4, <1>5
<1>9. Conditions(f)[7] <=> Related(12) BY <1>1, <1>2, <1>3, <1>4, <1>5
<1>10. Conditions(f)[8] <=> Related(14)
  <2>1. x <= y <=> x < y \/ a = b
    <3>1. s \in Sizes /\ a \in Values(s) /\ b \in Values(s) BY Known DEF a, b
    <3>2. x = y <=> a = b BY <1>1, <3>1, SignedIs DEF x, y
    <3> QED BY <1>1, <3>2
  <2> QED BY <1>1, <1>2, <1>3, <1>4, <1>5, <2>1
<1>11. /\ Conditions(f)[2] \in BOOLEAN /\ Conditions(f)[3] \in BOOLEAN
       /\ Conditions(f)[4] \in BOOLEAN /\ Conditions(f)[7] \in BOOLEAN
       /\ Conditions(f)[8] \in BOOLEAN
  BY <1>3, <1>5
<1>22. /\ Related(2) \in BOOLEAN /\ Related(4) \in BOOLEAN /\ Related(6) \in BOOLEAN
       /\ Related(12) \in BOOLEAN /\ Related(14) \in BOOLEAN
  <2>1. /\ (a < b) \in BOOLEAN /\ (a = b) \in BOOLEAN /\ (a <= b) \in BOOLEAN
        /\ (x < y) \in BOOLEAN /\ (x <= y) \in BOOLEAN
    OBVIOUS
  <2> QED BY <1>4, <2>1, Zenon
<1>12. CASE cc = 2
  <2>1. cc \div 2 + 1 = 2 /\ cc % 2 = 0 /\ cc - (cc % 2) = 2 BY <1>12
  <2> DEFINE odd == cc % 2 = 1
  <2>2. ~ odd /\ Matches(cc, f) = (Conditions(f)[2] # odd) BY <2>1 DEF Matches
  <2>3. odd \in BOOLEAN OBVIOUS
  <2> HIDE DEF odd
  <2> QED BY <1>6, <1>11, <1>22, <2>1, <2>2, <2>3 DEF odd
<1>13. CASE cc = 3
  <2>1. cc \div 2 + 1 = 2 /\ cc % 2 = 1 /\ cc - (cc % 2) = 2 BY <1>13
  <2> DEFINE odd == cc % 2 = 1
  <2>2. odd /\ Matches(cc, f) = (Conditions(f)[2] # odd) BY <2>1 DEF Matches
  <2>3. odd \in BOOLEAN OBVIOUS
  <2> HIDE DEF odd
  <2> QED BY <1>6, <1>11, <1>22, <2>1, <2>2, <2>3 DEF odd
<1>14. CASE cc = 4
  <2>1. cc \div 2 + 1 = 3 /\ cc % 2 = 0 /\ cc - (cc % 2) = 4 BY <1>14
  <2> DEFINE odd == cc % 2 = 1
  <2>2. ~ odd /\ Matches(cc, f) = (Conditions(f)[3] # odd) BY <2>1 DEF Matches
  <2>3. odd \in BOOLEAN OBVIOUS
  <2> HIDE DEF odd
  <2> QED BY <1>7, <1>11, <1>22, <2>1, <2>2, <2>3 DEF odd
<1>15. CASE cc = 5
  <2>1. cc \div 2 + 1 = 3 /\ cc % 2 = 1 /\ cc - (cc % 2) = 4 BY <1>15
  <2> DEFINE odd == cc % 2 = 1
  <2>2. odd /\ Matches(cc, f) = (Conditions(f)[3] # odd) BY <2>1 DEF Matches
  <2>3. odd \in BOOLEAN OBVIOUS
  <2> HIDE DEF odd
  <2> QED BY <1>7, <1>11, <1>22, <2>1, <2>2, <2>3 DEF odd
<1>16. CASE cc = 6
  <2>1. cc \div 2 + 1 = 4 /\ cc % 2 = 0 /\ cc - (cc % 2) = 6 BY <1>16
  <2> DEFINE odd == cc % 2 = 1
  <2>2. ~ odd /\ Matches(cc, f) = (Conditions(f)[4] # odd) BY <2>1 DEF Matches
  <2>3. odd \in BOOLEAN OBVIOUS
  <2> HIDE DEF odd
  <2> QED BY <1>8, <1>11, <1>22, <2>1, <2>2, <2>3 DEF odd
<1>17. CASE cc = 7
  <2>1. cc \div 2 + 1 = 4 /\ cc % 2 = 1 /\ cc - (cc % 2) = 6 BY <1>17
  <2> DEFINE odd == cc % 2 = 1
  <2>2. odd /\ Matches(cc, f) = (Conditions(f)[4] # odd) BY <2>1 DEF Matches
  <2>3. odd \in BOOLEAN OBVIOUS
  <2> HIDE DEF odd
  <2> QED BY <1>8, <1>11, <1>22, <2>1, <2>2, <2>3 DEF odd
<1>18. CASE cc = 12
  <2>1. cc \div 2 + 1 = 7 /\ cc % 2 = 0 /\ cc - (cc % 2) = 12 BY <1>18
  <2> DEFINE odd == cc % 2 = 1
  <2>2. ~ odd /\ Matches(cc, f) = (Conditions(f)[7] # odd) BY <2>1 DEF Matches
  <2>3. odd \in BOOLEAN OBVIOUS
  <2> HIDE DEF odd
  <2> QED BY <1>9, <1>11, <1>22, <2>1, <2>2, <2>3 DEF odd
<1>19. CASE cc = 13
  <2>1. cc \div 2 + 1 = 7 /\ cc % 2 = 1 /\ cc - (cc % 2) = 12 BY <1>19
  <2> DEFINE odd == cc % 2 = 1
  <2>2. odd /\ Matches(cc, f) = (Conditions(f)[7] # odd) BY <2>1 DEF Matches
  <2>3. odd \in BOOLEAN OBVIOUS
  <2> HIDE DEF odd
  <2> QED BY <1>9, <1>11, <1>22, <2>1, <2>2, <2>3 DEF odd
<1>20. CASE cc = 14
  <2>1. cc \div 2 + 1 = 8 /\ cc % 2 = 0 /\ cc - (cc % 2) = 14 BY <1>20
  <2> DEFINE odd == cc % 2 = 1
  <2>2. ~ odd /\ Matches(cc, f) = (Conditions(f)[8] # odd) BY <2>1 DEF Matches
  <2>3. odd \in BOOLEAN OBVIOUS
  <2> HIDE DEF odd
  <2> QED BY <1>10, <1>11, <1>22, <2>1, <2>2, <2>3 DEF odd
<1>21. CASE cc = 15
  <2>1. cc \div 2 + 1 = 8 /\ cc % 2 = 1 /\ cc - (cc % 2) = 14 BY <1>21
  <2> DEFINE odd == cc % 2 = 1
  <2>2. odd /\ Matches(cc, f) = (Conditions(f)[8] # odd) BY <2>1 DEF Matches
  <2>3. odd \in BOOLEAN OBVIOUS
  <2> HIDE DEF odd
  <2> QED BY <1>10, <1>11, <1>22, <2>1, <2>2, <2>3 DEF odd
<1> QED BY <1>12, <1>13, <1>14, <1>15, <1>16, <1>17, <1>18, <1>19, <1>20, <1>21
  DEF Relations

(* setcc tells a condition in the low byte of its destination.             *)
LEMMA SetTells ==
  ASSUME NEW z \in Sizes, NEW a \in Values(z), NEW b
  PROVE  LET v == (a - Wrap("byte", a)) + Number(b)
         IN  Wrap("byte", v) = Number(b) /\ v \div N("byte") = a \div N("byte")
<1> DEFINE n == N("byte")
           d == a \div n
           r == a % n
           k == Number(b)
<1>1. n \in Nat \ {0} /\ n >= 2
  <2>1. "byte" \in Sizes BY DEF Sizes
  <2> QED BY <2>1, Halves
<1>2. a \in Int BY ValuesAre
<1>3. Wrap("byte", a) = r BY DEF Wrap
<1>4. k \in 0 .. n - 1 BY <1>1 DEF Number
<1> HIDE DEF n, k
<1>5. d \in Int /\ r \in 0 .. n - 1 /\ a = n * d + r BY <1>1, <1>2, DivMod
<1> HIDE DEF d, r
<1>6. n * d \in Int BY <1>1, <1>5
<1>7. (a - r) + k = n * d + k BY <1>4, <1>5, <1>6
<1>8. (n * d + k) \div n = d /\ (n * d + k) % n = k BY <1>1, <1>4, <1>5, DivUnique
<1> QED BY <1>3, <1>7, <1>8 DEF Wrap, n, d, k

-----------------------------------------------------------------------------
(* Comparison.  After the first of the two instructions the flags tell how *)
(* the operands are related, and nothing else has changed.                 *)

CompareInv ==
  given.name \in {"compare", "choose"} =>
    \/ Started
    \/ /\ todo = Tail(given.code) /\ regs = given.regs /\ result = "Ok"
       /\ Judges(flags, given.regs["acc"], given.regs["b"])
    \/ todo = <<>> /\ Comparison

ZeroInv ==
  given.name = "zero" =>
    \/ Started
    \/ /\ todo = Tail(given.code) /\ regs = given.regs /\ result = "Ok"
       /\ flags.zero = (given.regs["acc"] = 0)
    \/ todo = <<>> /\ Comparison

LEMMA CompareStep ==
  ASSUME TypeInv, CompareInv, Next
  PROVE  CompareInv'
<1> SUFFICES ASSUME given.name \in {"compare", "choose"} PROVE CompareInv'
  BY Executes DEF CompareInv
<1> DEFINE a == given.regs["acc"]
           b == given.regs["b"]
<1>1. /\ todo # <<>> /\ todo' = Tail(todo) /\ result = "Ok" /\ given' = given /\ s' = s
  BY Executes DEF s
<1>2. PICK cc \in Relations :
        \/ given.name = "compare" /\ given.code = CompareCode(cc)
        \/ given.name = "choose" /\ given.code = ChooseCode(cc)
  BY DEF TypeInv, GivenInv, Listed
<1> DEFINE first == Reg("cmp", "acc", "b")
           second == given.code[2]
           is == Related(second.cc - (second.cc % 2)) # (second.cc % 2 = 1)
<1>3. /\ Head(given.code) = first /\ Tail(given.code) = <<second>>
      /\ second.cc = cc
      /\ given.name = "compare" => second = Cond("setcc", cc, "c", "b")
      /\ given.name = "choose" => second = Cond("cmovcc", cc, "acc", "b")
  <2> DEFINE x == Cond("setcc", cc, "c", "b")
             y == Cond("cmovcc", cc, "acc", "b")
  <2>1. x.cc = cc /\ y.cc = cc BY DEF Cond
  <2>2. \/ given.name = "compare" /\ given.code = <<first, x>>
        \/ given.name = "choose" /\ given.code = <<first, y>>
    BY <1>2 DEF CompareCode, ChooseCode
  <2> HIDE DEF first, x, y
  <2>3. \A i, j : <<i, j>>[2] = j OBVIOUS
  <2>4. CASE given.name = "compare" /\ given.code = <<first, x>>
    <3>1. second = x BY <2>3, <2>4
    <3> QED BY <2>1, <2>4, <3>1, Sequences DEF x
  <2>5. CASE given.name = "choose" /\ given.code = <<first, y>>
    <3>1. second = y BY <2>3, <2>5
    <3> QED BY <2>1, <2>5, <3>1, Sequences DEF y
  <2> QED BY <2>2, <2>4, <2>5
<1>4. CASE Started
  <2>1. Instruction = first /\ regs = given.regs BY <1>3, <1>4 DEF Started, Instruction
  <2>2. /\ Instruction.op = "cmp" /\ Instruction.dst = "acc" /\ Instruction.kind = "reg"
        /\ Instruction.src = "b"
    BY <2>1 DEF Reg
  <2>3. ExecCmp BY <2>2, Executes
  <2>4. Destination = a /\ Source(regs) = b BY <2>1, <2>2 DEF Destination, Source
  <2>5. flags' = Sub(s, a, b, flags).flags /\ regs' = regs /\ result' = result
    BY <2>3, <2>4 DEF ExecCmp, Tests
  <2>6. Judges(Sub(s, a, b, flags).flags, a, b)
    BY Known, SubIs DEF Judges
  <2>7. Judges(flags, a, b)' BY <1>1, <2>5, <2>6 DEF Judges
  <2>8. todo' = Tail(given.code) BY <1>1, <1>4 DEF Started
  <2> QED BY <1>1, <2>1, <2>5, <2>7, <2>8 DEF CompareInv
<1>5. CASE /\ todo = Tail(given.code) /\ regs = given.regs /\ result = "Ok"
           /\ Judges(flags, a, b)
  <2>1. Instruction = second /\ todo' = <<>>
    BY <1>1, <1>3, <1>5, Sequences DEF Instruction
  <2>2. Matches(cc, flags) <=> is BY <1>3, <1>5, Known, ConditionsTell
  <2>3. CASE given.name = "compare"
    <3>1. /\ Instruction.op = "setcc" /\ Instruction.cc = cc /\ Instruction.dst = "c"
      BY <1>3, <2>1, <2>3 DEF Cond
    <3>2. ExecSetcc BY <3>1, Executes
    <3> DEFINE c == regs["c"]
               v == (c - Wrap("byte", c)) + Number(Matches(cc, flags))
    <3>3. regs' = [regs EXCEPT !["c"] = v]
      BY <3>1, <3>2 DEF ExecSetcc, Writes, Outcome, Destination
    <3>4. regs'["c"] = v BY <3>3, Known
    <3>5. Wrap("byte", v) = Number(Matches(cc, flags)) /\ v \div N("byte") = c \div N("byte")
      BY Known, SetTells
    <3>6. Number(Matches(cc, flags)) = Number(is) BY <2>2 DEF Number
    <3>7. Tells(is)' BY <1>1, <1>5, <3>4, <3>5, <3>6 DEF Tells, Related
    <3>8. Comparison' BY <1>1, <2>3, <3>7 DEF Comparison, Ended, Runs, Related
    <3> QED BY <2>1, <3>8 DEF CompareInv
  <2>4. CASE given.name = "choose"
    <3>1. /\ Instruction.op = "cmovcc" /\ Instruction.cc = cc /\ Instruction.dst = "acc"
          /\ Instruction.kind = "reg" /\ Instruction.src = "b"
      BY <1>3, <2>1, <2>4 DEF Cond
    <3>2. ExecCmovcc BY <3>1, Executes
    <3>3. regs'["acc"] = IF Matches(cc, flags) THEN b ELSE a
      BY <1>5, <3>1, <3>2, Known DEF ExecCmovcc, Writes, Outcome, Source
    <3>4. (regs["acc"] = given.regs[IF is THEN "b" ELSE "acc"])'
      BY <1>1, <2>2, <3>3 DEF Related
    <3>5. Comparison' BY <1>1, <2>4, <3>4 DEF Comparison, Ended, Runs, Related
    <3> QED BY <2>1, <3>5 DEF CompareInv
  <2> QED BY <2>3, <2>4
<1>6. CASE todo = <<>> BY <1>1, <1>6
<1> QED BY <1>4, <1>5, <1>6 DEF CompareInv

(* test of a register with itself: and writes what was there.              *)
LEMMA SelfAnd ==
  ASSUME NEW z \in Sizes, NEW a \in Values(z), NEW f \in FlagSet
  PROVE  And(z, a, a, f).value = a /\ And(z, a, a, f).flags.zero = (a = 0)
<1> DEFINE K == BitsOf(z, a)
           r == FromBits(z, K)
<1>1. K \in SUBSET (0 .. Top(z)) BY DEF BitsOf
<1>2. r \in Values(z) /\ BitsOf(z, r) = K
  <2> HIDE DEF K
  <2> QED BY <1>1, FromBitsIs
<1>3. r = a
  <2> HIDE DEF r
  <2> QED BY <1>2, SameBits
<1>4. And(z, a, a, f) = Logical(z, r, f)
  <2>1. K \intersect K = K OBVIOUS
  <2> QED BY <2>1 DEF And
<1>5. Judged(z, a, f) \in FlagSet /\ Judged(z, a, f).zero = (a = 0)
  <2>1. Judged(z, a, f).zero = (a = 0) BY DEF Judged, FlagSet
  <2> QED BY <2>1, JudgedType
<1>6. Logical(z, a, f).value = a /\ Logical(z, a, f).flags.zero = Judged(z, a, f).zero
  <2> DEFINE j == Judged(z, a, f)
  <2>1. Logical(z, a, f) = Outcome(a, [j EXCEPT !.carry = FALSE, !.overflow = FALSE])
    BY DEF Logical
  <2>2. j \in FlagSet BY <1>5
  <2> HIDE DEF j
  <2>3. [j EXCEPT !.carry = FALSE, !.overflow = FALSE].zero = j.zero
    BY <2>2 DEF FlagSet
  <2> DEFINE g == [j EXCEPT !.carry = FALSE, !.overflow = FALSE]
  <2>4. Logical(z, a, f).value = a /\ Logical(z, a, f).flags = g BY <2>1 DEF Outcome
  <2> HIDE DEF g
  <2> QED BY <2>3, <2>4 DEF j, g
<1> QED BY <1>3, <1>4, <1>5, <1>6

LEMMA ZeroStep ==
  ASSUME TypeInv, ZeroInv, Next
  PROVE  ZeroInv'
<1> SUFFICES ASSUME given.name = "zero" PROVE ZeroInv'
  BY Executes DEF ZeroInv
<1> DEFINE a == given.regs["acc"]
           first == Reg("test", "acc", "acc")
           second == Cond("setcc", 4, "c", "b")
<1>1. /\ todo # <<>> /\ todo' = Tail(todo) /\ result = "Ok" /\ given' = given /\ s' = s
  BY Executes DEF s
<1>2. Head(given.code) = first /\ Tail(given.code) = <<second>>
  <2>1. given.code = <<first, second>> BY DEF TypeInv, GivenInv, Listed, ZeroCode
  <2> HIDE DEF first, second
  <2> QED BY <2>1, Sequences
<1>3. CASE Started
  <2>1. Instruction = first /\ regs = given.regs BY <1>2, <1>3 DEF Started, Instruction
  <2>2. /\ Instruction.op = "test" /\ Instruction.dst = "acc" /\ Instruction.kind = "reg"
        /\ Instruction.src = "acc"
    BY <2>1 DEF Reg
  <2>3. ExecTest BY <2>2, Executes
  <2>4. Destination = a /\ Source(regs) = a BY <2>1, <2>2 DEF Destination, Source
  <2> DEFINE o == And(s, a, a, flags)
  <2>5. o.value = a /\ o.flags.zero = (a = 0) BY Known, SelfAnd
  <2>6. Tests(o) \/ Writes(o) BY <2>3, <2>4 DEF ExecTest
  <2> HIDE DEF o
  <2>7. regs' = regs
    <3>1. [regs EXCEPT !["acc"] = a] = regs BY <2>1, Known
    <3> QED BY <2>2, <2>5, <2>6, <3>1 DEF Tests, Writes
  <2>8. flags' = o.flags /\ result' = result BY <2>6 DEF Tests, Writes
  <2>9. todo' = Tail(given.code) BY <1>1, <1>3 DEF Started
  <2> QED BY <1>1, <2>1, <2>5, <2>7, <2>8, <2>9 DEF ZeroInv
<1>4. CASE /\ todo = Tail(given.code) /\ regs = given.regs /\ result = "Ok"
           /\ flags.zero = (a = 0)
  <2>1. Instruction = second /\ todo' = <<>>
    <3> HIDE DEF second
    <3> QED BY <1>1, <1>2, <1>4, Sequences DEF Instruction
  <2>2. Instruction.op = "setcc" /\ Instruction.cc = 4 /\ Instruction.dst = "c"
    BY <2>1 DEF Cond
  <2>3. ExecSetcc BY <2>2, Executes
  <2> DEFINE c == regs["c"]
             m == Matches(4, flags)
             v == (c - Wrap("byte", c)) + Number(m)
  <2>4. regs' = [regs EXCEPT !["c"] = v]
    BY <2>2, <2>3 DEF ExecSetcc, Writes, Outcome, Destination
  <2>5. m <=> a = 0
    <3>1. 4 \div 2 + 1 = 3 /\ 4 % 2 = 0 OBVIOUS
    <3>2. Conditions(flags)[3] = flags.zero BY DEF Conditions
    <3>3. flags.zero \in BOOLEAN BY Known, FlagsAre
    <3> DEFINE odd == 4 % 2 = 1
    <3>4. ~ odd /\ odd \in BOOLEAN BY <3>1
    <3>5. m = (flags.zero # odd) BY <3>1, <3>2 DEF Matches
    <3> HIDE DEF odd, m
    <3> QED BY <1>4, <3>3, <3>4, <3>5
  <2>6. regs'["c"] = v BY <2>4, Known
  <2>7. Wrap("byte", v) = Number(m) /\ v \div N("byte") = c \div N("byte")
    BY Known, SetTells
  <2>8. Number(m) = Number(a = 0) BY <2>5 DEF Number
  <2>9. Tells(a = 0)' BY <1>1, <1>4, <2>6, <2>7, <2>8 DEF Tells
  <2>10. Comparison' BY <1>1, <2>9 DEF Comparison, Ended, Runs
  <2> QED BY <2>1, <2>10 DEF ZeroInv
<1>5. CASE todo = <<>> BY <1>1, <1>5
<1> QED BY <1>3, <1>4, <1>5 DEF ZeroInv

(* The start of every program.                                             *)
LEMMA Begins ==
  ASSUME Init
  PROVE  Started
<1>1. PICK p \in Programs : \E m \in p.inputs, carry \in p.carries, checked \in p.builds :
        /\ regs = m
        /\ flags = [x \in {"carry", "parity", "adjust", "zero", "sign", "overflow"}
                      |-> x = "carry" /\ carry]
        /\ todo = p.code
        /\ result = "Ok"
        /\ given = [name |-> p.name, size |-> p.size, code |-> p.code,
                    regs |-> m, carry |-> carry, checked |-> checked]
  BY DEF Init
<1>2. PICK m \in p.inputs, carry \in p.carries, checked \in p.builds :
        /\ regs = m
        /\ flags = [x \in {"carry", "parity", "adjust", "zero", "sign", "overflow"}
                      |-> x = "carry" /\ carry]
        /\ todo = p.code
        /\ result = "Ok"
        /\ given = [name |-> p.name, size |-> p.size, code |-> p.code,
                    regs |-> m, carry |-> carry, checked |-> checked]
  BY <1>1
<1>3. carry \in BOOLEAN BY ProgramAssumption
<1>4. flags.carry = carry BY <1>2, <1>3
<1> QED BY <1>2, <1>4 DEF Started

LEMMA NotEmpty ==
  ASSUME TypeInv, Started, given.name \in
           {"sum", "difference", "negation", "doubling", "left", "right", "signed_right",
            "count", "rcl", "rcr", "rol", "back", "whole_turn", "compare", "choose", "zero",
            "division", "mul_and_div", "imul", "imul2", "idiv", "swap", "retry", "de_morgan"}
  PROVE  todo # <<>>
<1>1. Listed(given.name, s, given.code) /\ todo = given.code BY DEF TypeInv, GivenInv, Started
<1>2. SumCode # <<>> /\ DifferenceCode # <<>> /\ NegationCode # <<>> /\ DoublingCode # <<>>
  BY DEF SumCode, DifferenceCode, NegationCode, DoublingCode
<1>3. LeftCode # <<>> /\ RightCode # <<>> /\ SignedRightCode # <<>>
  BY DEF LeftCode, RightCode, SignedRightCode
<1>4. \A op, k : Single(op, k) # <<>> BY DEF Single
<1>5. \A k : BackCode(k) # <<>> BY DEF BackCode
<1>6. \A cc : CompareCode(cc) # <<>> /\ ChooseCode(cc) # <<>>
  BY DEF CompareCode, ChooseCode
<1>7. ZeroCode # <<>> /\ DivisionCode # <<>> /\ MulAndDivCode # <<>>
  BY DEF ZeroCode, DivisionCode, MulAndDivCode
<1>8. \A op : SignedCode(op) # <<>> BY DEF SignedCode
<1>9. XorSwapCode # <<>> /\ XaddSwapCode # <<>> /\ RetryCode # <<>> /\ DeMorganCode # <<>>
  BY DEF XorSwapCode, XaddSwapCode, RetryCode, DeMorganCode
<1> QED BY <1>1, <1>2, <1>3, <1>4, <1>5, <1>6, <1>7, <1>8, <1>9 DEF Listed

LEMMA TypeKept == TypeInv /\ [Next]_vars => TypeInv'
<1> SUFFICES ASSUME TypeInv, [Next]_vars PROVE TypeInv' OBVIOUS
<1>1. CASE Next BY <1>1, TypeStep
<1>2. CASE UNCHANGED vars
  BY <1>2 DEF vars, TypeInv, TypeOK, GivenInv, Admissible, s
<1> QED BY <1>1, <1>2

(* After cmp every condition code tells how the operands are related, as   *)
(* signed and as unsigned numbers, to setcc as well as to cmovcc; test     *)
(* tells zero.                                                             *)
THEOREM Comparisons == Spec => []Comparison
<1> DEFINE Inv == TypeInv /\ CompareInv /\ ZeroInv
<1>1. Init => Inv BY TypeStart, Begins DEF CompareInv, ZeroInv
<1>2. Inv /\ [Next]_vars => Inv'
  <2> SUFFICES ASSUME Inv, [Next]_vars PROVE Inv' OBVIOUS
  <2>1. TypeInv' BY TypeKept
  <2>2. CASE Next BY <2>1, <2>2, CompareStep, ZeroStep
  <2>3. CASE UNCHANGED vars
    BY <2>1, <2>3 DEF vars, CompareInv, ZeroInv, Started, Judges, Comparison, Ended, Runs,
                      Tells, Related, s
  <2> QED BY <2>2, <2>3
<1>3. Inv => Comparison
  <2> SUFFICES ASSUME Inv PROVE Comparison OBVIOUS
  <2>1. CASE given.name \in {"compare", "choose"}
    <3>1. CASE Started
      BY <2>1, <3>1, NotEmpty DEF Comparison, Ended, Runs
    <3>2. CASE todo = Tail(given.code)
      <4>1. Tail(given.code) # <<>>
        <5>1. PICK cc \in Relations :
                given.code = CompareCode(cc) \/ given.code = ChooseCode(cc)
          BY <2>1 DEF TypeInv, GivenInv, Listed
        <5> DEFINE first == Reg("cmp", "acc", "b")
                   x == Cond("setcc", cc, "c", "b")
                   y == Cond("cmovcc", cc, "acc", "b")
        <5>2. given.code = <<first, x>> \/ given.code = <<first, y>>
          BY <5>1 DEF CompareCode, ChooseCode
        <5> HIDE DEF first, x, y
        <5>3. /\ Tail(<<first, x>>) = <<x>> /\ <<x>> # <<>>
              /\ Tail(<<first, y>>) = <<y>> /\ <<y>> # <<>>
          BY Sequences
        <5> QED BY <5>2, <5>3
      <4> QED BY <3>2, <4>1 DEF Comparison, Ended, Runs
    <3> QED BY <2>1, <3>1, <3>2 DEF CompareInv
  <2>2. CASE given.name = "zero"
    <3>1. CASE Started
      BY <2>2, <3>1, NotEmpty DEF Comparison, Ended, Runs
    <3>2. CASE todo = Tail(given.code)
      <4>1. Tail(given.code) # <<>>
        <5> DEFINE first == Reg("test", "acc", "acc")
                   second == Cond("setcc", 4, "c", "b")
        <5>1. given.code = <<first, second>> BY <2>2 DEF TypeInv, GivenInv, Listed, ZeroCode
        <5> HIDE DEF first, second
        <5> QED BY <5>1, Sequences
      <4> QED BY <3>2, <4>1 DEF Comparison, Ended, Runs
    <3> QED BY <2>2, <3>1, <3>2 DEF ZeroInv
  <2>3. CASE given.name \notin {"compare", "choose", "zero"}
    BY <2>3 DEF Comparison, Ended, Runs
  <2> QED BY <2>1, <2>2, <2>3
<1> QED BY <1>1, <1>2, <1>3, PTL DEF Spec

-----------------------------------------------------------------------------
(* What an instruction on registers does                                   *)

LEMMA RegIs ==
  ASSUME NEW op, NEW dst, NEW src, Instruction = Reg(op, dst, src)
  PROVE  /\ Instruction.op = op /\ Instruction.dst = dst
         /\ Destination = regs[dst] /\ \A m : Source(m) = m[src]
<1>1. Instruction.op = op /\ Instruction.dst = dst /\ Instruction.kind = "reg"
      /\ Instruction.src = src
  BY DEF Reg
<1> QED BY <1>1 DEF Destination, Source

LEMMA ImmIs ==
  ASSUME NEW op, NEW dst, NEW x, Instruction = Imm(op, dst, x)
  PROVE  /\ Instruction.op = op /\ Instruction.dst = dst
         /\ Destination = regs[dst] /\ \A m : Source(m) = x
<1>1. Instruction.op = op /\ Instruction.dst = dst /\ Instruction.kind = "imm"
      /\ Instruction.imm = x
  BY DEF Imm
<1>2. ~ (Instruction.kind = "reg") BY <1>1
<1> QED BY <1>1, <1>2 DEF Destination, Source

(* A step that puts an outcome into a register.                            *)
Sets(dst, o) ==
  /\ regs'[dst] = o.value /\ \A x \in Regs \ {dst} : regs'[x] = regs[x]
  /\ flags' = o.flags /\ result' = result

LEMMA WritesSets ==
  ASSUME TypeInv, NEW dst \in Regs, Instruction.dst = dst, NEW o, Writes(o)
  PROVE  Sets(dst, o)
<1>1. regs \in [Regs -> Values(s)] BY Known
<1>2. regs' = [regs EXCEPT ![dst] = o.value] /\ flags' = o.flags /\ result' = result
  BY DEF Writes
<1> QED BY <1>1, <1>2 DEF Sets

LEMMA CarriedIs ==
  ASSUME TypeInv, NEW dst \in Regs, Instruction.dst = dst, NEW x
  PROVE  /\ Carried(x)[dst] = Wrap(s, regs[dst] + x)
         /\ \A y \in Regs \ {dst} : Carried(x)[y] = regs[y]
<1>1. regs \in [Regs -> Values(s)] BY Known
<1>2. Carried(x) = [regs EXCEPT ![dst] = Wrap(s, regs[dst] + x)] BY DEF Carried
<1> QED BY <1>1, <1>2

LEMMA RegSets ==
  ASSUME TypeInv, Next, NEW op, NEW dst \in Regs, NEW src \in Regs,
         Instruction = Reg(op, dst, src)
  PROVE  LET a == regs[dst]
             b == regs[src]
             up == Wrap(s, a + Number(flags.carry))
             down == Wrap(s, a + (-Number(flags.carry)))
         IN /\ op = "add" => Sets(dst, Add(s, a, b, flags))
            /\ op = "sub" => Sets(dst, Sub(s, a, b, flags))
            /\ op = "neg" => Sets(dst, Neg(s, a, flags))
            /\ op = "and" => Sets(dst, And(s, a, b, flags))
            /\ op = "or"  => Sets(dst, Or(s, a, b, flags))
            /\ op = "xor" => Sets(dst, Xor(s, a, b, flags))
            /\ op = "not" => Sets(dst, Not(s, a, flags))
            /\ op = "adc" => Sets(dst, Add(s, up, IF src = dst THEN up ELSE b, flags))
            /\ op = "sbb" => Sets(dst, Sub(s, down, IF src = dst THEN down ELSE b, flags))
<1> DEFINE a == regs[dst]
           b == regs[src]
           k == Number(flags.carry)
           up == Wrap(s, a + k)
           down == Wrap(s, a + (-k))
<1>1. /\ Instruction.op = op /\ Instruction.dst = dst
      /\ Destination = a /\ \A m : Source(m) = m[src]
  BY RegIs
<1>2. Source(regs) = b BY <1>1
<1>3. ASSUME op = "add" PROVE Sets(dst, Add(s, a, b, flags))
  BY <1>1, <1>2, <1>3, Executes, WritesSets DEF ExecAdd
<1>4. ASSUME op = "sub" PROVE Sets(dst, Sub(s, a, b, flags))
  BY <1>1, <1>2, <1>4, Executes, WritesSets DEF ExecSub
<1>5. ASSUME op = "neg" PROVE Sets(dst, Neg(s, a, flags))
  BY <1>1, <1>2, <1>5, Executes, WritesSets DEF ExecNeg
<1>6. ASSUME op = "and" PROVE Sets(dst, And(s, a, b, flags))
  BY <1>1, <1>2, <1>6, Executes, WritesSets DEF ExecAnd
<1>7. ASSUME op = "or" PROVE Sets(dst, Or(s, a, b, flags))
  BY <1>1, <1>2, <1>7, Executes, WritesSets DEF ExecOr
<1>8. ASSUME op = "xor" PROVE Sets(dst, Xor(s, a, b, flags))
  BY <1>1, <1>2, <1>8, Executes, WritesSets DEF ExecXor
<1>9. ASSUME op = "not" PROVE Sets(dst, Not(s, a, flags))
  BY <1>1, <1>2, <1>9, Executes, WritesSets DEF ExecNot
<1>10. ASSUME op = "adc" PROVE Sets(dst, Add(s, up, IF src = dst THEN up ELSE b, flags))
  <2>1. ExecAdc BY <1>1, <1>10, Executes
  <2> DEFINE m == Carried(k)
  <2>2. Writes(Add(s, m[dst], Source(m), flags)) BY <1>1, <2>1 DEF ExecAdc
  <2>3. m[dst] = up /\ Source(m) = IF src = dst THEN up ELSE b BY <1>1, CarriedIs
  <2> HIDE DEF m
  <2> QED BY <1>1, <2>2, <2>3, WritesSets
<1>11. ASSUME op = "sbb" PROVE Sets(dst, Sub(s, down, IF src = dst THEN down ELSE b, flags))
  <2>1. ExecSbb BY <1>1, <1>11, Executes
  <2> DEFINE m == Carried(-k)
  <2>2. Writes(Sub(s, m[dst], Source(m), flags)) BY <1>1, <2>1 DEF ExecSbb
  <2>3. m[dst] = down /\ Source(m) = IF src = dst THEN down ELSE b BY <1>1, CarriedIs
  <2> HIDE DEF m
  <2> QED BY <1>1, <2>2, <2>3, WritesSets
<1> QED BY <1>3, <1>4, <1>5, <1>6, <1>7, <1>8, <1>9, <1>10, <1>11

LEMMA ImmSets ==
  ASSUME TypeInv, Next, NEW op, NEW dst \in Regs, NEW i, Instruction = Imm(op, dst, i)
  PROVE  LET a == regs[dst]
             up == Wrap(s, a + Number(flags.carry))
         IN /\ op = "inc" => Sets(dst, Inc(s, a, flags))
            /\ op = "dec" => Sets(dst, Dec(s, a, flags))
            /\ op = "adc" => Sets(dst, Add(s, up, i, flags))
            /\ op = "rol" => Sets(dst, Rol(s, a, i, flags))
            /\ op = "ror" => Sets(dst, Ror(s, a, i, flags))
            /\ op = "rcl" => Sets(dst, Rcl(s, a, i, flags))
            /\ op = "rcr" => Sets(dst, Rcr(s, a, i, flags))
<1> DEFINE a == regs[dst]
           k == Number(flags.carry)
           up == Wrap(s, a + k)
<1>1. /\ Instruction.op = op /\ Instruction.dst = dst
      /\ Destination = a /\ \A m : Source(m) = i
  BY ImmIs
<1>3. ASSUME op = "inc" PROVE Sets(dst, Inc(s, a, flags))
  BY <1>1, <1>3, Executes, WritesSets DEF ExecInc
<1>4. ASSUME op = "dec" PROVE Sets(dst, Dec(s, a, flags))
  BY <1>1, <1>4, Executes, WritesSets DEF ExecDec
<1>5. ASSUME op = "rol" PROVE Sets(dst, Rol(s, a, i, flags))
  BY <1>1, <1>5, Executes, WritesSets DEF ExecRol
<1>6. ASSUME op = "ror" PROVE Sets(dst, Ror(s, a, i, flags))
  BY <1>1, <1>6, Executes, WritesSets DEF ExecRor
<1>7. ASSUME op = "rcl" PROVE Sets(dst, Rcl(s, a, i, flags))
  BY <1>1, <1>7, Executes, WritesSets DEF ExecRcl
<1>8. ASSUME op = "rcr" PROVE Sets(dst, Rcr(s, a, i, flags))
  BY <1>1, <1>8, Executes, WritesSets DEF ExecRcr
<1>10. ASSUME op = "adc" PROVE Sets(dst, Add(s, up, i, flags))
  <2>1. ExecAdc BY <1>1, <1>10, Executes
  <2> DEFINE m == Carried(k)
  <2>2. Writes(Add(s, m[dst], Source(m), flags)) BY <1>1, <2>1 DEF ExecAdc
  <2>3. m[dst] = up /\ Source(m) = i BY <1>1, CarriedIs
  <2> HIDE DEF m
  <2> QED BY <1>1, <2>2, <2>3, WritesSets
<1> QED BY <1>3, <1>4, <1>5, <1>6, <1>7, <1>8, <1>10

-----------------------------------------------------------------------------
(* Numbers of two words                                                    *)

LEMMA WrapTwice ==
  ASSUME NEW z \in Sizes, NEW x \in Int, NEW y \in Int
  PROVE  Wrap(z, Wrap(z, x) + y) = Wrap(z, x + y)
<1>1. N(z) \in Nat \ {0} BY Halves
<1> QED BY <1>1, AddRemainder DEF Wrap

(* The lower words are added first, then their carry goes to the upper one *)
(* that the other one is added to.                                         *)
SumIs(z, a, b, c, e) ==
  LET n == N(z)
      k == Number(a + b >= n)
      m == Wrap(z, e + k)
      x == (e * n + a) + (c * n + b)
  IN /\ Wrap(z, m + c) * n + Wrap(z, a + b) = x % (n * n)
     /\ m + c >= n <=> x >= n * n /\ ~ (a + b >= n /\ e = n - 1)

LEMMA LongSum ==
  ASSUME NEW z \in Sizes, NEW a \in Values(z), NEW b \in Values(z),
         NEW c \in Values(z), NEW e \in Values(z)
  PROVE  SumIs(z, a, b, c, e)
<1> DEFINE n == N(z)
           k == Number(a + b >= n)
           m == Wrap(z, e + k)
           low == Wrap(z, a + b)
           q == (e + k) + c
           x == (e * n + a) + (c * n + b)
<1>1. /\ n \in Nat \ {0} /\ a \in Nat /\ b \in Nat /\ c \in Nat /\ e \in Nat
      /\ a < n /\ b < n /\ c < n /\ e < n
  BY Halves, ValuesAre
<1>2. k \in {0, 1} /\ (k = 1 <=> a + b >= n) BY DEF Number
<1>3. low = a + b - n * k /\ low \in 0 .. n - 1
  <2>1. a + b \in Int /\ a + b >= 0 /\ a + b < 2 * n BY <1>1
  <2>2. /\ a + b < n => low = a + b
        /\ a + b >= n => low = a + b - n
    BY <1>1, <2>1, Wraps
  <2> HIDE DEF n, low, k
  <2>3. k = 0 => n * k = 0 BY <1>1
  <2>4. k = 1 => n * k = n BY <1>1
  <2> QED BY <1>1, <1>2, <2>2, <2>3, <2>4
<1>4. /\ e + k < n => m = e + k
      /\ e + k = n => m = 0
  <2>1. e + k \in Int /\ e + k >= 0 /\ e + k < 2 * n BY <1>1, <1>2
  <2> DEFINE w == e + k
  <2> HIDE DEF k, w
  <2>2. Wrap(z, w) = IF w >= n THEN w - n ELSE w
    <3>1. w \in Int /\ w >= 0 /\ w < 2 * n BY <2>1 DEF w
    <3> HIDE DEF n
    <3> QED BY <1>1, <3>1, Wraps DEF n
  <2>9. /\ e + k < n => m = e + k
        /\ e + k >= n => m = e + k - n
    <3>1. m = Wrap(z, w) /\ w = e + k BY DEF w
    <3> HIDE DEF n, m
    <3> QED BY <1>1, <1>2, <2>1, <2>2, <3>1
  <2> HIDE DEF n, m, k
  <2> QED BY <1>1, <1>2, <2>9
<1>5. Wrap(z, m + c) = q % n
  <2>1. e + k \in Int /\ c \in Int BY <1>1, <1>2
  <2>2. Wrap(z, m + c) = Wrap(z, (e + k) + c) BY <2>1, WrapTwice
  <2> QED BY <2>2 DEF Wrap
<1>6. x = q * n + low
  <2> HIDE DEF n, low, k
  <2>1. (e * n + a) + (c * n + b) = ((e + k) + c) * n + (a + b - n * k) BY <1>1, <1>2, Z3
  <2> QED BY <1>3, <2>1
<1> HIDE DEF n, k, m, low
<1>7. q \in Int BY <1>1, <1>2
<1> HIDE DEF q
<1>8. /\ (q * n + low) % (n * n) = (q % n) * n + low
      /\ q * n + low >= n * n <=> q >= n
  BY <1>1, <1>3, <1>7, TwoWords
<1> HIDE DEF x
<1>9. x >= n * n <=> q >= n BY <1>6, <1>8
<1>10. m + c >= n <=> q >= n /\ ~ (a + b >= n /\ e = n - 1) BY <1>1, <1>2, <1>4 DEF q
<1>11. Wrap(z, m + c) * n + low = x % (n * n) BY <1>5, <1>6, <1>8
<1>12. m + c >= n <=> x >= n * n /\ ~ (a + b >= n /\ e = n - 1) BY <1>9, <1>10
<1> QED BY <1>11, <1>12 DEF n, k, m, low, x, SumIs

DifferenceIs(z, a, b, c, e) ==
  LET n == N(z)
      k == Number(a < b)
      m == Wrap(z, e + (-k))
      x == e * n + a
      y == c * n + b
  IN /\ Wrap(z, m - c) * n + Wrap(z, a - b) = (x - y) % (n * n)
     /\ m < c <=> x < y /\ ~ (a < b /\ e = 0)

LEMMA LongDifference ==
  ASSUME NEW z \in Sizes, NEW a \in Values(z), NEW b \in Values(z),
         NEW c \in Values(z), NEW e \in Values(z)
  PROVE  DifferenceIs(z, a, b, c, e)
<1> DEFINE n == N(z)
           k == Number(a < b)
           m == Wrap(z, e + (-k))
           low == Wrap(z, a - b)
           q == (e + (-k)) + (-c)
           x == e * n + a
           y == c * n + b
<1>1. /\ n \in Nat \ {0} /\ a \in Nat /\ b \in Nat /\ c \in Nat /\ e \in Nat
      /\ a < n /\ b < n /\ c < n /\ e < n
  BY Halves, ValuesAre
<1>2. k \in {0, 1} /\ (k = 1 <=> a < b) BY DEF Number
<1>3. low = a - b + n * k /\ low \in 0 .. n - 1
  <2>1. a - b \in Int /\ a - b < n /\ a - b >= -n BY <1>1
  <2>2. /\ a - b >= 0 => low = a - b
        /\ a - b < 0 => low = a - b + n
    BY <1>1, <2>1, Wraps
  <2> HIDE DEF n, low, k
  <2>3. k = 0 => n * k = 0 BY <1>1
  <2>4. k = 1 => n * k = n BY <1>1
  <2> QED BY <1>1, <1>2, <2>2, <2>3, <2>4
<1>4. /\ e - k >= 0 => m = e - k
      /\ e - k < 0 => m = n - 1
  <2>1. e + (-k) \in Int /\ e + (-k) < n /\ e + (-k) >= -n BY <1>1, <1>2
  <2>2. /\ e + (-k) >= 0 => m = e + (-k)
        /\ e + (-k) < 0 => m = e + (-k) + n
    BY <1>1, <2>1, Wraps
  <2> HIDE DEF n, m, k
  <2> QED BY <1>1, <1>2, <2>2
<1>5. Wrap(z, m - c) = q % n
  <2>1. e + (-k) \in Int /\ -c \in Int BY <1>1, <1>2
  <2> DEFINE d == -c
             f == e + (-k)
  <2> HIDE DEF d, f
  <2>2. Wrap(z, Wrap(z, f) + d) = Wrap(z, f + d) BY <2>1, WrapTwice DEF d, f
  <2>3. m \in Int
    <3>1. m \in Values(z) BY <2>1, ValuesAre DEF f
    <3> HIDE DEF m
    <3> QED BY <3>1, ValuesAre
  <2>4. m - c = m + d
    <3> HIDE DEF m
    <3> QED BY <1>1, <2>3 DEF d
  <2> QED BY <2>2, <2>4 DEF Wrap, d, f
<1>6. x - y = q * n + low
  <2> HIDE DEF n, low, k
  <2>1. (e * n + a) - (c * n + b) = ((e + (-k)) + (-c)) * n + (a - b + n * k)
    BY <1>1, <1>2, Z3
  <2> QED BY <1>3, <2>1
<1>7. q \in Int BY <1>1, <1>2
<1>0. x \in Int /\ y \in Int BY <1>1
<1> HIDE DEF n, k, m, low, q
<1>8. /\ (q * n + low) % (n * n) = (q % n) * n + low
      /\ q * n + low < 0 <=> q < 0
  BY <1>1, <1>3, <1>7, TwoWords
<1> HIDE DEF x, y
<1>9. x < y <=> q < 0
  <2>1. x - y < 0 <=> q < 0 BY <1>6, <1>8
  <2> QED BY <1>0, <2>1, <1>7
<1>10. m < c <=> q < 0 /\ ~ (a < b /\ e = 0) BY <1>1, <1>2, <1>4 DEF q
<1>11. Wrap(z, m - c) * n + low = (x - y) % (n * n) BY <1>5, <1>6, <1>8
<1>12. m < c <=> x < y /\ ~ (a < b /\ e = 0) BY <1>9, <1>10
<1> QED BY <1>11, <1>12 DEF n, k, m, low, x, y, DifferenceIs

NegationIs(z, a, e) ==
  LET n == N(z)
      k == Number(a # 0)
  IN Wrap(z, -Wrap(z, e + k)) * n + Wrap(z, -a) = (-(e * n + a)) % (n * n)

LEMMA LongNegation ==
  ASSUME NEW z \in Sizes, NEW a \in Values(z), NEW e \in Values(z)
  PROVE  NegationIs(z, a, e)
<1> DEFINE n == N(z)
           k == Number(a # 0)
           m == Wrap(z, e + k)
           low == Wrap(z, -a)
           q == -(e + k)
           x == -(e * n + a)
<1>1. n \in Nat \ {0} /\ a \in Nat /\ e \in Nat /\ a < n /\ e < n BY Halves, ValuesAre
<1>2. k \in {0, 1} /\ (k = 1 <=> a # 0) BY DEF Number
<1>3. low = n * k - a /\ low \in 0 .. n - 1
  <2>1. -a \in Int /\ -a < n /\ -a >= -n BY <1>1
  <2>2. /\ -a >= 0 => low = -a
        /\ -a < 0 => low = -a + n
    BY <1>1, <2>1, Wraps
  <2> HIDE DEF n, low, k
  <2>3. k = 0 => n * k = 0 BY <1>1
  <2>4. k = 1 => n * k = n BY <1>1
  <2> QED BY <1>1, <1>2, <2>2, <2>3, <2>4
<1>4. /\ e + k < n => m = e + k
      /\ e + k = n => m = 0
  <2>1. e + k \in Int /\ e + k >= 0 /\ e + k < 2 * n BY <1>1, <1>2
  <2> DEFINE w == e + k
  <2> HIDE DEF k, w
  <2>2. Wrap(z, w) = IF w >= n THEN w - n ELSE w
    <3>1. w \in Int /\ w >= 0 /\ w < 2 * n BY <2>1 DEF w
    <3> HIDE DEF n
    <3> QED BY <1>1, <3>1, Wraps DEF n
  <2>9. /\ e + k < n => m = e + k
        /\ e + k >= n => m = e + k - n
    <3>1. m = Wrap(z, w) /\ w = e + k BY DEF w
    <3> HIDE DEF n, m
    <3> QED BY <1>1, <1>2, <2>1, <2>2, <3>1
  <2> HIDE DEF n, m, k
  <2> QED BY <1>1, <1>2, <2>9
<1>7. q \in Int /\ q <= 0 /\ q >= -n BY <1>1, <1>2
<1>5. Wrap(z, -m) = q % n
  <2>1. CASE e + k < n
    <3>1. -m = q BY <1>4, <2>1
    <3> QED BY <3>1 DEF Wrap
  <2>2. CASE e + k = n
    <3>1. m = 0 BY <1>4, <2>2
    <3>2. q = n * (-1) BY <1>1, <2>2
    <3>3. q % n = 0
      <4> DEFINE i == -1
      <4>1. i \in Int OBVIOUS
      <4> HIDE DEF i, n
      <4>2. (n * i) % n = 0 BY <1>1, <4>1, Multiple
      <4> QED BY <3>2, <4>2 DEF i
    <3>4. Wrap(z, 0) = 0
      <4> HIDE DEF n
      <4>1. 0 % n = 0 BY <1>1
      <4> QED BY <4>1 DEF Wrap, n
    <3>5. -m = 0 BY <3>1
    <3> QED BY <3>3, <3>4, <3>5
  <2> QED BY <1>1, <1>2, <2>1, <2>2
<1>6. x = q * n + low
  <2> HIDE DEF n, low, k
  <2>1. -(e * n + a) = (-(e + k)) * n + (n * k - a) BY <1>1, <1>2, Z3
  <2> QED BY <1>3, <2>1
<1> HIDE DEF n, k, m, low, q
<1>8. (q * n + low) % (n * n) = (q % n) * n + low BY <1>1, <1>3, <1>7, TwoWords
<1>9. Wrap(z, -m) * n + low = x % (n * n) BY <1>5, <1>6, <1>8
<1> QED BY <1>9 DEF n, k, m, low, NegationIs

DoublingIs(z, a, e) ==
  LET n == N(z)
      k == Number(a + a >= n)
      m == Wrap(z, e + k)
  IN Wrap(z, m + m) * n + Wrap(z, a + a)
       = (2 * (e * n + a) + High(z, 2 * a) * n) % (n * n)

LEMMA LongDoubling ==
  ASSUME NEW z \in Sizes, NEW a \in Values(z), NEW e \in Values(z)
  PROVE  DoublingIs(z, a, e)
<1> DEFINE n == N(z)
           k == Number(a + a >= n)
           m == Wrap(z, e + k)
           low == Wrap(z, a + a)
           q == 2 * (e + k)
           x == 2 * (e * n + a) + High(z, 2 * a) * n
<1>1. n \in Nat \ {0} /\ a \in Nat /\ e \in Nat /\ a < n /\ e < n /\ n >= 2
  BY Halves, ValuesAre
<1>2. k \in {0, 1} /\ (k = 1 <=> a + a >= n) BY DEF Number
<1>3. low = a + a - n * k /\ low \in 0 .. n - 1
  <2>1. a + a \in Int /\ a + a >= 0 /\ a + a < 2 * n BY <1>1
  <2>2. /\ a + a < n => low = a + a
        /\ a + a >= n => low = a + a - n
    BY <1>1, <2>1, Wraps
  <2> HIDE DEF n, low, k
  <2>3. k = 0 => n * k = 0 BY <1>1
  <2>4. k = 1 => n * k = n BY <1>1
  <2> QED BY <1>1, <1>2, <2>2, <2>3, <2>4
<1>4. High(z, 2 * a) = k
  <2> DEFINE w == 2 * a
  <2>1. w = n * k + low
    <3> HIDE DEF n, k, low
    <3>1. n * k \in Int BY <1>1, <1>2
    <3> QED BY <1>1, <1>3, <3>1
  <2>2. k \in Int /\ k \in 0 .. n - 1 BY <1>1, <1>2
  <2>3. w \div n = k
    <3> HIDE DEF n, k, low, w
    <3>1. (n * k + low) \div n = k BY <1>1, <1>3, <2>2, DivUnique
    <3> QED BY <2>1, <3>1
  <2>4. k % n = k
    <3> HIDE DEF n, k
    <3> QED BY <1>1, <2>2
  <2> QED BY <2>3, <2>4 DEF High
<1>5. Wrap(z, m + m) = q % n
  <2>1. e + k \in Int /\ e + k >= 0 /\ e + k < 2 * n BY <1>1, <1>2
  <2> DEFINE w == e + k
  <2> HIDE DEF k, w
  <2>2. Wrap(z, w) = IF w >= n THEN w - n ELSE w
    <3>1. w \in Int /\ w >= 0 /\ w < 2 * n BY <2>1 DEF w
    <3> HIDE DEF n
    <3> QED BY <1>1, <3>1, Wraps DEF n
  <2>9. /\ e + k < n => m = e + k
        /\ e + k >= n => m = e + k - n
    <3>1. m = Wrap(z, w) /\ w = e + k BY DEF w
    <3> HIDE DEF n, m
    <3> QED BY <1>1, <1>2, <2>1, <2>2, <3>1
  <2>3. CASE e + k < n
    <3>1. m + m = q BY <2>1, <2>9, <2>3
    <3> QED BY <3>1 DEF Wrap
  <2>4. CASE e + k >= n
    <3> DEFINE i == -2
    <3>1. m + m = q + n * i
      <4>1. m = e + k - n BY <2>9, <2>4
      <4> HIDE DEF m, n, k
      <4> QED BY <1>1, <1>2, <4>1
    <3>2. i \in Int /\ q \in Int BY <2>1
    <3>3. (q + n * i) % n = q % n
      <4> HIDE DEF i, n, q
      <4> QED BY <1>1, <3>2, DivAdd
    <3> QED BY <3>1, <3>3 DEF Wrap
  <2> QED BY <2>1, <1>1, <2>3, <2>4
<1>6. x = q * n + low
  <2> HIDE DEF n, low, k
  <2>1. 2 * (e * n + a) + k * n = (2 * (e + k)) * n + (a + a - n * k) BY <1>1, <1>2, Z3
  <2> QED BY <1>3, <1>4, <2>1
<1>7. q \in Int BY <1>1, <1>2
<1> HIDE DEF n, k, m, low, q
<1>8. (q * n + low) % (n * n) = (q % n) * n + low BY <1>1, <1>3, <1>7, TwoWords
<1>9. Wrap(z, m + m) * n + low = x % (n * n) BY <1>5, <1>6, <1>8
<1> QED BY <1>9 DEF n, k, m, low, DoublingIs

LEMMA IncDecCarry ==
  ASSUME NEW z \in Sizes, NEW a \in Int, NEW f \in FlagSet
  PROVE  Inc(z, a, f).flags.carry = f.carry /\ Dec(z, a, f).flags.carry = f.carry
<1>1. Fits(z, Add(z, a, 1, f)) /\ Fits(z, Sub(z, a, 1, f)) BY AddSubType
<1> DEFINE g == Add(z, a, 1, f).flags
           h == Sub(z, a, 1, f).flags
<1>2. g \in FlagSet /\ h \in FlagSet BY <1>1 DEF Fits
<1>3. Inc(z, a, f).flags = [g EXCEPT !.carry = f.carry] BY DEF Inc, Add, Outcome
<1>4. Dec(z, a, f).flags = [h EXCEPT !.carry = f.carry] BY DEF Dec, Sub, Outcome
<1> HIDE DEF g, h
<1>5. [g EXCEPT !.carry = f.carry].carry = f.carry BY <1>2 DEF FlagSet
<1>6. [h EXCEPT !.carry = f.carry].carry = f.carry BY <1>2 DEF FlagSet
<1> QED BY <1>3, <1>4, <1>5, <1>6

LEMMA NegIs ==
  ASSUME NEW z \in Sizes, NEW a \in Int, NEW f \in FlagSet
  PROVE  Neg(z, a, f).value = Wrap(z, -a) /\ Neg(z, a, f).flags.carry = (a # 0)
<1> DEFINE c == a # 0
           d == a = 0
           o == -Signed(z, a) \notin SignedValues(z)
<1>1. Neg(z, a, f) = Outcome(Wrap(z, -a), [f EXCEPT !.carry = c, !.zero = d, !.overflow = o])
  BY DEF Neg
<1> HIDE DEF c, d, o
<1> DEFINE g == [f EXCEPT !.carry = c, !.zero = d, !.overflow = o]
<1>2. g.carry = c BY DEF FlagSet
<1> HIDE DEF g
<1>3. Neg(z, a, f).value = Wrap(z, -a) /\ Neg(z, a, f).flags = g BY <1>1 DEF Outcome, g
<1> QED BY <1>2, <1>3 DEF c

(* The lower words are done with, and the carry is on its way to the upper *)
(* ones.                                                                   *)
Halfway(low, carry) ==
  /\ result = "Ok" /\ regs["acc"] = low /\ flags.carry = carry
  /\ \A x \in {"ext", "b", "c"} : regs[x] = given.regs[x]

SumInv ==
  given.name = "sum" =>
    \/ Started
    \/ /\ todo \in {Tail(given.code), Tail(Tail(given.code))}
       /\ LET a == given.regs["acc"]
              b == given.regs["b"]
          IN  Halfway(Wrap(s, a + b), a + b >= N(s))
    \/ todo = <<>> /\ LongArithmetic

DifferenceInv ==
  given.name = "difference" =>
    \/ Started
    \/ /\ todo \in {Tail(given.code), Tail(Tail(given.code))}
       /\ LET a == given.regs["acc"]
              b == given.regs["b"]
          IN  Halfway(Wrap(s, a - b), a < b)
    \/ todo = <<>> /\ LongArithmetic

NegationInv ==
  given.name = "negation" =>
    LET a == given.regs["acc"]
        e == given.regs["ext"]
    IN \/ Started
       \/ todo = Tail(given.code) /\ Halfway(Wrap(s, -a), a # 0)
       \/ /\ todo = Tail(Tail(given.code)) /\ result = "Ok"
          /\ regs["acc"] = Wrap(s, -a) /\ regs["ext"] = Wrap(s, e + Number(a # 0))
       \/ todo = <<>> /\ LongArithmetic

DoublingInv ==
  given.name = "doubling" =>
    LET a == given.regs["acc"]
    IN \/ Started
       \/ todo = Tail(given.code) /\ Halfway(Wrap(s, a + a), a + a >= N(s))
       \/ todo = <<>> /\ LongArithmetic

(* What a step does to what is left to do, and what it leaves alone.       *)
LEMMA Stepping ==
  ASSUME Next
  PROVE  /\ todo # <<>> /\ todo' = Tail(todo) /\ result = "Ok" /\ given' = given /\ s' = s
         /\ Started => todo = given.code
BY Executes DEF s, Started

LEMMA ThreeSteps ==
  ASSUME NEW i, NEW j, NEW k, given.code = <<i, j, k>>
  PROVE  /\ todo = given.code => Instruction = i
         /\ todo = Tail(given.code) => Instruction = j
         /\ todo = Tail(Tail(given.code)) => Instruction = k
         /\ Tail(Tail(Tail(given.code))) = <<>>
BY Sequences DEF Instruction

LEMMA TwoSteps ==
  ASSUME NEW i, NEW j, given.code = <<i, j>>
  PROVE  /\ todo = given.code => Instruction = i
         /\ todo = Tail(given.code) => Instruction = j
         /\ Tail(Tail(given.code)) = <<>>
BY Sequences DEF Instruction

LEMMA OneStep ==
  ASSUME NEW i, given.code = <<i>>
  PROVE  (todo = given.code => Instruction = i) /\ Tail(given.code) = <<>>
BY Sequences DEF Instruction

LEMMA SumStep ==
  ASSUME TypeInv, SumInv, Next
  PROVE  SumInv'
<1> SUFFICES ASSUME given.name = "sum" PROVE SumInv' BY Stepping DEF SumInv
<1> DEFINE a == given.regs["acc"]
           b == given.regs["b"]
           c == given.regs["c"]
           e == given.regs["ext"]
           low == Wrap(s, a + b)
           k == a + b >= N(s)
           first == Reg("add", "acc", "b")
           second == Imm("inc", "count", 0)
           third == Reg("adc", "ext", "c")
<1>1. given.code = <<first, second, third>> BY DEF TypeInv, GivenInv, Listed, SumCode
<1> HIDE DEF first, second, third
<1>2. /\ todo = given.code => Instruction = first
      /\ todo = Tail(given.code) => Instruction = second
      /\ todo = Tail(Tail(given.code)) => Instruction = third
      /\ Tail(Tail(Tail(given.code))) = <<>>
  BY <1>1, ThreeSteps
<1>3. {"acc", "ext", "b", "c", "count"} \subseteq Regs /\ s \in Sizes /\ flags \in FlagSet
      /\ a \in Values(s) /\ b \in Values(s) /\ c \in Values(s) /\ e \in Values(s)
  BY Known
<1>4. CASE Started
  <2>1. Instruction = Reg("add", "acc", "b") BY <1>2, <1>4, Stepping DEF first
  <2>2. Sets("acc", Add(s, a, b, flags)) BY <1>3, <1>4, <2>1, RegSets DEF Started
  <2>3. Add(s, a, b, flags).value = low BY DEF Add, Outcome
  <2>4. Add(s, a, b, flags).flags.carry = k BY <1>3, AddIs
  <2>5. Halfway(low, k)'
    <3> DEFINE o == Add(s, a, b, flags)
    <3> HIDE DEF o
    <3>1. regs = given.regs /\ result = "Ok" BY <1>4 DEF Started
    <3>2. Sets("acc", o) /\ o.value = low /\ o.flags.carry = k BY <2>2, <2>3, <2>4 DEF o
    <3> HIDE DEF low, k
    <3>3. (low' = low) /\ (k' = k) BY Stepping DEF low, k
    <3>4. /\ result' = "Ok" /\ regs'["acc"] = low /\ flags'.carry = k
          /\ \A x \in {"ext", "b", "c"} : regs'[x] = given.regs[x]
      BY <1>3, <3>1, <3>2 DEF Sets
    <3> QED BY <3>3, <3>4, Stepping DEF Halfway
  <2>6. todo' = Tail(given.code) BY <1>4, Stepping
  <2> QED BY <2>5, <2>6, Stepping DEF SumInv
<1>5. CASE todo = Tail(given.code) /\ Halfway(low, k)
  <2>1. Instruction = Imm("inc", "count", 0) BY <1>2, <1>5 DEF second
  <2> DEFINE o == Inc(s, regs["count"], flags)
  <2>2. Sets("count", o) BY <1>3, <2>1, ImmSets
  <2>3. o.flags.carry = flags.carry
    <3>1. regs["count"] \in Int BY Known
    <3> QED BY <1>3, <3>1, IncDecCarry
  <2>4. Halfway(low, k)'
    <3> HIDE DEF o, low, k
    <3>3. (low' = low) /\ (k' = k) BY Stepping DEF low, k
    <3>4. /\ result' = "Ok" /\ regs'["acc"] = low /\ flags'.carry = k
          /\ \A x \in {"ext", "b", "c"} : regs'[x] = given.regs[x]
      BY <1>3, <1>5, <2>2, <2>3 DEF Sets, Halfway
    <3> QED BY <3>3, <3>4, Stepping DEF Halfway
  <2>5. todo' = Tail(Tail(given.code)) BY <1>5, Stepping
  <2> QED BY <2>4, <2>5, Stepping DEF SumInv
<1>6. CASE todo = Tail(Tail(given.code)) /\ Halfway(low, k)
  <2>1. Instruction = Reg("adc", "ext", "c") BY <1>2, <1>6 DEF third
  <2>2. /\ regs["ext"] = e /\ regs["c"] = c /\ regs["acc"] = low /\ flags.carry = k
        /\ result = "Ok"
    BY <1>6 DEF Halfway
  <2> DEFINE m == Wrap(s, e + Number(k))
             o == Add(s, m, c, flags)
  <2>3. Sets("ext", o)
    <3>1. "c" # "ext" OBVIOUS
    <3> QED BY <1>3, <2>1, <2>2, <3>1, RegSets
  <2>4. o.value = Wrap(s, m + c) BY DEF Add, Outcome
  <2>5. m \in Values(s)
    <3>1. e + Number(k) \in Int BY Known DEF Number
    <3> QED BY <1>3, <3>1, ValuesAre
  <2>6. o.flags.carry = (m + c >= N(s))
    <3> HIDE DEF m
    <3> QED BY <1>3, <2>5, AddIs
  <2> DEFINE x == (e * N(s) + a) + (c * N(s) + b)
  <2>7. /\ Wrap(s, m + c) * N(s) + low = x % (N(s) * N(s))
        /\ m + c >= N(s) <=> x >= N(s) * N(s) /\ ~ (k /\ e = N(s) - 1)
    <3>1. SumIs(s, a, b, c, e) BY <1>3, LongSum
    <3> QED BY <3>1 DEF SumIs
  <2>8. regs'["ext"] = Wrap(s, m + c) /\ regs'["acc"] = low
        /\ flags'.carry = (m + c >= N(s))
    <3> HIDE DEF o, low
    <3> QED BY <1>3, <2>2, <2>3, <2>4, <2>6 DEF Sets
  <2>9. LongArithmetic'
    <3> HIDE DEF m, low
    <3>1. Final' = x % (N(s) * N(s)) BY <2>7, <2>8, Stepping DEF Final, Pair
    <3>2. flags'.carry <=> x >= N(s) * N(s) /\ ~ (k /\ e = N(s) - 1) BY <2>7, <2>8
    <3>3. (First + Second)' = x /\ Square' = N(s) * N(s)
      BY Stepping DEF First, Second, Pair, Square
    <3>4. /\ ~ Ended("difference")' /\ ~ Ended("negation")' /\ ~ Ended("doubling")'
      BY Stepping DEF Ended, Runs
    <3> HIDE DEF x
    <3>5. (Final = (First + Second) % Square)' BY <3>1, <3>3
    <3>6. (flags.carry <=> /\ First + Second >= Square
                           /\ ~ (/\ given.regs["acc"] + given.regs["b"] >= N(s)
                                 /\ given.regs["ext"] = N(s) - 1))'
      BY <3>2, <3>3, Stepping
    <3> QED BY <3>4, <3>5, <3>6 DEF LongArithmetic, SelfAdc
  <2>10. todo' = <<>> BY <1>2, <1>6, Stepping
  <2> QED BY <2>9, <2>10 DEF SumInv
<1>7. CASE todo = <<>> BY <1>7, Stepping
<1> QED BY <1>4, <1>5, <1>6, <1>7 DEF SumInv

LEMMA DifferenceStep ==
  ASSUME TypeInv, DifferenceInv, Next
  PROVE  DifferenceInv'
<1> SUFFICES ASSUME given.name = "difference" PROVE DifferenceInv' BY Stepping DEF DifferenceInv
<1> DEFINE a == given.regs["acc"]
           b == given.regs["b"]
           c == given.regs["c"]
           e == given.regs["ext"]
           low == Wrap(s, a - b)
           k == a < b
           first == Reg("sub", "acc", "b")
           second == Imm("dec", "count", 0)
           third == Reg("sbb", "ext", "c")
<1>1. given.code = <<first, second, third>> BY DEF TypeInv, GivenInv, Listed, DifferenceCode
<1> HIDE DEF first, second, third
<1>2. /\ todo = given.code => Instruction = first
      /\ todo = Tail(given.code) => Instruction = second
      /\ todo = Tail(Tail(given.code)) => Instruction = third
      /\ Tail(Tail(Tail(given.code))) = <<>>
  BY <1>1, ThreeSteps
<1>3. {"acc", "ext", "b", "c", "count"} \subseteq Regs /\ s \in Sizes /\ flags \in FlagSet
      /\ a \in Values(s) /\ b \in Values(s) /\ c \in Values(s) /\ e \in Values(s)
  BY Known
<1>4. CASE Started
  <2>1. Instruction = Reg("sub", "acc", "b") BY <1>2, <1>4, Stepping DEF first
  <2>2. Sets("acc", Sub(s, a, b, flags)) BY <1>3, <1>4, <2>1, RegSets DEF Started
  <2>3. Sub(s, a, b, flags).value = low BY DEF Sub, Outcome
  <2>4. Sub(s, a, b, flags).flags.carry = k BY <1>3, SubIs
  <2>5. Halfway(low, k)'
    <3> DEFINE o == Sub(s, a, b, flags)
    <3> HIDE DEF o
    <3>1. regs = given.regs /\ result = "Ok" BY <1>4 DEF Started
    <3>2. Sets("acc", o) /\ o.value = low /\ o.flags.carry = k BY <2>2, <2>3, <2>4 DEF o
    <3> HIDE DEF low, k
    <3>3. (low' = low) /\ (k' = k) BY Stepping DEF low, k
    <3>4. /\ result' = "Ok" /\ regs'["acc"] = low /\ flags'.carry = k
          /\ \A x \in {"ext", "b", "c"} : regs'[x] = given.regs[x]
      BY <1>3, <3>1, <3>2 DEF Sets
    <3> QED BY <3>3, <3>4, Stepping DEF Halfway
  <2>6. todo' = Tail(given.code) BY <1>4, Stepping
  <2> QED BY <2>5, <2>6, Stepping DEF DifferenceInv
<1>5. CASE todo = Tail(given.code) /\ Halfway(low, k)
  <2>1. Instruction = Imm("dec", "count", 0) BY <1>2, <1>5 DEF second
  <2> DEFINE o == Dec(s, regs["count"], flags)
  <2>2. Sets("count", o) BY <1>3, <2>1, ImmSets
  <2>3. o.flags.carry = flags.carry
    <3>1. regs["count"] \in Int BY Known
    <3> QED BY <1>3, <3>1, IncDecCarry
  <2>4. Halfway(low, k)'
    <3> HIDE DEF o, low, k
    <3>3. (low' = low) /\ (k' = k) BY Stepping DEF low, k
    <3>4. /\ result' = "Ok" /\ regs'["acc"] = low /\ flags'.carry = k
          /\ \A x \in {"ext", "b", "c"} : regs'[x] = given.regs[x]
      BY <1>3, <1>5, <2>2, <2>3 DEF Sets, Halfway
    <3> QED BY <3>3, <3>4, Stepping DEF Halfway
  <2>5. todo' = Tail(Tail(given.code)) BY <1>5, Stepping
  <2> QED BY <2>4, <2>5, Stepping DEF DifferenceInv
<1>6. CASE todo = Tail(Tail(given.code)) /\ Halfway(low, k)
  <2>1. Instruction = Reg("sbb", "ext", "c") BY <1>2, <1>6 DEF third
  <2>2. /\ regs["ext"] = e /\ regs["c"] = c /\ regs["acc"] = low /\ flags.carry = k
        /\ result = "Ok"
    BY <1>6 DEF Halfway
  <2> DEFINE m == Wrap(s, e + (-Number(k)))
             o == Sub(s, m, c, flags)
  <2>3. Sets("ext", o)
    <3>1. "c" # "ext" OBVIOUS
    <3> QED BY <1>3, <2>1, <2>2, <3>1, RegSets
  <2>4. o.value = Wrap(s, m - c) BY DEF Sub, Outcome
  <2>5. m \in Values(s)
    <3>1. e + (-Number(k)) \in Int BY Known DEF Number
    <3> QED BY <1>3, <3>1, ValuesAre
  <2>6. o.flags.carry = (m < c)
    <3> HIDE DEF m
    <3> QED BY <1>3, <2>5, SubIs
  <2> DEFINE x == e * N(s) + a
             y == c * N(s) + b
  <2>7. /\ Wrap(s, m - c) * N(s) + low = (x - y) % (N(s) * N(s))
        /\ m < c <=> x < y /\ ~ (k /\ e = 0)
    <3>1. DifferenceIs(s, a, b, c, e) BY <1>3, LongDifference
    <3> QED BY <3>1 DEF DifferenceIs
  <2>8. regs'["ext"] = Wrap(s, m - c) /\ regs'["acc"] = low
        /\ flags'.carry = (m < c)
    <3> HIDE DEF o, low
    <3> QED BY <1>3, <2>2, <2>3, <2>4, <2>6 DEF Sets
  <2>9. LongArithmetic'
    <3> HIDE DEF m, low
    <3>1. Final' = (x - y) % (N(s) * N(s)) BY <2>7, <2>8, Stepping DEF Final, Pair
    <3>2. flags'.carry <=> x < y /\ ~ (k /\ e = 0) BY <2>7, <2>8
    <3>3. First' = x /\ Second' = y /\ Square' = N(s) * N(s)
      BY Stepping DEF First, Second, Pair, Square
    <3>4. /\ ~ Ended("sum")' /\ ~ Ended("negation")' /\ ~ Ended("doubling")'
      BY Stepping DEF Ended, Runs
    <3> HIDE DEF x, y
    <3>5. (Final = (First - Second) % Square)' BY <3>1, <3>3
    <3>6. (flags.carry <=> /\ First < Second
                           /\ ~ (/\ given.regs["acc"] < given.regs["b"]
                                 /\ given.regs["ext"] = 0))'
      BY <3>2, <3>3, Stepping
    <3> QED BY <3>4, <3>5, <3>6 DEF LongArithmetic, SelfAdc
  <2>10. todo' = <<>> BY <1>2, <1>6, Stepping
  <2> QED BY <2>9, <2>10 DEF DifferenceInv
<1>7. CASE todo = <<>> BY <1>7, Stepping
<1> QED BY <1>4, <1>5, <1>6, <1>7 DEF DifferenceInv

LEMMA NegationStep ==
  ASSUME TypeInv, NegationInv, Next
  PROVE  NegationInv'
<1> SUFFICES ASSUME given.name = "negation" PROVE NegationInv' BY Stepping DEF NegationInv
<1> DEFINE a == given.regs["acc"]
           e == given.regs["ext"]
           low == Wrap(s, -a)
           k == a # 0
           m == Wrap(s, e + Number(k))
           first == Reg("neg", "acc", "b")
           second == Imm("adc", "ext", 0)
           third == Reg("neg", "ext", "b")
<1>1. given.code = <<first, second, third>> BY DEF TypeInv, GivenInv, Listed, NegationCode
<1> HIDE DEF first, second, third
<1>2. /\ todo = given.code => Instruction = first
      /\ todo = Tail(given.code) => Instruction = second
      /\ todo = Tail(Tail(given.code)) => Instruction = third
      /\ Tail(Tail(Tail(given.code))) = <<>>
  BY <1>1, ThreeSteps
<1>3. {"acc", "ext", "b", "c", "count"} \subseteq Regs /\ s \in Sizes /\ flags \in FlagSet
      /\ a \in Values(s) /\ e \in Values(s) /\ a \in Int /\ e \in Int
  BY Known
<1>4. CASE Started
  <2>1. Instruction = Reg("neg", "acc", "b") BY <1>2, <1>4, Stepping DEF first
  <2> DEFINE o == Neg(s, a, flags)
  <2>2. Sets("acc", o) BY <1>3, <1>4, <2>1, RegSets DEF Started
  <2>3. o.value = low /\ o.flags.carry = k BY <1>3, NegIs
  <2>5. Halfway(low, k)'
    <3> HIDE DEF o
    <3>1. regs = given.regs /\ result = "Ok" BY <1>4 DEF Started
    <3> HIDE DEF low, k
    <3>3. (low' = low) /\ (k' = k) BY Stepping DEF low, k
    <3>4. /\ result' = "Ok" /\ regs'["acc"] = low /\ flags'.carry = k
          /\ \A x \in {"ext", "b", "c"} : regs'[x] = given.regs[x]
      BY <1>3, <3>1, <2>2, <2>3 DEF Sets
    <3> QED BY <3>3, <3>4, Stepping DEF Halfway
  <2>6. todo' = Tail(given.code) BY <1>4, Stepping
  <2> QED BY <2>5, <2>6, Stepping DEF NegationInv
<1>5. CASE todo = Tail(given.code) /\ Halfway(low, k)
  <2>1. Instruction = Imm("adc", "ext", 0) BY <1>2, <1>5 DEF second
  <2>2. /\ regs["ext"] = e /\ regs["acc"] = low /\ flags.carry = k /\ result = "Ok"
    BY <1>5 DEF Halfway
  <2> DEFINE o == Add(s, m, 0, flags)
  <2>3. Sets("ext", o) BY <1>3, <2>1, <2>2, ImmSets
  <2>4. o.value = m
    <3>1. m \in Values(s)
      <4>1. e + Number(k) \in Int BY <1>3 DEF Number
      <4> QED BY <1>3, <4>1, ValuesAre
    <3> HIDE DEF m
    <3>2. m \in Nat /\ m < N(s) BY <1>3, <3>1, ValuesAre
    <3>3. m + 0 = m /\ m \in Int /\ m >= 0 BY <3>2
    <3>4. Wrap(s, m) = m BY <1>3, <3>2, <3>3, Wraps
    <3> QED BY <3>3, <3>4 DEF Add, Outcome
  <2>5. regs'["ext"] = m /\ regs'["acc"] = low /\ result' = "Ok"
    <3> HIDE DEF o, low, m
    <3> QED BY <1>3, <2>2, <2>3, <2>4 DEF Sets
  <2>6. todo' = Tail(Tail(given.code)) BY <1>5, Stepping
  <2> QED BY <2>5, <2>6, Stepping DEF NegationInv
<1>6. CASE /\ todo = Tail(Tail(given.code)) /\ result = "Ok"
           /\ regs["acc"] = low /\ regs["ext"] = m
  <2>1. Instruction = Reg("neg", "ext", "b") BY <1>2, <1>6 DEF third
  <2> DEFINE o == Neg(s, m, flags)
  <2>2. Sets("ext", o) BY <1>3, <1>6, <2>1, RegSets
  <2>3. o.value = Wrap(s, -m) BY DEF Neg, Outcome
  <2>4. regs'["ext"] = Wrap(s, -m) /\ regs'["acc"] = low
    <3> HIDE DEF o, low, m
    <3> QED BY <1>3, <1>6, <2>2, <2>3 DEF Sets
  <2>5. NegationIs(s, a, e) BY <1>3, LongNegation
  <2>6. LongArithmetic'
    <3>1. Final' = (-(e * N(s) + a)) % (N(s) * N(s))
      BY <2>4, <2>5, Stepping DEF Final, Pair, NegationIs
    <3>2. First' = e * N(s) + a /\ Square' = N(s) * N(s)
      BY Stepping DEF First, Pair, Square
    <3>3. /\ ~ Ended("difference")' /\ ~ Ended("sum")' /\ ~ Ended("doubling")'
      BY Stepping DEF Ended, Runs
    <3>4. (Final = (-First) % Square)' BY <3>1, <3>2
    <3> QED BY <3>3, <3>4 DEF LongArithmetic, SelfAdc
  <2>7. todo' = <<>> BY <1>2, <1>6, Stepping
  <2> QED BY <2>6, <2>7 DEF NegationInv
<1>7. CASE todo = <<>> BY <1>7, Stepping
<1> QED BY <1>4, <1>5, <1>6, <1>7 DEF NegationInv

LEMMA DoublingStep ==
  ASSUME TypeInv, DoublingInv, Next
  PROVE  DoublingInv'
<1> SUFFICES ASSUME given.name = "doubling" PROVE DoublingInv' BY Stepping DEF DoublingInv
<1> DEFINE a == given.regs["acc"]
           e == given.regs["ext"]
           low == Wrap(s, a + a)
           k == a + a >= N(s)
           m == Wrap(s, e + Number(k))
           first == Reg("add", "acc", "acc")
           second == Reg("adc", "ext", "ext")
<1>1. given.code = <<first, second>> BY DEF TypeInv, GivenInv, Listed, DoublingCode
<1> HIDE DEF first, second
<1>2. /\ todo = given.code => Instruction = first
      /\ todo = Tail(given.code) => Instruction = second
      /\ Tail(Tail(given.code)) = <<>>
  BY <1>1, TwoSteps
<1>3. {"acc", "ext", "b", "c", "count"} \subseteq Regs /\ s \in Sizes /\ flags \in FlagSet
      /\ a \in Values(s) /\ e \in Values(s) /\ a \in Int /\ e \in Int
  BY Known
<1>4. CASE Started
  <2>1. Instruction = Reg("add", "acc", "acc") BY <1>2, <1>4, Stepping DEF first
  <2> DEFINE o == Add(s, a, a, flags)
  <2>2. Sets("acc", o) BY <1>3, <1>4, <2>1, RegSets DEF Started
  <2>3. o.value = low BY DEF Add, Outcome
  <2>4. o.flags.carry = k BY <1>3, AddIs
  <2>5. Halfway(low, k)'
    <3> HIDE DEF o
    <3>1. regs = given.regs /\ result = "Ok" BY <1>4 DEF Started
    <3> HIDE DEF low, k
    <3>3. (low' = low) /\ (k' = k) BY Stepping DEF low, k
    <3>4. /\ result' = "Ok" /\ regs'["acc"] = low /\ flags'.carry = k
          /\ \A x \in {"ext", "b", "c"} : regs'[x] = given.regs[x]
      BY <1>3, <3>1, <2>2, <2>3, <2>4 DEF Sets
    <3> QED BY <3>3, <3>4, Stepping DEF Halfway
  <2>6. todo' = Tail(given.code) BY <1>4, Stepping
  <2> QED BY <2>5, <2>6, Stepping DEF DoublingInv
<1>5. CASE todo = Tail(given.code) /\ Halfway(low, k)
  <2>1. Instruction = Reg("adc", "ext", "ext") BY <1>2, <1>5 DEF second
  <2>2. /\ regs["ext"] = e /\ regs["acc"] = low /\ flags.carry = k /\ result = "Ok"
    BY <1>5 DEF Halfway
  <2> DEFINE o == Add(s, m, m, flags)
  <2>3. Sets("ext", o) BY <1>3, <2>1, <2>2, RegSets
  <2>4. o.value = Wrap(s, m + m) BY DEF Add, Outcome
  <2>5. regs'["ext"] = Wrap(s, m + m) /\ regs'["acc"] = low
    <3> HIDE DEF o, low, m
    <3> QED BY <1>3, <2>2, <2>3, <2>4 DEF Sets
  <2>6. DoublingIs(s, a, e) BY <1>3, LongDoubling
  <2>7. LongArithmetic'
    <3> DEFINE h == High(s, 2 * a)
    <3> HIDE DEF h
    <3>1. Final' = (2 * (e * N(s) + a) + h * N(s)) % (N(s) * N(s))
      BY <2>5, <2>6, Stepping DEF Final, Pair, DoublingIs, h
    <3>2. First' = e * N(s) + a /\ Square' = N(s) * N(s)
      BY Stepping DEF First, Pair, Square
    <3>3. /\ ~ Ended("difference")' /\ ~ Ended("sum")' /\ ~ Ended("negation")'
      BY Stepping DEF Ended, Runs
    <3>4. High(s, 2 * given.regs["acc"])' = h BY Stepping DEF High, h
    <3>5. SelfAdc' BY <3>1, <3>2, <3>4, Stepping DEF SelfAdc
    <3> QED BY <3>3, <3>5 DEF LongArithmetic
  <2>8. todo' = <<>> BY <1>2, <1>5, Stepping
  <2> QED BY <2>7, <2>8 DEF DoublingInv
<1>6. CASE todo = <<>> BY <1>6, Stepping
<1> QED BY <1>4, <1>5, <1>6 DEF DoublingInv

(* The properties say nothing of a program that has not ended.             *)
LEMMA NothingYet ==
  ASSUME todo # <<>>
  PROVE  LongArithmetic
BY DEF LongArithmetic, SelfAdc, Ended, Runs

LEMMA LongCodes ==
  /\ SumCode # <<>> /\ Tail(SumCode) # <<>> /\ Tail(Tail(SumCode)) # <<>>
  /\ DifferenceCode # <<>> /\ Tail(DifferenceCode) # <<>> /\ Tail(Tail(DifferenceCode)) # <<>>
  /\ NegationCode # <<>> /\ Tail(NegationCode) # <<>> /\ Tail(Tail(NegationCode)) # <<>>
  /\ DoublingCode # <<>> /\ Tail(DoublingCode) # <<>>
<1>1. \A i, j, k : /\ <<i, j, k>> # <<>> /\ Tail(<<i, j, k>>) # <<>>
                  /\ Tail(Tail(<<i, j, k>>)) # <<>>
  BY Sequences
<1>2. \A i, j : <<i, j>> # <<>> /\ Tail(<<i, j>>) # <<>> BY Sequences
<1> QED BY <1>1, <1>2, Zenon DEF SumCode, DifferenceCode, NegationCode, DoublingCode

(* Sums, differences, negatives and doubles of numbers of two words are    *)
(* what they should be, to the carry that they leave: the carry gets from  *)
(* the lower words to the upper ones, past an inc or a dec.                *)
THEOREM LongNumbers == Spec => []LongArithmetic
<1> DEFINE Inv == TypeInv /\ SumInv /\ DifferenceInv /\ NegationInv /\ DoublingInv
<1>1. Init => Inv
  BY TypeStart, Begins DEF SumInv, DifferenceInv, NegationInv, DoublingInv
<1>2. Inv /\ [Next]_vars => Inv'
  <2> SUFFICES ASSUME Inv, [Next]_vars PROVE Inv' OBVIOUS
  <2>1. TypeInv' BY TypeKept
  <2>2. CASE Next BY <2>1, <2>2, SumStep, DifferenceStep, NegationStep, DoublingStep
  <2>3. CASE UNCHANGED vars
    <3>1. Started' = Started /\ LongArithmetic' = LongArithmetic /\ todo' = todo
          /\ given' = given /\ regs' = regs /\ flags' = flags /\ result' = result /\ s' = s
      BY <2>3 DEF vars, s, Started, LongArithmetic, SelfAdc, Ended, Runs, Final, First,
                  Second, Pair, Square, High
    <3> QED BY <2>1, <3>1 DEF SumInv, DifferenceInv, NegationInv, DoublingInv, Halfway
  <2> QED BY <2>2, <2>3
<1>3. Inv => LongArithmetic
  <2> SUFFICES ASSUME Inv PROVE LongArithmetic OBVIOUS
  <2>1. CASE given.name = "sum"
    <3>1. given.code = SumCode BY <2>1 DEF TypeInv, GivenInv, Listed
    <3>2. given.code # <<>> /\ Tail(given.code) # <<>> /\ Tail(Tail(given.code)) # <<>>
      BY <3>1, LongCodes
    <3>3. todo # <<>> \/ LongArithmetic BY <2>1, <3>2 DEF SumInv, Started
    <3> QED BY <3>3, NothingYet
  <2>2. CASE given.name = "difference"
    <3>1. given.code = DifferenceCode BY <2>2 DEF TypeInv, GivenInv, Listed
    <3>2. given.code # <<>> /\ Tail(given.code) # <<>> /\ Tail(Tail(given.code)) # <<>>
      BY <3>1, LongCodes
    <3>3. todo # <<>> \/ LongArithmetic BY <2>2, <3>2 DEF DifferenceInv, Started
    <3> QED BY <3>3, NothingYet
  <2>3. CASE given.name = "negation"
    <3>1. given.code = NegationCode BY <2>3 DEF TypeInv, GivenInv, Listed
    <3>2. given.code # <<>> /\ Tail(given.code) # <<>> /\ Tail(Tail(given.code)) # <<>>
      BY <3>1, LongCodes
    <3>3. todo # <<>> \/ LongArithmetic BY <2>3, <3>2 DEF NegationInv, Started
    <3> QED BY <3>3, NothingYet
  <2>4. CASE given.name = "doubling"
    <3>1. given.code = DoublingCode BY <2>4 DEF TypeInv, GivenInv, Listed
    <3>2. given.code # <<>> /\ Tail(given.code) # <<>> BY <3>1, LongCodes
    <3>3. todo # <<>> \/ LongArithmetic BY <2>4, <3>2 DEF DoublingInv, Started
    <3> QED BY <3>3, NothingYet
  <2>5. CASE given.name \notin {"sum", "difference", "negation", "doubling"}
    BY <2>5 DEF LongArithmetic, SelfAdc, Ended, Runs
  <2> QED BY <2>1, <2>2, <2>3, <2>4, <2>5
<1> QED BY <1>1, <1>2, <1>3, PTL DEF Spec

-----------------------------------------------------------------------------
(* Exchanges                                                               *)

LEMMA LogicBits ==
  ASSUME NEW z \in Sizes, NEW a \in Values(z), NEW b \in Values(z), NEW f
  PROVE  LET A == BitsOf(z, a)
             B == BitsOf(z, b)
         IN /\ BitsOf(z, And(z, a, b, f).value) = A \intersect B
            /\ BitsOf(z, Or(z, a, b, f).value) = A \union B
            /\ BitsOf(z, Xor(z, a, b, f).value) = (A \union B) \ (A \intersect B)
            /\ BitsOf(z, Not(z, a, f).value) = (0 .. Top(z)) \ A
<1> DEFINE A == BitsOf(z, a)
           B == BitsOf(z, b)
<1>1. A \in SUBSET (0 .. Top(z)) /\ B \in SUBSET (0 .. Top(z)) BY DEF BitsOf
<1>2. /\ And(z, a, b, f).value = FromBits(z, A \intersect B)
      /\ Or(z, a, b, f).value = FromBits(z, A \union B)
      /\ Xor(z, a, b, f).value = FromBits(z, (A \union B) \ (A \intersect B))
      /\ Not(z, a, f).value = N(z) - 1 - a
  BY DEF And, Or, Xor, Not, Logical, Outcome
<1> HIDE DEF A, B
<1>3. /\ BitsOf(z, FromBits(z, A \intersect B)) = A \intersect B
      /\ BitsOf(z, FromBits(z, A \union B)) = A \union B
      /\ BitsOf(z, FromBits(z, (A \union B) \ (A \intersect B)))
           = (A \union B) \ (A \intersect B)
  BY <1>1, FromBitsIs
<1>4. BitsOf(z, N(z) - 1 - a) = (0 .. Top(z)) \ A BY Complement DEF A
<1> QED BY <1>2, <1>3, <1>4 DEF A, B

LEMMA XaddSets ==
  ASSUME TypeInv, Next, Instruction = Reg("xadd", "acc", "b")
  PROVE  /\ regs'["acc"] = Wrap(s, regs["b"] + regs["acc"]) /\ regs'["b"] = regs["acc"]
         /\ result' = result
<1>1. Instruction.op = "xadd" /\ Instruction.dst = "acc" /\ Instruction.src = "b" BY DEF Reg
<1>2. ExecXadd BY <1>1, Executes
<1> DEFINE m == [regs EXCEPT !["acc"] = regs["b"], !["b"] = regs["acc"]]
           o == Add(s, m["acc"], m["b"], flags)
<1>3. regs' = [m EXCEPT !["acc"] = o.value] /\ result' = result BY <1>1, <1>2 DEF ExecXadd
<1>4. regs \in [Regs -> Values(s)] /\ "acc" \in Regs /\ "b" \in Regs BY Known
<1>5. m["acc"] = regs["b"] /\ m["b"] = regs["acc"] /\ DOMAIN m = Regs BY <1>4
<1>6. o.value = Wrap(s, regs["b"] + regs["acc"]) BY <1>5 DEF Add, Outcome
<1> HIDE DEF m, o
<1> QED BY <1>3, <1>4, <1>5, <1>6

LEMMA CmpxchgSets ==
  ASSUME TypeInv, Next, Instruction = Reg("cmpxchg", "b", "c")
  PROVE  /\ regs["acc"] = regs["b"] => regs'["b"] = regs["c"]
         /\ regs["acc"] # regs["b"] => regs'["acc"] = regs["b"] /\ regs'["b"] = regs["b"]
         /\ regs'["c"] = regs["c"] /\ result' = result
<1>1. /\ Instruction.op = "cmpxchg" /\ Instruction.dst = "b" /\ Instruction.src = "c"
      /\ Destination = regs["b"]
  BY RegIs DEF Reg
<1>2. ExecCmpxchg BY <1>1, Executes
<1> DEFINE f == Sub(s, regs["acc"], regs["b"], flags).flags
<1>3. /\ regs' = IF f.zero THEN [regs EXCEPT !["b"] = regs["c"]]
                 ELSE [regs EXCEPT !["acc"] = regs["b"]]
      /\ result' = result
  BY <1>1, <1>2 DEF ExecCmpxchg
<1>4. f.zero = (regs["acc"] = regs["b"]) BY Known, SubIs
<1>5. regs \in [Regs -> Values(s)] /\ {"acc", "b", "c"} \subseteq Regs BY Known
<1> HIDE DEF f
<1> QED BY <1>3, <1>4, <1>5

(* The bits that differ between the two registers go to the one, then that *)
(* one's to the other; or the sum of the two and the first of them do.     *)
SwapInv ==
  given.name = "swap" =>
    LET a == given.regs["acc"]
        b == given.regs["b"]
        A == BitsOf(s, a)
        B == BitsOf(s, b)
        D == (A \union B) \ (A \intersect B)
    IN \/ Started
       \/ /\ given.code = XorSwapCode /\ todo = Tail(given.code)
          /\ BitsOf(s, regs["acc"]) = D /\ regs["b"] = b
       \/ /\ given.code = XorSwapCode /\ todo = Tail(Tail(given.code))
          /\ BitsOf(s, regs["acc"]) = D /\ regs["b"] = a
       \/ /\ given.code = XaddSwapCode /\ todo = Tail(given.code)
          /\ regs["acc"] = Wrap(s, b + a) /\ regs["b"] = a
       \/ todo = <<>> /\ Exchange

(* After the first attempt either the new number is stored, or what is     *)
(* stored is known.                                                        *)
RetryInv ==
  given.name = "retry" =>
    \/ Started
    \/ /\ todo = Tail(given.code) /\ regs["c"] = given.regs["c"]
       /\ regs["b"] = given.regs["c"] \/ regs["b"] = regs["acc"]
    \/ todo = <<>> /\ Exchange

DeMorganInv ==
  given.name = "de_morgan" =>
    LET a == given.regs["acc"]
        b == given.regs["b"]
        A == BitsOf(s, a)
        B == BitsOf(s, b)
        U == 0 .. Top(s)
        Others == regs["ext"] = a /\ regs["c"] = b
    IN \/ Started
       \/ /\ todo = Tail(given.code) /\ Others
          /\ BitsOf(s, regs["acc"]) = U \ A /\ regs["b"] = b
       \/ /\ todo = Tail(Tail(given.code)) /\ Others
          /\ BitsOf(s, regs["acc"]) = U \ A /\ BitsOf(s, regs["b"]) = U \ B
       \/ /\ todo = Tail(Tail(Tail(given.code))) /\ Others
          /\ BitsOf(s, regs["acc"]) = (U \ A) \intersect (U \ B)
       \/ /\ todo = Tail(Tail(Tail(Tail(given.code)))) /\ Others
          /\ BitsOf(s, regs["acc"]) = U \ ((U \ A) \intersect (U \ B))
       \/ todo = <<>> /\ Exchange

LEMMA XorSwapStep ==
  ASSUME TypeInv, SwapInv, Next, TypeInv', given.name = "swap", given.code = XorSwapCode
  PROVE  SwapInv'
<1> DEFINE a == given.regs["acc"]
           b == given.regs["b"]
           A == BitsOf(s, a)
           B == BitsOf(s, b)
           D == (A \union B) \ (A \intersect B)
           x == regs["acc"]
           y == regs["b"]
           X == BitsOf(s, x)
           Y == BitsOf(s, y)
           first == Reg("xor", "acc", "b")
           second == Reg("xor", "b", "acc")
<1>1. given.code = <<first, second, first>> BY DEF XorSwapCode
<1> HIDE DEF first, second
<1>2. /\ todo = given.code => Instruction = first
      /\ todo = Tail(given.code) => Instruction = second
      /\ todo = Tail(Tail(given.code)) => Instruction = first
      /\ Tail(Tail(Tail(given.code))) = <<>>
  BY <1>1, ThreeSteps
<1>3. /\ "acc" \in Regs /\ "b" \in Regs /\ s \in Sizes /\ a \in Values(s) /\ b \in Values(s)
      /\ x \in Values(s) /\ y \in Values(s) /\ regs'["acc"] \in Values(s)
      /\ regs'["b"] \in Values(s)
  <2>1. regs'["acc"] \in Values(s') /\ regs'["b"] \in Values(s')
    BY DEF TypeInv, TypeOK, Regs
  <2> QED BY <2>1, Known, Stepping
<1>4. ASSUME Instruction = first
      PROVE  BitsOf(s, regs'["acc"]) = (X \union Y) \ (X \intersect Y) /\ regs'["b"] = y
  <2> DEFINE o == Xor(s, x, y, flags)
  <2>1. Sets("acc", o) BY <1>3, <1>4, RegSets DEF first
  <2>2. BitsOf(s, o.value) = (X \union Y) \ (X \intersect Y) BY <1>3, LogicBits
  <2> HIDE DEF o
  <2> QED BY <1>3, <2>1, <2>2 DEF Sets
<1>5. ASSUME Instruction = second
      PROVE  BitsOf(s, regs'["b"]) = (Y \union X) \ (Y \intersect X) /\ regs'["acc"] = x
  <2> DEFINE o == Xor(s, y, x, flags)
  <2>1. Sets("b", o) BY <1>3, <1>5, RegSets DEF second
  <2>2. BitsOf(s, o.value) = (Y \union X) \ (Y \intersect X) BY <1>3, LogicBits
  <2> HIDE DEF o
  <2> QED BY <1>3, <2>1, <2>2 DEF Sets
<1>6. CASE Started
  <2>1. Instruction = first /\ X = A /\ Y = B /\ y = b BY <1>2, <1>6 DEF Started
  <2>2. BitsOf(s, regs'["acc"]) = D /\ regs'["b"] = b
    <3> HIDE DEF A, B, X, Y, b, y
    <3> QED BY <1>4, <2>1
  <2>3. todo' = Tail(given.code) BY <1>6, Stepping
  <2> QED BY <2>2, <2>3, Stepping DEF SwapInv
<1>7. CASE todo = Tail(given.code) /\ X = D /\ y = b
  <2>1. Instruction = second /\ Y = B BY <1>2, <1>7
  <2>2. BitsOf(s, regs'["b"]) = A
    <3> HIDE DEF A, B, X, Y
    <3>1. (Y \union X) \ (Y \intersect X) = A BY <1>7, <2>1
    <3> QED BY <1>5, <2>1, <3>1
  <2>3. regs'["b"] = a BY <1>3, <2>2, SameBits
  <2>4. BitsOf(s, regs'["acc"]) = D BY <1>5, <1>7, <2>1
  <2>5. todo' = Tail(Tail(given.code)) BY <1>7, Stepping
  <2> QED BY <2>3, <2>4, <2>5, Stepping DEF SwapInv
<1>8. CASE todo = Tail(Tail(given.code)) /\ X = D /\ y = a
  <2>1. Instruction = first /\ Y = A BY <1>2, <1>8
  <2>2. BitsOf(s, regs'["acc"]) = B
    <3> HIDE DEF A, B, X, Y
    <3>1. (X \union Y) \ (X \intersect Y) = B BY <1>8, <2>1
    <3> QED BY <1>4, <2>1, <3>1
  <2>3. regs'["acc"] = b BY <1>3, <2>2, SameBits
  <2>4. regs'["b"] = a BY <1>4, <1>8, <2>1
  <2>5. Exchange' BY <2>3, <2>4, Stepping DEF Exchange, Ended, Runs
  <2>6. todo' = <<>> BY <1>2, <1>8, Stepping
  <2> QED BY <2>5, <2>6 DEF SwapInv
<1>9. XorSwapCode # XaddSwapCode
  <2> DEFINE third == Reg("xadd", "acc", "b")
  <2>1. first # third BY DEF first, Reg
  <2>2. XaddSwapCode = <<third, Reg("sub", "acc", "b")>> BY DEF XaddSwapCode
  <2> HIDE DEF third
  <2>3. Head(XaddSwapCode) = third /\ Head(XorSwapCode) = first
    BY <1>1, <2>2, Sequences
  <2> QED BY <2>1, <2>3
<1>10. CASE todo = <<>> BY <1>10, Stepping
<1> QED BY <1>6, <1>7, <1>8, <1>9, <1>10 DEF SwapInv

LEMMA XaddSwapStep ==
  ASSUME TypeInv, SwapInv, Next, given.name = "swap", given.code = XaddSwapCode
  PROVE  SwapInv'
<1> DEFINE a == given.regs["acc"]
           b == given.regs["b"]
           first == Reg("xadd", "acc", "b")
           second == Reg("sub", "acc", "b")
<1>1. given.code = <<first, second>> BY DEF XaddSwapCode
<1> HIDE DEF first, second
<1>2. /\ todo = given.code => Instruction = first
      /\ todo = Tail(given.code) => Instruction = second
      /\ Tail(Tail(given.code)) = <<>>
  BY <1>1, TwoSteps
<1>3. /\ "acc" \in Regs /\ "b" \in Regs /\ s \in Sizes /\ b \in Values(s)
      /\ a \in Int /\ b \in Int
  BY Known
<1>4. CASE Started
  <2>1. Instruction = Reg("xadd", "acc", "b") /\ regs["acc"] = a /\ regs["b"] = b
    BY <1>2, <1>4 DEF Started, first
  <2>2. regs'["acc"] = Wrap(s, b + a) /\ regs'["b"] = a BY <2>1, XaddSets
  <2>3. todo' = Tail(given.code) BY <1>4, Stepping
  <2> QED BY <2>2, <2>3, Stepping DEF SwapInv
<1>5. CASE todo = Tail(given.code) /\ regs["acc"] = Wrap(s, b + a) /\ regs["b"] = a
  <2>1. Instruction = Reg("sub", "acc", "b") BY <1>2, <1>5 DEF second
  <2> DEFINE o == Sub(s, regs["acc"], regs["b"], flags)
  <2>2. Sets("acc", o) BY <1>3, <2>1, RegSets
  <2>3. o.value = Wrap(s, Wrap(s, b + a) - a) BY <1>5 DEF Sub, Outcome
  <2>4. Wrap(s, Wrap(s, b + a) - a) = b
    <3> DEFINE w == Wrap(s, b + a)
               d == -a
               x == b + a
    <3>1. x \in Int /\ d \in Int BY <1>3
    <3>2. w \in Int
      <4>1. w \in Values(s) BY <1>3, <3>1, ValuesAre
      <4> HIDE DEF w
      <4> QED BY <1>3, <4>1, ValuesAre
    <3>3. w - a = w + d
      <4> HIDE DEF w
      <4> QED BY <1>3, <3>2
    <3>4. Wrap(s, w + d) = Wrap(s, x + d)
      <4> HIDE DEF x, d
      <4> QED BY <1>3, <3>1, WrapTwice DEF x
    <3>5. x + d = b BY <1>3
    <3>6. Wrap(s, b) = b BY <1>3, Wraps, ValuesAre
    <3> QED BY <3>3, <3>4, <3>5, <3>6
  <2>5. regs'["acc"] = b /\ regs'["b"] = a
    <3> HIDE DEF o
    <3> QED BY <1>3, <1>5, <2>2, <2>3, <2>4 DEF Sets
  <2>6. Exchange' BY <2>5, Stepping DEF Exchange, Ended, Runs
  <2>7. todo' = <<>> BY <1>2, <1>5, Stepping
  <2> QED BY <2>6, <2>7 DEF SwapInv
<1>6. XorSwapCode # XaddSwapCode
  <2> DEFINE third == Reg("xor", "acc", "b")
             fourth == Reg("xor", "b", "acc")
  <2>1. first # third BY DEF first, Reg
  <2>2. XorSwapCode = <<third, fourth, third>> BY DEF XorSwapCode
  <2> HIDE DEF third, fourth
  <2>3. Head(XorSwapCode) = third /\ Head(XaddSwapCode) = first
    BY <1>1, <2>2, Sequences
  <2> QED BY <2>1, <2>3
<1>7. CASE todo = <<>> BY <1>7, Stepping
<1> QED BY <1>4, <1>5, <1>6, <1>7 DEF SwapInv

LEMMA RetryStep ==
  ASSUME TypeInv, RetryInv, Next
  PROVE  RetryInv'
<1> SUFFICES ASSUME given.name = "retry" PROVE RetryInv' BY Stepping DEF RetryInv
<1> DEFINE c == given.regs["c"]
           first == Reg("cmpxchg", "b", "c")
<1>1. given.code = <<first, first>> BY DEF TypeInv, GivenInv, Listed, RetryCode
<1> HIDE DEF first
<1>2. /\ todo = given.code => Instruction = first
      /\ todo = Tail(given.code) => Instruction = first
      /\ Tail(Tail(given.code)) = <<>>
  BY <1>1, TwoSteps
<1>3. CASE Started
  <2>1. Instruction = Reg("cmpxchg", "b", "c") /\ regs["c"] = c
    BY <1>2, <1>3 DEF Started, first
  <2>2. regs'["c"] = c /\ (regs'["b"] = c \/ regs'["b"] = regs'["acc"])
    BY <2>1, CmpxchgSets
  <2>3. todo' = Tail(given.code) BY <1>3, Stepping
  <2> QED BY <2>2, <2>3, Stepping DEF RetryInv
<1>4. CASE /\ todo = Tail(given.code) /\ regs["c"] = c
           /\ regs["b"] = c \/ regs["b"] = regs["acc"]
  <2>1. Instruction = Reg("cmpxchg", "b", "c") BY <1>2, <1>4 DEF first
  <2>2. regs'["b"] = c BY <1>4, <2>1, CmpxchgSets
  <2>3. Exchange' BY <2>2, Stepping DEF Exchange, Ended, Runs
  <2>4. todo' = <<>> BY <1>2, <1>4, Stepping
  <2> QED BY <2>3, <2>4 DEF RetryInv
<1>5. CASE todo = <<>> BY <1>5, Stepping
<1> QED BY <1>3, <1>4, <1>5 DEF RetryInv

LEMMA FiveSteps ==
  ASSUME NEW i, NEW j, NEW k, NEW l, NEW m, given.code = <<i, j, k, l, m>>
  PROVE  /\ todo = given.code => Instruction = i
         /\ todo = Tail(given.code) => Instruction = j
         /\ todo = Tail(Tail(given.code)) => Instruction = k
         /\ todo = Tail(Tail(Tail(given.code))) => Instruction = l
         /\ todo = Tail(Tail(Tail(Tail(given.code)))) => Instruction = m
         /\ Tail(Tail(Tail(Tail(Tail(given.code))))) = <<>>
BY Sequences DEF Instruction

LEMMA DeMorganStep ==
  ASSUME TypeInv, DeMorganInv, Next, TypeInv'
  PROVE  DeMorganInv'
<1> SUFFICES ASSUME given.name = "de_morgan" PROVE DeMorganInv'
  BY Stepping DEF DeMorganInv
<1> DEFINE a == given.regs["acc"]
           b == given.regs["b"]
           A == BitsOf(s, a)
           B == BitsOf(s, b)
           U == 0 .. Top(s)
           Others == regs["ext"] = a /\ regs["c"] = b
           x == regs["acc"]
           y == regs["b"]
           X == BitsOf(s, x)
           Y == BitsOf(s, y)
           i == Reg("not", "acc", "b")
           j == Reg("not", "b", "b")
           k == Reg("and", "acc", "b")
           m == Reg("or", "ext", "c")
<1>1. given.code = <<i, j, k, i, m>> BY DEF TypeInv, GivenInv, Listed, DeMorganCode
<1> HIDE DEF i, j, k, m
<1>2. /\ todo = given.code => Instruction = i
      /\ todo = Tail(given.code) => Instruction = j
      /\ todo = Tail(Tail(given.code)) => Instruction = k
      /\ todo = Tail(Tail(Tail(given.code))) => Instruction = i
      /\ todo = Tail(Tail(Tail(Tail(given.code)))) => Instruction = m
      /\ Tail(Tail(Tail(Tail(Tail(given.code))))) = <<>>
  BY <1>1, FiveSteps
<1>3. /\ {"acc", "b", "c", "ext"} \subseteq Regs /\ s \in Sizes
      /\ a \in Values(s) /\ b \in Values(s) /\ x \in Values(s) /\ y \in Values(s)
      /\ regs'["acc"] \in Values(s) /\ regs'["ext"] \in Values(s)
  <2>1. regs'["acc"] \in Values(s') /\ regs'["ext"] \in Values(s')
    BY DEF TypeInv, TypeOK, Regs
  <2> QED BY <2>1, Known, Stepping
<1>4. given.regs["ext"] = a /\ given.regs["c"] = b BY DEF TypeInv, GivenInv, Prepared
<1>5. ASSUME Instruction = i, Others
      PROVE  BitsOf(s, regs'["acc"]) = U \ X /\ regs'["b"] = y /\ Others'
  <2> DEFINE o == Not(s, x, flags)
  <2>1. Sets("acc", o) BY <1>3, <1>5, RegSets DEF i
  <2>2. BitsOf(s, o.value) = U \ X BY <1>3, LogicBits
  <2> HIDE DEF o
  <2>3. regs'["ext"] = a /\ regs'["c"] = b BY <1>3, <1>5, <2>1 DEF Sets
  <2> QED BY <1>3, <2>1, <2>2, <2>3, Stepping DEF Sets
<1>6. CASE Started
  <2>1. Instruction = i /\ X = A /\ Y = B /\ y = b /\ Others BY <1>2, <1>4, <1>6 DEF Started
  <2>2. BitsOf(s, regs'["acc"]) = U \ A /\ regs'["b"] = b /\ Others' BY <1>5, <2>1
  <2>3. todo' = Tail(given.code) BY <1>6, Stepping
  <2> QED BY <2>2, <2>3, Stepping DEF DeMorganInv
<1>7. CASE todo = Tail(given.code) /\ Others /\ X = U \ A /\ y = b
  <2>1. Instruction = j BY <1>2, <1>7
  <2> DEFINE o == Not(s, y, flags)
  <2>2. Sets("b", o) BY <1>3, <2>1, RegSets DEF j
  <2>3. BitsOf(s, o.value) = U \ B BY <1>3, <1>7, LogicBits
  <2> HIDE DEF o
  <2>4. /\ regs'["acc"] = x /\ BitsOf(s, regs'["b"]) = U \ B
        /\ regs'["ext"] = a /\ regs'["c"] = b
    BY <1>3, <1>7, <2>2, <2>3 DEF Sets
  <2>5. todo' = Tail(Tail(given.code)) BY <1>7, Stepping
  <2> QED BY <1>7, <2>4, <2>5, Stepping DEF DeMorganInv
<1>8. CASE todo = Tail(Tail(given.code)) /\ Others /\ X = U \ A /\ Y = U \ B
  <2>1. Instruction = k BY <1>2, <1>8
  <2> DEFINE o == And(s, x, y, flags)
  <2>2. Sets("acc", o) BY <1>3, <2>1, RegSets DEF k
  <2>3. BitsOf(s, o.value) = (U \ A) \intersect (U \ B) BY <1>3, <1>8, LogicBits
  <2> HIDE DEF o
  <2>4. /\ BitsOf(s, regs'["acc"]) = (U \ A) \intersect (U \ B)
        /\ regs'["ext"] = a /\ regs'["c"] = b
    BY <1>3, <1>8, <2>2, <2>3 DEF Sets
  <2>5. todo' = Tail(Tail(Tail(given.code))) BY <1>8, Stepping
  <2> QED BY <2>4, <2>5, Stepping DEF DeMorganInv
<1>9. CASE /\ todo = Tail(Tail(Tail(given.code))) /\ Others
           /\ X = (U \ A) \intersect (U \ B)
  <2>1. Instruction = i BY <1>2, <1>9
  <2>2. BitsOf(s, regs'["acc"]) = U \ ((U \ A) \intersect (U \ B)) /\ Others'
    BY <1>5, <1>9, <2>1
  <2>3. todo' = Tail(Tail(Tail(Tail(given.code)))) BY <1>9, Stepping
  <2> QED BY <2>2, <2>3, Stepping DEF DeMorganInv
<1>10. CASE /\ todo = Tail(Tail(Tail(Tail(given.code)))) /\ Others
            /\ X = U \ ((U \ A) \intersect (U \ B))
  <2>1. Instruction = m BY <1>2, <1>10
  <2> DEFINE o == Or(s, a, b, flags)
  <2>2. Sets("ext", o) BY <1>3, <1>10, <2>1, RegSets DEF m
  <2>3. BitsOf(s, o.value) = A \union B BY <1>3, LogicBits
  <2> HIDE DEF o
  <2>4. BitsOf(s, regs'["ext"]) = A \union B /\ regs'["acc"] = x
    BY <1>3, <2>2, <2>3 DEF Sets
  <2>5. BitsOf(s, regs'["acc"]) = BitsOf(s, regs'["ext"])
    <3>1. A \subseteq U /\ B \subseteq U BY DEF BitsOf
    <3> HIDE DEF A, B, U, X
    <3>2. U \ ((U \ A) \intersect (U \ B)) = A \union B BY <3>1
    <3> QED BY <1>10, <2>4, <3>2 DEF X
  <2>6. regs'["acc"] = regs'["ext"] BY <1>3, <2>5, SameBits
  <2>7. Exchange' BY <2>6, Stepping DEF Exchange, Ended, Runs
  <2>8. todo' = <<>> BY <1>2, <1>10, Stepping
  <2> QED BY <2>7, <2>8 DEF DeMorganInv
<1>11. CASE todo = <<>> BY <1>11, Stepping
<1> QED BY <1>6, <1>7, <1>8, <1>9, <1>10, <1>11 DEF DeMorganInv

LEMMA ExchangeCodes ==
  /\ XorSwapCode # <<>> /\ Tail(XorSwapCode) # <<>> /\ Tail(Tail(XorSwapCode)) # <<>>
  /\ XaddSwapCode # <<>> /\ Tail(XaddSwapCode) # <<>>
  /\ RetryCode # <<>> /\ Tail(RetryCode) # <<>>
  /\ DeMorganCode # <<>> /\ Tail(DeMorganCode) # <<>> /\ Tail(Tail(DeMorganCode)) # <<>>
  /\ Tail(Tail(Tail(DeMorganCode))) # <<>> /\ Tail(Tail(Tail(Tail(DeMorganCode)))) # <<>>
<1>1. \A i, j, k : /\ <<i, j, k>> # <<>> /\ Tail(<<i, j, k>>) # <<>>
                  /\ Tail(Tail(<<i, j, k>>)) # <<>>
  BY Sequences
<1>2. \A i, j : <<i, j>> # <<>> /\ Tail(<<i, j>>) # <<>> BY Sequences
<1>3. \A i, j, k, l, m :
         /\ <<i, j, k, l, m>> # <<>> /\ Tail(<<i, j, k, l, m>>) # <<>>
         /\ Tail(Tail(<<i, j, k, l, m>>)) # <<>>
         /\ Tail(Tail(Tail(<<i, j, k, l, m>>))) # <<>>
         /\ Tail(Tail(Tail(Tail(<<i, j, k, l, m>>)))) # <<>>
  <2> TAKE i, j, k, l, m
  <2>1. Tail(<<i, j, k, l, m>>) = <<j, k, l, m>> BY Sequences
  <2>2. Tail(<<j, k, l, m>>) = <<k, l, m>> BY Sequences
  <2>3. <<i, j, k, l, m>> # <<>> /\ <<j, k, l, m>> # <<>> BY Sequences
  <2> QED BY <1>1, <2>1, <2>2, <2>3
<1> QED BY <1>1, <1>2, <1>3, Zenon DEF XorSwapCode, XaddSwapCode, RetryCode, DeMorganCode

(* Two registers are exchanged by way of xor and by way of xadd; what a    *)
(* failed cmpxchg has read lets the next one succeed; and, or and not      *)
(* agree.                                                                  *)
THEOREM Exchanges == Spec => []Exchange
<1> DEFINE Inv == TypeInv /\ SwapInv /\ RetryInv /\ DeMorganInv
<1>1. Init => Inv BY TypeStart, Begins DEF SwapInv, RetryInv, DeMorganInv
<1>2. Inv /\ [Next]_vars => Inv'
  <2> SUFFICES ASSUME Inv, [Next]_vars PROVE Inv' OBVIOUS
  <2>1. TypeInv' BY TypeKept
  <2>2. CASE Next
    <3>1. RetryInv' /\ DeMorganInv' BY <2>1, <2>2, RetryStep, DeMorganStep
    <3>2. SwapInv'
      <4>1. CASE given.name = "swap"
        <5>1. given.code \in {XorSwapCode, XaddSwapCode}
          BY <4>1 DEF TypeInv, GivenInv, Listed
        <5> QED BY <2>1, <2>2, <4>1, <5>1, XorSwapStep, XaddSwapStep
      <4>2. CASE given.name # "swap" BY <2>2, <4>2, Stepping DEF SwapInv
      <4> QED BY <4>1, <4>2
    <3> QED BY <2>1, <3>1, <3>2
  <2>3. CASE UNCHANGED vars
    <3>1. Started' = Started /\ Exchange' = Exchange /\ todo' = todo
          /\ given' = given /\ regs' = regs /\ s' = s
      BY <2>3 DEF vars, s, Started, Exchange, Ended, Runs
    <3> QED BY <2>1, <3>1 DEF SwapInv, RetryInv, DeMorganInv
  <2> QED BY <2>2, <2>3
<1>3. Inv => Exchange
  <2> SUFFICES ASSUME Inv, todo = <<>> PROVE Exchange BY DEF Exchange, Ended, Runs
  <2>1. CASE given.name = "swap"
    <3>1. given.code \in {XorSwapCode, XaddSwapCode}
      BY <2>1 DEF TypeInv, GivenInv, Listed
    <3> QED BY <2>1, <3>1, ExchangeCodes DEF SwapInv, Started
  <2>2. CASE given.name = "retry"
    <3>1. given.code = RetryCode BY <2>2 DEF TypeInv, GivenInv, Listed
    <3> QED BY <2>2, <3>1, ExchangeCodes DEF RetryInv, Started
  <2>3. CASE given.name = "de_morgan"
    <3>1. given.code = DeMorganCode BY <2>3 DEF TypeInv, GivenInv, Listed
    <3> QED BY <2>3, <3>1, ExchangeCodes DEF DeMorganInv, Started
  <2>4. CASE given.name \notin {"swap", "retry", "de_morgan"}
    BY <2>4 DEF Exchange, Ended, Runs
  <2> QED BY <2>1, <2>2, <2>3, <2>4
<1> QED BY <1>1, <1>2, <1>3, PTL DEF Spec

-----------------------------------------------------------------------------
(* Products and quotients                                                  *)

(* Two words together.                                                     *)
PairIs(z, high, low) ==
  LET x == high * N(z) + low
  IN  /\ x \in Nat /\ x < N(z) * N(z) /\ x \div N(z) = high /\ x % N(z) = low
      /\ (x < N(z) <=> high = 0)

LEMMA Pairs ==
  ASSUME NEW z \in Sizes, NEW high \in Values(z), NEW low \in Values(z)
  PROVE  PairIs(z, high, low)
<1> DEFINE n == N(z)
           x == high * n + low
<1>1. n \in Nat \ {0} /\ high \in Nat /\ low \in Nat /\ high < n /\ low < n
  BY Halves, ValuesAre
<1> HIDE DEF n
<1>2. low \in 0 .. n - 1 /\ high \in Int BY <1>1
<1>3. x < n * n
  <2>1. ~ (high >= n) /\ n * n \in Int /\ x \in Int BY <1>1
  <2>2. high * n + low >= n * n <=> high >= n BY <1>1, <1>2, TwoWords
  <2> HIDE DEF x
  <2>3. n * n \in Int BY <1>1
  <2> QED BY <2>1, <2>2, <2>3 DEF x
<1>4. x = n * high + low BY <1>1
<1>5. (n * high + low) \div n = high /\ (n * high + low) % n = low BY <1>1, <1>2, DivUnique
<1>6. high * n \in Nat BY <1>1
<1>7. x < n <=> high = 0
  <2>1. CASE high = 0 BY <1>1, <2>1
  <2>2. CASE high # 0
    <3>1. n * 1 <= n * high
      <4>1. 1 \in Int /\ 1 <= high BY <1>1, <2>2
      <4> QED BY <1>1, <1>2, <4>1, ProductOrder
    <3>2. n * high = high * n /\ n * 1 = n BY <1>1
    <3> QED BY <1>1, <1>6, <2>2, <3>1, <3>2
  <2> QED BY <2>1, <2>2
<1>8. x \in Nat BY <1>1, <1>6
<1>9. x \div n = high /\ x % n = low BY <1>4, <1>5, Zenon
<1> QED BY <1>3, <1>7, <1>8, <1>9, Zenon DEF PairIs, n

(* What a product leaves in two words.                                     *)
LEMMA ProductIs ==
  ASSUME NEW z \in Sizes, NEW x \in Int, NEW f \in FlagSet
  PROVE  LET p == Product(z, x, f)
         IN  /\ p.high * N(z) + p.low = x % (N(z) * N(z))
             /\ p.low = Wrap(z, x) /\ p.high = High(z, x)
             /\ p.flags.carry = (High(z, x) > 0)
<1> DEFINE n == N(z)
           d == x \div n
           l == x % n
           c == High(z, x) > 0
           p == Product(z, x, f)
           g == [f EXCEPT !.carry = c, !.overflow = c]
<1>1. n \in Nat \ {0} BY Halves
<1>2. d \in Int /\ l \in 0 .. n - 1 /\ x = n * d + l
  <2> HIDE DEF n
  <2> QED BY <1>1, DivMod
<1>3. p.high = d % n /\ p.low = l /\ p.high = High(z, x) BY DEF Product, High
<1>4. p.flags = g BY DEF Product
<1>5. g.carry = c
  <2>1. c \in BOOLEAN OBVIOUS
  <2> HIDE DEF c
  <2> QED BY <2>1 DEF FlagSet
<1> HIDE DEF n, d, l, p
<1>6. (d * n + l) % (n * n) = (d % n) * n + l BY <1>1, <1>2, TwoWords
<1>7. x = d * n + l BY <1>1, <1>2
<1> QED BY <1>3, <1>4, <1>5, <1>6, <1>7 DEF n, l, p, Wrap

DivisionIs(z, high, low, b, d) ==
  LET x == high * N(z) + low
  IN  /\ (d.result = "Ok") <=> (b # 0 /\ x < N(z) * b)
      /\ d.result = "Ok" => d.quotient * b + d.remainder = x /\ d.remainder < b
      /\ d.result = "Ok" \/ d.result = "DivideByZero"

LEMMA DivIs ==
  ASSUME NEW z \in Sizes, NEW high \in Values(z), NEW low \in Values(z), NEW b \in Values(z)
  PROVE  DivisionIs(z, high, low, b, Div(z, high, low, b))
<1> DEFINE n == N(z)
           x == high * n + low
           d == Div(z, high, low, b)
           q == x \div b
           r == x % b
<1>1. n \in Nat \ {0} /\ b \in Nat /\ b < n /\ x \in Nat BY Halves, ValuesAre, Pairs DEF PairIs
<1>2. d = Divided(z, x, b) BY DEF Div
<1>3. CASE b = 0
  <2>1. d.result = "DivideByZero" BY <1>2, <1>3 DEF Divided
  <2> QED BY <1>3, <2>1 DEF DivisionIs
<1>4. CASE b # 0
  <2>1. q \in Int /\ r \in 0 .. b - 1 /\ x = b * q + r
    <3> HIDE DEF x
    <3>1. x \in Int /\ b \in Nat \ {0} BY <1>1, <1>4
    <3> QED BY <3>1, DivMod
  <2>2. q \in 0 .. x
    <3> HIDE DEF x
    <3> QED BY <1>1, <1>4, QuotientBelow
  <2>3. Quotient(x, b) = q
    <3>1. Magnitude(x) = x /\ Magnitude(b) = b
      <4> HIDE DEF x
      <4> QED BY <1>1 DEF Magnitude
    <3>2. ~ (x < 0) /\ ~ (b < 0)
      <4> HIDE DEF x
      <4> QED BY <1>1
    <3> HIDE DEF x
    <3> QED BY <3>1, <3>2 DEF Quotient
  <2> HIDE DEF n, x, q, r
  <2>4. q < n <=> x < n * b
    <3>1. b \in Nat \ {0} /\ q \in Int /\ n \in Int /\ n - 1 \in Int BY <1>1, <1>4, <2>1
    <3>2. CASE q < n
      <4>1. q <= n - 1 BY <3>1, <3>2
      <4>2. b * q <= b * (n - 1) BY <3>1, <4>1, ProductOrder
      <4>3. b * (n - 1) = n * b - b BY <1>1, Z3
      <4>4. b * q \in Int /\ n * b \in Int BY <3>1
      <4> QED BY <1>1, <2>1, <3>2, <4>2, <4>3, <4>4
    <3>3. CASE q >= n
      <4>1. b * n <= b * q BY <3>1, <3>3, ProductOrder
      <4>2. b * n = n * b /\ b * q \in Int /\ n * b \in Int BY <1>1, <3>1
      <4> QED BY <1>1, <2>1, <3>1, <3>3, <4>1, <4>2
    <3> QED BY <3>1, <3>2, <3>3
  <2>5. q > n - 1 <=> ~ (q < n) BY <1>1, <2>1
  <2>6. d = IF q > n - 1 THEN [result |-> "DivideByZero"]
            ELSE [result |-> "Ok", quotient |-> Wrap(z, q), remainder |-> Wrap(z, x - b * q)]
    BY <1>2, <1>4, <2>3 DEF Divided, Remainder, n
  <2>7. CASE q < n
    <3>1. x - b * q = r
      <4>1. b * q \in Int BY <1>1, <2>1
      <4> QED BY <1>1, <2>1, <4>1
    <3>2. q \in Int /\ q >= 0 /\ r \in Int /\ r >= 0 /\ r < n BY <1>1, <2>1, <2>2
    <3>3. Wrap(z, q) = q /\ Wrap(z, r) = r BY <2>7, <3>2, Wraps DEF n
    <3>4. d.result = "Ok" /\ d.quotient = q /\ d.remainder = r
      BY <2>5, <2>6, <2>7, <3>1, <3>3
    <3>5. q * b + r = x /\ r < b BY <1>1, <2>1
    <3> QED BY <1>4, <2>4, <2>7, <3>4, <3>5 DEF DivisionIs, x, n
  <2>8. CASE ~ (q < n)
    <3>1. d.result = "DivideByZero" BY <2>5, <2>6, <2>8
    <3> QED BY <1>4, <2>4, <2>8, <3>1 DEF DivisionIs, x, n
  <2> QED BY <2>7, <2>8
<1> QED BY <1>3, <1>4

(* A division takes a multiplication back.                                 *)
LEMMA TakenBack ==
  ASSUME NEW n \in Nat \ {0}, NEW a \in Nat, a < n, NEW b \in Nat
  PROVE  /\ a * b \in Nat
         /\ b # 0 => a * b < n * b
         /\ \A q \in Nat, r \in Nat : r < b /\ q * b + r = a * b => q = a /\ r = 0
<1>1. a * b \in Nat /\ a * b = b * a /\ n * b = b * n /\ a \in Int /\ n \in Int OBVIOUS
<1>2. ASSUME b # 0 PROVE a * b < n * b
  <2>1. b \in Nat \ {0} BY <1>2
  <2>2. b * a < b * n BY <1>1, <2>1, ProductOrder
  <2> QED BY <1>1, <2>2
<1>3. ASSUME NEW q \in Nat, NEW r \in Nat, r < b, q * b + r = a * b
      PROVE  q = a /\ r = 0
  <2>1. b \in Nat \ {0} /\ r \in 0 .. b - 1 /\ q \in Int /\ 0 \in 0 .. b - 1 BY <1>3
  <2>2. (b * q + r) \div b = q /\ (b * q + r) % b = r BY <2>1, DivUnique
  <2>3. (b * a) \div b = a /\ (b * a) % b = 0 BY <1>1, <2>1, Multiple
  <2>4. b * q + r = b * a
    <3>1. b * q = q * b BY <1>3
    <3> QED BY <1>1, <1>3, <3>1
  <2> QED BY <2>2, <2>3, <2>4, Zenon
<1> QED BY <1>1, <1>2, <1>3

(* A product that is below the square of the word.                         *)
LEMMA MulIs ==
  ASSUME NEW z \in Sizes, NEW a \in Values(z), NEW b \in Values(z), NEW f \in FlagSet
  PROVE  /\ Mul(z, a, b, f).high * N(z) + Mul(z, a, b, f).low = a * b
         /\ Mul(z, a, b, f).flags.carry = (a * b >= N(z))
<1> DEFINE n == N(z)
           x == a * b
           p == Mul(z, a, b, f)
           h == p.high
           l == p.low
<1>1. n \in Nat \ {0} /\ a \in Nat /\ a < n /\ b \in Nat /\ b < n BY Halves, ValuesAre
<1>2. x \in Nat /\ x < n * n
  <2>1. CASE b = 0 BY <1>1, <2>1, Z3
  <2>2. CASE b # 0
    <3> HIDE DEF n
    <3>1. a * b \in Nat /\ a * b < n * b BY <1>1, <2>2, TakenBack
    <3>2. n * b < n * n BY <1>1, ProductOrder
    <3>3. n * b \in Int /\ n * n \in Int BY <1>1
    <3> QED BY <3>1, <3>2, <3>3
  <2> QED BY <2>1, <2>2
<1>3. /\ h * n + l = x % (n * n) /\ h = High(z, x) /\ p.flags.carry = (High(z, x) > 0)
      /\ h \in Values(z) /\ l \in Values(z)
  <2>1. x \in Int BY <1>2
  <2> HIDE DEF x
  <2>2. p = Product(z, x, f) BY DEF Mul, x
  <2> QED BY <2>1, <2>2, ProductIs, ProductType DEF FitsPair
<1> HIDE DEF x, p
<1>4. x % (n * n) = x
  <2> DEFINE m == n * n
  <2>1. m \in Nat \ {0} BY <1>1, Z3
  <2> HIDE DEF m
  <2>2. x % m = x BY <1>2, <2>1 DEF m
  <2> QED BY <2>2 DEF m
<1>5. h \in Nat /\ (h * n + l < n <=> h = 0)
  <2>1. PairIs(z, h, l) BY <1>3, Pairs
  <2> QED BY <1>3, <2>1, ValuesAre DEF PairIs
<1> HIDE DEF h, n
<1>6. h > 0 <=> x >= n BY <1>1, <1>2, <1>3, <1>4, <1>5
<1>7. p.flags.carry = (x >= n) BY <1>3, <1>6
<1> QED BY <1>3, <1>4, <1>7 DEF x, p, h, l, n

(* Rust's quotient, and a remainder that is smaller than the divisor.      *)
LEMMA QuotientIs ==
  ASSUME NEW x \in Int, NEW y \in Int, y # 0
  PROVE  /\ Quotient(x, y) \in Int /\ Remainder(x, y) \in Int
         /\ Quotient(x, y) * y + Remainder(x, y) = x
         /\ Magnitude(Remainder(x, y)) < Magnitude(y)
         /\ y = -1 => Quotient(x, y) = -x
<1> DEFINE m == Magnitude(x)
           k == Magnitude(y)
           d == m \div k
           e == m % k
           q == Quotient(x, y)
<1>1. m \in Nat /\ k \in Nat \ {0} BY DEF Magnitude
<1>2. d \in Int /\ e \in 0 .. k - 1 /\ m = k * d + e
  <2> HIDE DEF m, k
  <2> QED BY <1>1, DivMod
<1>3. q = IF (x < 0) # (y < 0) THEN -d ELSE d BY DEF Quotient
<1>4. /\ x < 0 => x = -m
      /\ ~ (x < 0) => x = m
      /\ y < 0 => y = -k
      /\ ~ (y < 0) => y = k
  BY DEF Magnitude
<1> HIDE DEF m, k, d, e, q
<1>5. q \in Int BY <1>2, <1>3
<1>6. y * q \in Int /\ q * y = y * q /\ k * d \in Int BY <1>1, <1>2, <1>5
<1> DEFINE r == x - y * q
<1>7. r = e \/ r = -e
  <2>1. CASE ~ (x < 0) /\ ~ (y < 0)
    <3>1. q = d /\ y = k /\ x = m BY <1>3, <1>4, <2>1
    <3> QED BY <1>1, <1>2, <1>6, <3>1
  <2>2. CASE x < 0 /\ ~ (y < 0)
    <3>1. q = -d /\ y = k /\ x = -m BY <1>3, <1>4, <2>2
    <3>2. k * (-d) = -(k * d) BY <1>1, <1>2, Z3
    <3> QED BY <1>1, <1>2, <1>6, <3>1, <3>2
  <2>3. CASE ~ (x < 0) /\ y < 0
    <3>1. q = -d /\ y = -k /\ x = m BY <1>3, <1>4, <2>3
    <3>2. (-k) * (-d) = k * d BY <1>1, <1>2, Z3
    <3> QED BY <1>1, <1>2, <1>6, <3>1, <3>2
  <2>4. CASE x < 0 /\ y < 0
    <3>1. q = d /\ y = -k /\ x = -m BY <1>3, <1>4, <2>4
    <3>2. (-k) * d = -(k * d) BY <1>1, <1>2, Z3
    <3> QED BY <1>1, <1>2, <1>6, <3>1, <3>2
  <2> QED BY <2>1, <2>2, <2>3, <2>4
<1>8. Remainder(x, y) = r BY DEF Remainder, q
<1>9. r \in Int /\ q * y + r = x BY <1>6
<1> HIDE DEF r
<1>10. Magnitude(r) < k BY <1>1, <1>2, <1>7, <1>9 DEF Magnitude
<1>11. ASSUME y = -1 PROVE q = -x
  <2>1. k = 1 BY <1>1, <1>4, <1>11
  <2>2. e = 0 BY <1>2, <2>1
  <2>3. r = 0 BY <1>2, <1>7, <2>2
  <2>4. q * (-1) = -q BY <1>5
  <2> QED BY <1>5, <1>9, <1>11, <2>3, <2>4
<1> QED BY <1>5, <1>8, <1>9, <1>10, <1>11 DEF q, k

(* Signed numbers of two words.                                            *)
SignedOf(z, x) ==
  IF x >= (N(z) * N(z)) \div 2 THEN x - N(z) * N(z) ELSE x

LEMMA Squares ==
  ASSUME NEW z \in Sizes
  PROVE  /\ N(z) * N(z) = 4 * (Half(z) * Half(z))
         /\ (N(z) * N(z)) \div 2 = 2 * (Half(z) * Half(z))
         /\ Half(z) * Half(z) \in Nat /\ Half(z) * Half(z) >= Half(z)
<1> DEFINE h == Half(z)
           n == N(z)
           k == h * h
           m == 2 * k
<1>1. h \in Nat \ {0} /\ n = 2 * h BY Halves
<1> HIDE DEF h, n
<1>2. n * n = 4 * k BY <1>1, Z3
<1>3. k \in Nat BY <1>1
<1>4. k >= h
  <2>1. h * 1 <= h * h
    <3>1. 1 \in Int /\ h \in Int /\ 1 <= h BY <1>1
    <3> QED BY <1>1, <3>1, ProductOrder
  <2> QED BY <1>1, <2>1
<1> HIDE DEF k
<1>5. m \in Int /\ n * n = 2 * m BY <1>2, <1>3
<1> HIDE DEF m
<1>6. (2 * m) \div 2 = m
  <2>1. 2 \in Nat \ {0} OBVIOUS
  <2> QED BY <1>5, <2>1, Multiple
<1>7. (n * n) \div 2 = m BY <1>5, <1>6, Zenon
<1> QED BY <1>2, <1>3, <1>4, <1>7 DEF h, n, k, m

LEMMA SignedOfIs ==
  ASSUME NEW z \in Sizes, NEW v
  PROVE  /\ v >= 2 * (Half(z) * Half(z)) => SignedOf(z, v) = v - 4 * (Half(z) * Half(z))
         /\ ~ (v >= 2 * (Half(z) * Half(z))) => SignedOf(z, v) = v
<1> DEFINE i == N(z) * N(z)
           j == i \div 2
           k == Half(z) * Half(z)
<1>1. SignedOf(z, v) = IF v >= j THEN v - i ELSE v BY DEF SignedOf
<1>2. i = 4 * k /\ j = 2 * k BY Squares
<1> HIDE DEF i, j, k
<1> QED BY <1>1, <1>2 DEF k

LEMMA SignedPairIs ==
  ASSUME NEW z \in Sizes, NEW high \in Values(z), NEW low \in Values(z)
  PROVE  SignedOf(z, high * N(z) + low) = Signed(z, high) * N(z) + low
<1> DEFINE h == Half(z)
           n == N(z)
           k == h * h
           x == high * n
<1>1. /\ h \in Nat \ {0} /\ n = 2 * h /\ n \in Nat \ {0} /\ n \div 2 = h
      /\ low \in Nat /\ low < n /\ high \in Nat /\ high < n
  BY Halves, ValuesAre
<1>2. n * n = 4 * k /\ (n * n) \div 2 = 2 * k /\ k \in Nat BY Squares
<1>3. /\ x + low >= 2 * k => SignedOf(z, x + low) = (x + low) - 4 * k
      /\ ~ (x + low >= 2 * k) => SignedOf(z, x + low) = x + low
  BY SignedOfIs
<1>4. Signed(z, high) = IF high >= h THEN high - n ELSE high BY <1>1 DEF Signed
<1> HIDE DEF h, n
<1>5. x \in Nat /\ x = n * high /\ n * h = 2 * k /\ high \in Int /\ h \in Int
  <2>1. (2 * h) * h = 2 * (h * h) BY <1>1, Z3
  <2>2. high * n = n * high /\ high * n \in Nat BY <1>1
  <2> QED BY <1>1, <2>1, <2>2
<1> HIDE DEF k
<1>6. CASE high >= h
  <2>1. n * h <= n * high BY <1>1, <1>5, <1>6, ProductOrder
  <2> HIDE DEF x
  <2>2. x + low >= 2 * k BY <1>1, <1>2, <1>5, <2>1
  <2>3. (x + low) - 4 * k = (high - n) * n + low
    <3>1. (high - n) * n = high * n - n * n BY <1>1, Z3
    <3> QED BY <1>1, <1>2, <1>5, <3>1 DEF x
  <2>4. Signed(z, high) = high - n /\ SignedOf(z, x + low) = (x + low) - 4 * k
    BY <1>3, <1>4, <1>6, <2>2
  <2> QED BY <2>3, <2>4, Zenon DEF n, x
<1>7. CASE high < h
  <2>1. high <= h - 1 /\ h - 1 \in Int BY <1>1, <1>7
  <2>2. n * high <= n * (h - 1) BY <1>1, <1>5, <2>1, ProductOrder
  <2>3. n * (h - 1) = n * h - n BY <1>1, Z3
  <2> HIDE DEF x
  <2>4. x + low < 2 * k BY <1>1, <1>2, <1>5, <2>2, <2>3
  <2>5. ~ (x + low >= 2 * k) /\ ~ (high >= h) BY <1>1, <1>2, <1>5, <1>7, <2>4
  <2> QED BY <1>3, <1>4, <2>5 DEF n, x
<1> QED BY <1>1, <1>6, <1>7

(* A number that two words can take as a signed one.                       *)
LEMMA SignedRemainder ==
  ASSUME NEW z \in Sizes, NEW x \in Int,
         x < 2 * (Half(z) * Half(z)), x >= -(2 * (Half(z) * Half(z)))
  PROVE  /\ SignedOf(z, x % (N(z) * N(z))) = x
         /\ (x % (N(z) * N(z)) < N(z)) <=> x \in 0 .. N(z) - 1
<1> DEFINE n == N(z)
           m == n * n
           h == Half(z)
           k == h * h
           y == x % m
<1>1. /\ h \in Nat \ {0} /\ n = 2 * h /\ m = 4 * k /\ m \div 2 = 2 * k
      /\ k \in Nat /\ k >= h
  BY Squares, Halves
<1>2. SignedOf(z, y) = IF y >= m \div 2 THEN y - m ELSE y BY DEF SignedOf
<1> HIDE DEF n, m, h
<1>3. x < 2 * k /\ x >= -(2 * k) BY DEF h
<1> HIDE DEF k
<1>4. m \in Nat \ {0} BY <1>1
<1>5. CASE x >= 0
  <2>1. x % m = x
    <3>1. x \in 0 .. m - 1 BY <1>1, <1>3, <1>5
    <3> QED BY <1>4, <3>1
  <2> HIDE DEF y
  <2>2. y = x BY <2>1 DEF y
  <2>3. SignedOf(z, y) = x BY <1>1, <1>2, <1>3, <2>2
  <2>4. y < n <=> x \in 0 .. n - 1 BY <1>1, <1>5, <2>2
  <2> QED BY <2>3, <2>4 DEF y, m, n
<1>6. CASE x < 0
  <2> DEFINE r == x + m
             j == -1
  <2>1. r \in 0 .. m - 1 /\ m * j + r = x BY <1>1, <1>3, <1>4, <1>6
  <2>2. j \in Int OBVIOUS
  <2> HIDE DEF r, j
  <2>3. (m * j + r) % m = r BY <1>4, <2>1, <2>2, DivUnique, Zenon
  <2>4. y = x + m BY <2>1, <2>3 DEF r
  <2> HIDE DEF y
  <2>5. SignedOf(z, y) = x BY <1>1, <1>2, <1>3, <2>4
  <2>6. ~ (y < n) /\ x \notin 0 .. n - 1 BY <1>1, <1>3, <1>6, <2>4
  <2> QED BY <2>5, <2>6 DEF y, m, n
<1> QED BY <1>5, <1>6

LEMMA ProductBound ==
  ASSUME NEW a \in Int, NEW b \in Int, NEW p \in Nat, NEW q \in Nat,
         a <= p, a >= -p, b <= q, b >= -q
  PROVE  a * b <= p * q /\ a * b >= -(p * q)
<1> DEFINE c == p * q
<1>1. ASSUME NEW i \in Nat, NEW j \in Nat, i <= p, j <= q
      PROVE  i * j \in Nat /\ i * j <= c
  <2>1. i * j \in Nat BY <1>1
  <2>2. i * j <= i * q
    <3>1. CASE i = 0 BY <3>1, <1>1, Z3
    <3>2. CASE i # 0
      <4>1. i \in Nat \ {0} BY <1>1, <3>2
      <4> QED BY <1>1, <4>1, ProductOrder
    <3> QED BY <3>1, <3>2
  <2>3. q * i <= q * p
    <3>1. CASE q = 0 BY <3>1, <1>1, Z3
    <3>2. CASE q # 0
      <4>1. q \in Nat \ {0} BY <3>2
      <4> QED BY <1>1, <4>1, ProductOrder
    <3> QED BY <3>1, <3>2
  <2>4. i * q = q * i /\ q * p = c /\ i * q \in Int /\ c \in Int BY <1>1
  <2> HIDE DEF c
  <2> QED BY <2>1, <2>2, <2>3, <2>4
<1>2. c \in Nat OBVIOUS
<1>3. CASE a >= 0 /\ b >= 0
  <2>1. a * b \in Nat /\ a * b <= c BY <1>1, <1>3
  <2> QED BY <1>2, <2>1
<1>4. CASE a >= 0 /\ b < 0
  <2>1. -b \in Nat /\ a \in Nat /\ -b <= q BY <1>4
  <2>2. a * (-b) \in Nat /\ a * (-b) <= c BY <1>1, <2>1
  <2>3. a * (-b) = -(a * b) /\ a * b \in Int BY Z3
  <2> HIDE DEF c
  <2> QED BY <1>2, <2>2, <2>3 DEF c
<1>5. CASE a < 0 /\ b >= 0
  <2>1. -a \in Nat /\ b \in Nat /\ -a <= p BY <1>5
  <2>2. (-a) * b \in Nat /\ (-a) * b <= c BY <1>1, <2>1
  <2>3. (-a) * b = -(a * b) /\ a * b \in Int BY Z3
  <2> HIDE DEF c
  <2> QED BY <1>2, <2>2, <2>3 DEF c
<1>6. CASE a < 0 /\ b < 0
  <2>1. -a \in Nat /\ -b \in Nat /\ -a <= p /\ -b <= q BY <1>6
  <2>2. (-a) * (-b) \in Nat /\ (-a) * (-b) <= c BY <1>1, <2>1
  <2>3. (-a) * (-b) = a * b /\ a * b \in Int BY Z3
  <2> HIDE DEF c
  <2> QED BY <1>2, <2>2, <2>3 DEF c
<1> QED BY <1>3, <1>4, <1>5, <1>6

(* The signed product, of an unsigned byte in al.                          *)
Factor(z, a) == IF z = "byte" THEN a ELSE Signed(z, a)

ImulIs(z, x, p) ==
  /\ SignedOf(z, p.high * N(z) + p.low) = x /\ p.low = Wrap(z, x)
  /\ p.flags.carry = (x \notin 0 .. N(z) - 1)

LEMMA SignedProduct ==
  ASSUME NEW z \in Sizes, NEW a \in Values(z), NEW b \in Values(z), NEW f \in FlagSet
  PROVE  ImulIs(z, Factor(z, a) * Signed(z, b), Imul(z, a, b, f))
<1> DEFINE n == N(z)
           h == Half(z)
           k == h * h
           c == Factor(z, a)
           d == Signed(z, b)
           x == c * d
           p == Imul(z, a, b, f)
           hi == p.high
           lo == p.low
           y == hi * n + lo
           w == 2 * h - 1
<1>1. /\ h \in Nat \ {0} /\ n = 2 * h /\ k \in Nat /\ k >= h /\ n \in Nat \ {0}
      /\ a \in Nat /\ a < n /\ b \in Nat /\ b < n
  BY Squares, Halves, ValuesAre
<1>2. d \in Int /\ d <= h /\ d >= -h
  <2>1. /\ b < h => d = b
        /\ b >= h => d = b - 2 * h
    BY SignedIs
  <2> HIDE DEF d, h, n
  <2> QED BY <1>1, <2>1
<1>3. c \in Int /\ c <= w /\ c >= -w
  <2>1. /\ a < h => Signed(z, a) = a
        /\ a >= h => Signed(z, a) = a - 2 * h
    BY SignedIs
  <2>2. c = a \/ c = Signed(z, a) BY DEF Factor
  <2> HIDE DEF c, h, n
  <2> QED BY <1>1, <2>1, <2>2
<1>4. p = Product(z, x, f) BY DEF Imul, Factor
<1>5. x \in Int /\ x < 2 * k /\ x >= -(2 * k)
  <2> HIDE DEF c, d, h
  <2>1. w \in Nat /\ h \in Nat BY <1>1
  <2> HIDE DEF w
  <2>2. x <= w * h /\ x >= -(w * h) BY <1>2, <1>3, <2>1, ProductBound
  <2>3. w * h = 2 * k - h
    <3>1. (2 * h - 1) * h = 2 * (h * h) - h BY <1>1, Z3
    <3> QED BY <3>1 DEF w
  <2>4. x \in Int BY <1>2, <1>3
  <2> HIDE DEF x, k
  <2> QED BY <1>1, <2>2, <2>3, <2>4
<1> HIDE DEF x
<1>6. /\ y = x % (n * n) /\ hi = High(z, x) /\ lo = Wrap(z, x)
      /\ p.flags.carry = (High(z, x) > 0) /\ hi \in Values(z) /\ lo \in Values(z)
  BY <1>4, <1>5, ProductIs, ProductType DEF FitsPair
<1>7. /\ SignedOf(z, x % (n * n)) = x
      /\ (x % (n * n) < n) <=> x \in 0 .. n - 1
  BY <1>5, SignedRemainder
<1>8. hi \in Nat /\ (y < n <=> hi = 0)
  <2> HIDE DEF p
  <2>1. PairIs(z, hi, lo) BY <1>6, Pairs
  <2> QED BY <1>6, <2>1, ValuesAre DEF PairIs
<1>9. p.flags.carry = (x \notin 0 .. n - 1)
  <2> HIDE DEF hi, y, n
  <2>1. hi > 0 <=> ~ (y < n) BY <1>8
  <2>2. y < n <=> x \in 0 .. n - 1 BY <1>6, <1>7
  <2>3. p.flags.carry = (hi > 0) BY <1>6
  <2> HIDE DEF p
  <2> QED BY <2>1, <2>2, <2>3
<1>10. SignedOf(z, y) = x BY <1>6, <1>7
<1> HIDE DEF p, c, d
<1> QED BY <1>6, <1>9, <1>10 DEF ImulIs, x, p, c, d

(* Division of a signed number of two words, where the operands are        *)
(* extended as they should be.                                             *)
Extended(z, high, low, b) ==
  IF z = "dword" THEN low < N(z) \div 2 \/ high = N(z) - 1 ELSE b < N(z) \div 2

SmallestByMinusOne(z, x, y) == y = -1 /\ x = -((N(z) * N(z)) \div 2)

LEMMA Extension ==
  ASSUME NEW z \in Sizes, NEW high \in Values(z), NEW low \in Values(z),
         NEW b \in Values(z), Extended(z, high, low, b)
  PROVE  LET x == Signed(z, high) * N(z) + low
             y == Signed(z, b)
         IN  Idiv(z, high, low, b) =
               IF SmallestByMinusOne(z, x, y) THEN [result |-> "Panic"] ELSE Divided(z, x, y)
<1> DEFINE h == Half(z)
           n == N(z)
           t == Signed(z, high)
           x == t * n + low
           y == Signed(z, b)
           v == IF z = "dword" /\ low >= n \div 2 THEN low - n ELSE x
           w == IF z = "dword" THEN y ELSE b
<1>1. /\ h \in Nat \ {0} /\ n = 2 * h /\ n \div 2 = h
      /\ low \in Nat /\ low < n /\ high \in Nat /\ high < n /\ b \in Nat /\ b < n
  BY Halves, ValuesAre
<1>2. v = x
  <2>1. CASE z = "dword" /\ low >= h
    <3>1. high = n - 1 BY <1>1, <2>1 DEF Extended
    <3>2. t = -1
      <4>1. high >= h => t = high - 2 * h BY SignedIs
      <4> HIDE DEF t, h, n
      <4> QED BY <1>1, <3>1, <4>1
    <3> HIDE DEF t, h, n
    <3>3. (-1) * n = -n BY <1>1
    <3>4. t * n = -n BY <3>2, <3>3
    <3> QED BY <1>1, <2>1, <3>4
  <2>2. CASE ~ (z = "dword" /\ low >= h) BY <1>1, <2>2
  <2> QED BY <2>1, <2>2
<1>3. w = y
  <2>1. CASE z # "dword"
    <3>1. b < h BY <1>1, <2>1 DEF Extended
    <3> QED BY <2>1, <3>1, SignedIs
  <2> QED BY <2>1
<1>4. Idiv(z, high, low, b) =
        IF w = -1 /\ v = -((n * n) \div 2) THEN [result |-> "Panic"] ELSE Divided(z, v, w)
  BY DEF Idiv
<1> HIDE DEF v, w, x, y, n
<1> QED BY <1>2, <1>3, <1>4, Zenon DEF SmallestByMinusOne, x, y, n

(* What does not stop the machine, and fits, is the quotient.              *)
DividesRight(z, x, y, d) ==
  /\ d.result = "Ok"
  /\ Signed(z, d.quotient) * y + Signed(z, d.remainder) = x
  /\ Magnitude(Signed(z, d.remainder)) < Magnitude(y)

LEMMA SignedWrap ==
  ASSUME NEW z \in Sizes, NEW x \in Int, x < Half(z), x >= -Half(z)
  PROVE  Signed(z, Wrap(z, x)) = x
<1> DEFINE h == Half(z)
           n == N(z)
           r == Wrap(z, x)
<1>1. h \in Nat \ {0} /\ n = 2 * h BY Halves
<1>2. r \in Values(z) BY ValuesAre
<1>3. /\ r < h => Signed(z, r) = r
      /\ r >= h => Signed(z, r) = r - 2 * h
  BY <1>2, SignedIs
<1>4. /\ x >= 0 /\ x < n => r = x
      /\ x < 0 /\ x >= -n => r = x + n
  BY Wraps
<1>5. x < h /\ x >= -h OBVIOUS
<1> HIDE DEF r, h, n
<1>6. Signed(z, r) = x BY <1>1, <1>3, <1>4, <1>5
<1> QED BY <1>6 DEF r

LEMMA SignedQuotient ==
  ASSUME NEW z \in Sizes, NEW x \in Int, NEW b \in Values(z), Signed(z, b) # 0,
         Quotient(x, Signed(z, b)) \in SignedValues(z)
  PROVE  /\ DividesRight(z, x, Signed(z, b), Divided(z, x, Signed(z, b)))
         /\ ~ SmallestByMinusOne(z, x, Signed(z, b))
<1> DEFINE h == Half(z)
           n == N(z)
           k == h * h
           y == Signed(z, b)
           q == Quotient(x, y)
           r == Remainder(x, y)
           d == Divided(z, x, y)
<1>1. /\ h \in Nat \ {0} /\ n = 2 * h /\ k \in Nat /\ k >= h
      /\ (n * n) \div 2 = 2 * k /\ b \in Nat /\ b < n
  BY Squares, Halves, ValuesAre
<1>2. y \in Int /\ y < h /\ y >= -h
  <2>1. /\ b < h => y = b
        /\ b >= h => y = b - 2 * h
    BY SignedIs
  <2> HIDE DEF y, h, n
  <2> QED BY <1>1, <2>1
<1>3. q \in Int /\ q < h /\ q >= -h
  <2>1. SignedValues(z) = -h .. h - 1 BY Halves DEF SignedValues
  <2> HIDE DEF h
  <2> QED BY <1>1, <2>1
<1>4. /\ r \in Int /\ q * y + r = x /\ Magnitude(r) < Magnitude(y)
      /\ y = -1 => q = -x
  <2> HIDE DEF y
  <2> QED BY <1>2, QuotientIs DEF y
<1>5. ~ SmallestByMinusOne(z, x, y)
  <2>1. (y = -1) => x # -(2 * k)
    <3> HIDE DEF y, q, k, h, n
    <3> QED BY <1>1, <1>3, <1>4
  <2> QED BY <1>1, <2>1 DEF SmallestByMinusOne
<1>6. ~ (q > n - 1) /\ y # 0
  <2> HIDE DEF q, h, n
  <2> QED BY <1>1, <1>3
<1>7. d = [result |-> "Ok", quotient |-> Wrap(z, q), remainder |-> Wrap(z, r)]
  BY <1>6 DEF Divided
<1>8. r < h /\ r >= -h
  <2> HIDE DEF r, y, h
  <2> QED BY <1>1, <1>2, <1>4 DEF Magnitude
<1>9. Signed(z, Wrap(z, q)) = q /\ Signed(z, Wrap(z, r)) = r
  BY <1>3, <1>4, <1>8, SignedWrap
<1> HIDE DEF q, r, y, d
<1>10. DividesRight(z, x, y, d) BY <1>4, <1>7, <1>9 DEF DividesRight
<1> QED BY <1>5, <1>10 DEF y, d

LEMMA OnlyPanic ==
  ASSUME NEW z \in Sizes, NEW high \in Values(z), NEW low \in Values(z), NEW b \in Values(z)
  PROVE  Idiv(z, high, low, b).result = "Panic" <=>
           z = "dword" /\ SmallestByMinusOne(z, Signed(z, high) * N(z) + low, Signed(z, b))
<1> DEFINE h == Half(z)
           n == N(z)
           k == h * h
           t == Signed(z, high)
           m == t * n
           x == m + low
           y == Signed(z, b)
           v == IF z = "dword" /\ low >= n \div 2 THEN low - n ELSE x
           w == IF z = "dword" THEN y ELSE b
           e == -((n * n) \div 2)
           d == Idiv(z, high, low, b)
<1>1. /\ h \in Nat \ {0} /\ n = 2 * h /\ n \div 2 = h /\ k \in Nat /\ k >= h
      /\ low \in Nat /\ low < n /\ high \in Nat /\ high < n /\ b \in Nat /\ b < n
      /\ (n * n) \div 2 = 2 * k /\ n \in Nat \ {0}
  BY Squares, Halves, ValuesAre
<1>2. t \in Int /\ t >= -h
  <2>1. /\ high < h => t = high
        /\ high >= h => t = high - 2 * h
    BY SignedIs
  <2> HIDE DEF t, h, n
  <2> QED BY <1>1, <2>1
<1>3. e = -(2 * k)
  <2> HIDE DEF k, n
  <2> QED BY <1>1
<1>4. d = IF w = -1 /\ v = e THEN [result |-> "Panic"] ELSE Divided(z, v, w)
  BY DEF Idiv
<1>5. Divided(z, v, w).result # "Panic"
  <2> HIDE DEF v, w
  <2> QED BY DEF Divided
<1>6. d.result = "Panic" <=> w = -1 /\ v = e
  <2> HIDE DEF v, w, e, d
  <2> QED BY <1>4, <1>5
<1>7. CASE z # "dword"
  <2>1. w = b BY <1>7
  <2> HIDE DEF w, v, e, d
  <2>2. w # -1 BY <1>1, <2>1
  <2> QED BY <1>6, <1>7, <2>2 DEF d
<1>8. CASE z = "dword"
  <2>1. w = y BY <1>8
  <2>2. v = e <=> x = e
    <3>1. CASE low < h
      <4>1. ~ (low >= n \div 2) BY <1>1, <3>1
      <4> QED BY <4>1
    <3>2. CASE low >= h
      <4>1. v = low - n BY <1>1, <1>8, <3>2
      <4>2. v # e
        <5> HIDE DEF v, e, h, n, k
        <5> QED BY <1>1, <1>3, <3>2, <4>1
      <4>3. m >= -(2 * k)
        <5>1. n * (-h) = -(2 * k)
          <6>1. (2 * h) * (-h) = -(2 * (h * h)) BY <1>1, Z3
          <6> HIDE DEF h, n
          <6>2. n * (-h) = (2 * h) * (-h) BY <1>1
          <6> QED BY <6>1, <6>2 DEF h
        <5> HIDE DEF h, n, t, k
        <5>2. -h \in Int /\ -h <= t BY <1>1, <1>2
        <5>3. n * (-h) <= n * t BY <1>1, <1>2, <5>2, ProductOrder
        <5>4. n * t = m /\ m \in Int BY <1>1, <1>2
        <5> HIDE DEF m
        <5> QED BY <1>1, <5>1, <5>3, <5>4
      <4>4. m \in Int
        <5> HIDE DEF h, n, t
        <5> QED BY <1>1, <1>2
      <4>5. x # e
        <5> HIDE DEF m, e, h, n, k
        <5> QED BY <1>1, <1>3, <3>2, <4>3, <4>4
      <4> QED BY <4>2, <4>5
    <3>3. low < h \/ low >= h
      <4> HIDE DEF h
      <4> QED BY <1>1
    <3> QED BY <3>1, <3>2, <3>3
  <2> HIDE DEF w, v, x, y, e, d, n
  <2>3. d.result = "Panic" <=> y = -1 /\ x = e BY <1>6, <2>1, <2>2
  <2>4. SmallestByMinusOne(z, x, y) <=> y = -1 /\ x = e BY DEF SmallestByMinusOne, e, n
  <2>5. d.result = "Panic" <=> SmallestByMinusOne(z, x, y) BY <2>3, <2>4
  <2> QED BY <1>8, <2>5 DEF d, x, y, n, m, t
<1> QED BY <1>7, <1>8

(* A step that writes two words.                                           *)
PairSets(high, low, f) ==
  /\ regs'["ext"] = high /\ regs'["acc"] = low
  /\ \A x \in Regs \ {"ext", "acc"} : regs'[x] = regs[x]
  /\ flags' = f /\ result' = result

LEMMA WritesPairSets ==
  ASSUME TypeInv, NEW high, NEW low, NEW f, WritesPair(high, low, f)
  PROVE  PairSets(high, low, f)
<1>1. regs \in [Regs -> Values(s)] BY Known
<1>2. regs' = [regs EXCEPT !["ext"] = high, !["acc"] = low] /\ flags' = f /\ result' = result
  BY DEF WritesPair
<1> QED BY <1>1, <1>2 DEF PairSets, Regs

LEMMA DividesSets ==
  ASSUME TypeInv, result = "Ok", NEW d, Divides(d)
  PROVE  /\ result' = d.result
         /\ d.result # "Ok" => regs' = regs
         /\ d.result = "Ok" => PairSets(d.remainder, d.quotient, flags)
<1>1. CASE d.result # "Ok" /\ Fails(d.result) BY <1>1 DEF Fails
<1>2. CASE d.result = "Ok" /\ WritesPair(d.remainder, d.quotient, flags)
  <2>1. PairSets(d.remainder, d.quotient, flags) BY <1>2, WritesPairSets
  <2> QED BY <1>2, <2>1 DEF PairSets
<1> QED BY <1>1, <1>2 DEF Divides

LEMMA ProductSets ==
  ASSUME TypeInv, Next, NEW op, Instruction = Reg(op, "acc", "b")
  PROVE  LET a == regs["acc"]
             b == regs["b"]
             p == Mul(s, a, b, flags)
             i == Imul(s, a, b, flags)
         IN /\ op = "mul" => PairSets(p.high, p.low, p.flags)
            /\ op = "imul" => PairSets(i.high, i.low, i.flags)
            /\ op = "imul2" => Sets("acc", Outcome(i.low, i.flags))
            /\ op = "div" => Divides(Div(s, regs["ext"], a, b))
            /\ op = "idiv" => Divides(Idiv(s, regs["ext"], a, b))
<1> DEFINE a == regs["acc"]
           b == regs["b"]
           p == Mul(s, a, b, flags)
           i == Imul(s, a, b, flags)
<1>1. /\ Instruction.op = op /\ Instruction.dst = "acc"
      /\ Destination = a /\ \A m : Source(m) = m["b"]
  BY RegIs
<1>2. Source(regs) = b /\ "acc" \in Regs BY <1>1 DEF Regs
<1>3. ASSUME op = "mul" PROVE PairSets(p.high, p.low, p.flags)
  BY <1>1, <1>2, <1>3, Executes, WritesPairSets DEF ExecMul
<1>4. ASSUME op = "imul" PROVE PairSets(i.high, i.low, i.flags)
  BY <1>1, <1>2, <1>4, Executes, WritesPairSets DEF ExecImul
<1>5. ASSUME op = "imul2" PROVE Sets("acc", Outcome(i.low, i.flags))
  BY <1>1, <1>2, <1>5, Executes, WritesSets DEF ExecImul2
<1>6. ASSUME op = "div" PROVE Divides(Div(s, regs["ext"], a, b))
  BY <1>1, <1>2, <1>6, Executes DEF ExecDiv
<1>7. ASSUME op = "idiv" PROVE Divides(Idiv(s, regs["ext"], a, b))
  BY <1>1, <1>2, <1>7, Executes DEF ExecIdiv
<1> QED BY <1>3, <1>4, <1>5, <1>6, <1>7

(* The programs of one instruction.                                        *)
QuotientInv ==
  given.name = "division" => Started \/ (todo = <<>> /\ ProductsAndQuotients)

SignedInv ==
  given.name \in {"imul", "imul2", "idiv"} => Started \/ (todo = <<>> /\ ProductsAndQuotients)

(* What is multiplied is divided again.                                    *)
MulAndDivInv ==
  LET a == given.regs["acc"]
      b == given.regs["b"]
  IN  given.name = "mul_and_div" =>
        \/ Started
        \/ /\ todo = Tail(given.code) /\ result = "Ok" /\ regs["b"] = b
           /\ Final = a * b /\ flags.carry = (a * b >= N(s))
        \/ todo = <<>> /\ ProductsAndQuotients

LEMMA QuotientStep ==
  ASSUME TypeInv, QuotientInv, Next
  PROVE  QuotientInv'
<1> SUFFICES ASSUME given.name = "division" PROVE QuotientInv' BY Stepping DEF QuotientInv
<1> DEFINE e == given.regs["ext"]
           a == given.regs["acc"]
           b == given.regs["b"]
           first == Reg("div", "acc", "b")
           d == Div(s, e, a, b)
<1>1. given.code = <<first>> BY DEF TypeInv, GivenInv, Listed, DivisionCode
<1> HIDE DEF first
<1>2. (todo = given.code => Instruction = first) /\ Tail(given.code) = <<>>
  BY <1>1, OneStep
<1>3. {"acc", "ext", "b", "c", "count"} \subseteq Regs /\ s \in Sizes
      /\ e \in Values(s) /\ a \in Values(s) /\ b \in Values(s)
  BY Known
<1>4. CASE Started
  <2>1. Instruction = Reg("div", "acc", "b") BY <1>2, <1>4, Stepping DEF first
  <2>2. regs["ext"] = e /\ regs["acc"] = a /\ regs["b"] = b BY <1>4 DEF Started
  <2>3. Divides(d) BY <2>1, <2>2, ProductSets
  <2>4. DivisionIs(s, e, a, b, d) BY <1>3, DivIs
  <2> HIDE DEF d
  <2>5. /\ result' = d.result
        /\ d.result = "Ok" => regs'["acc"] = d.quotient /\ regs'["ext"] = d.remainder
    BY <2>3, Stepping, DividesSets DEF PairSets
  <2>6. First' = First /\ First = e * N(s) + a BY Stepping DEF First, Pair
  <2> DEFINE x == First
             y == N(s) * b
  <2>7. /\ (result' = "Ok") <=> (b # 0 /\ x < y)
        /\ result' = "Ok" => regs'["acc"] * b + regs'["ext"] = x /\ regs'["ext"] < b
    <3> HIDE DEF b
    <3> QED BY <2>4, <2>5, <2>6 DEF DivisionIs
  <2>8. Division'
    <3>1. ~ Runs("mul_and_div")' /\ ~ Ended("mul_and_div")' BY Stepping DEF Ended, Runs
    <3> HIDE DEF x
    <3>2. b' = b /\ y' = y /\ x' = x
      <4>1. x' = x BY <2>6 DEF x
      <4> QED BY <4>1, Stepping
    <3> QED BY <2>7, <3>1, <3>2 DEF Division, x
  <2>9. SignedArithmetic' /\ ProductFits'
    BY Stepping DEF SignedArithmetic, ProductFits, Ended, Runs
  <2>10. todo' = <<>> BY <1>2, <1>4, Stepping
  <2> QED BY <2>8, <2>9, <2>10 DEF QuotientInv, ProductsAndQuotients
<1>5. CASE todo = <<>> BY <1>5, Stepping
<1> QED BY <1>4, <1>5 DEF QuotientInv

LEMMA MulAndDivStep ==
  ASSUME TypeInv, MulAndDivInv, Next
  PROVE  MulAndDivInv'
<1> SUFFICES ASSUME given.name = "mul_and_div" PROVE MulAndDivInv'
  BY Stepping DEF MulAndDivInv
<1> DEFINE a == given.regs["acc"]
           b == given.regs["b"]
           n == N(s)
           x == a * b
           first == Reg("mul", "acc", "b")
           second == Reg("div", "acc", "b")
<1>1. given.code = <<first, second>> BY DEF TypeInv, GivenInv, Listed, MulAndDivCode
<1> HIDE DEF first, second
<1>2. /\ todo = given.code => Instruction = first
      /\ todo = Tail(given.code) => Instruction = second
      /\ Tail(Tail(given.code)) = <<>>
  BY <1>1, TwoSteps
<1>3. /\ {"acc", "ext", "b", "c", "count"} \subseteq Regs /\ s \in Sizes /\ flags \in FlagSet
      /\ a \in Values(s) /\ b \in Values(s)
      /\ a \in Nat /\ b \in Nat /\ a < n /\ b < n /\ n \in Nat \ {0}
  BY Known
<1>4. CASE Started
  <2>1. Instruction = Reg("mul", "acc", "b") BY <1>2, <1>4, Stepping DEF first
  <2>2. regs["acc"] = a /\ regs["b"] = b /\ result = "Ok" BY <1>4 DEF Started
  <2> DEFINE p == Mul(s, a, b, flags)
  <2>3. PairSets(p.high, p.low, p.flags) BY <2>1, <2>2, ProductSets
  <2>4. p.high * n + p.low = x /\ p.flags.carry = (x >= n) BY <1>3, MulIs
  <2> HIDE DEF p, x, n, b
  <2>5. Final' = x /\ flags'.carry = (x >= n) /\ regs'["b"] = b /\ result' = "Ok"
    <3>1. Final' = regs'["ext"] * n + regs'["acc"] BY Stepping DEF Final, Pair, n
    <3>2. regs'["ext"] = p.high /\ regs'["acc"] = p.low /\ flags' = p.flags
          /\ regs'["b"] = regs["b"] /\ result' = result
      BY <1>3, <2>3 DEF PairSets
    <3> QED BY <2>2, <2>4, <3>1, <3>2
  <2>6. todo' = Tail(given.code) BY <1>4, Stepping
  <2>7. x' = x /\ b' = b /\ n' = n BY Stepping DEF x, b, n
  <2> QED BY <2>5, <2>6, <2>7, Stepping DEF MulAndDivInv, x, b, n
<1>5. CASE /\ todo = Tail(given.code) /\ result = "Ok" /\ regs["b"] = b
           /\ Final = x /\ flags.carry = (x >= n)
  <2>1. Instruction = Reg("div", "acc", "b") BY <1>2, <1>5 DEF second
  <2> DEFINE e == regs["ext"]
             l == regs["acc"]
             d == Div(s, e, l, b)
  <2>2. e \in Values(s) /\ l \in Values(s) BY <1>3, Known
  <2>3. Divides(d) BY <1>5, <2>1, ProductSets
  <2>4. DivisionIs(s, e, l, b, d) BY <1>3, <2>2, DivIs
  <2>5. d.result = "Ok" => d.quotient \in Nat /\ d.remainder \in Nat
    <3>1. FitsQuotient(s, d)
      <4>1. e \in Int /\ l \in Int /\ b \in Int BY <1>3, Known
      <4> HIDE DEF e, l, b
      <4> QED BY <1>3, <4>1, DivType
    <3> HIDE DEF d
    <3>2. d.result = "Ok" => d.quotient \in Values(s) /\ d.remainder \in Values(s)
      BY <3>1 DEF FitsQuotient
    <3> QED BY <1>3, <3>2, ValuesAre
  <2>6. e * n + l = x BY <1>5 DEF Final, Pair
  <2> HIDE DEF d, e, l, n
  <2>7. /\ (d.result = "Ok") <=> (b # 0 /\ x < n * b)
        /\ d.result = "Ok" => d.quotient * b + d.remainder = x /\ d.remainder < b
    BY <2>4, <2>6 DEF DivisionIs, n
  <2>8. /\ b # 0 => x < n * b
        /\ \A q \in Nat, r \in Nat : r < b /\ q * b + r = x => q = a /\ r = 0
    <3> HIDE DEF a, b
    <3> QED BY <1>3, TakenBack
  <2> HIDE DEF x, a, b
  <2>9. /\ d.result = "Ok" <=> b # 0
        /\ d.result = "Ok" => d.quotient = a /\ d.remainder = 0
    BY <2>5, <2>7, <2>8
  <2>10. /\ result' = d.result
         /\ d.result = "Ok" => /\ regs'["acc"] = d.quotient /\ regs'["ext"] = d.remainder
                               /\ flags' = flags
    BY <1>5, <2>3, DividesSets DEF PairSets
  <2>11. /\ result' = "Ok" <=> b # 0
         /\ result' = "Ok" => /\ regs'["acc"] = a /\ regs'["ext"] = 0
                              /\ flags'.carry = (x >= n)
    BY <1>5, <2>9, <2>10
  <2>12. Division'
    <3>1. ~ Runs("division")' BY Stepping DEF Runs
    <3>2. b' = b /\ a' = a /\ n' = n /\ x' = x BY Stepping DEF a, b, x, n
    <3> QED BY <2>11, <3>1, <3>2 DEF Division, Ended, a, b, x, n
  <2>13. SignedArithmetic' /\ ProductFits'
    BY Stepping DEF SignedArithmetic, ProductFits, Ended, Runs
  <2>14. todo' = <<>> BY <1>2, <1>5, Stepping
  <2> QED BY <2>12, <2>13, <2>14 DEF MulAndDivInv, ProductsAndQuotients
<1>6. CASE todo = <<>> BY <1>6, Stepping
<1> QED BY <1>4, <1>5, <1>6 DEF MulAndDivInv

LEMMA ImulStep ==
  ASSUME TypeInv, SignedInv, Next, given.name \in {"imul", "imul2"}
  PROVE  SignedInv'
<1> DEFINE a == given.regs["acc"]
           b == given.regs["b"]
           n == N(s)
           x == Factor(s, a) * Signed(s, b)
           op == given.name
           first == Reg(op, "acc", "b")
           p == Imul(s, a, b, flags)
<1>1. given.code = <<first>> /\ (op = "imul2" => s # "byte")
  BY DEF TypeInv, GivenInv, Listed, SignedCode
<1> HIDE DEF first
<1>2. (todo = given.code => Instruction = first) /\ Tail(given.code) = <<>>
  BY <1>1, OneStep
<1>3. {"acc", "ext", "b", "c", "count"} \subseteq Regs /\ s \in Sizes /\ flags \in FlagSet
      /\ a \in Values(s) /\ b \in Values(s)
  BY Known
<1>4. CASE Started
  <2>1. Instruction = Reg(op, "acc", "b") BY <1>2, <1>4, Stepping DEF first
  <2>2. regs["acc"] = a /\ regs["b"] = b BY <1>4 DEF Started
  <2>3. /\ op = "imul" => PairSets(p.high, p.low, p.flags)
        /\ op = "imul2" => Sets("acc", Outcome(p.low, p.flags))
    BY <2>1, <2>2, ProductSets
  <2>4. ImulIs(s, x, p) BY <1>3, SignedProduct
  <2> HIDE DEF p, x, a, b
  <2>5. /\ op = "imul" => /\ SignedOf(s, regs'["ext"] * n + regs'["acc"]) = x
                          /\ flags'.carry = (x \notin 0 .. n - 1)
        /\ op = "imul2" => regs'["acc"] = Wrap(s, x)
    BY <2>3, <2>4 DEF ImulIs, PairSets, Sets, Outcome
  <2>6. op = "imul2" => x = Signed(s, a) * Signed(s, b) BY <1>1 DEF x, Factor
  <2>7. x = (IF s = "byte" THEN a ELSE Signed(s, a)) * Signed(s, b) BY DEF x, Factor
  <2>8. SignedPair(Final)' = SignedOf(s, regs'["ext"] * n + regs'["acc"])
    BY Stepping DEF SignedPair, Final, Pair, Square, SignedOf
  <2>9. /\ op = "imul" => /\ SignedPair(Final)' = x
                          /\ flags'.carry = (x \notin 0 .. n - 1)
        /\ op = "imul2" => regs'["acc"] = Wrap(s, x)
    BY <2>5, <2>8
  <2>10. /\ (Ended("imul") => SignedPair(Final) =
                (IF s = "byte" THEN a ELSE Signed(s, a)) * Signed(s, b))'
         /\ (Ended("imul2") => regs["acc"] = Wrap(s, Signed(s, a) * Signed(s, b)))'
    <3>1. a' = a /\ b' = b /\ s' = s /\ op' = op BY Stepping DEF a, b
    <3> HIDE DEF op
    <3> QED BY <2>6, <2>7, <2>9, <3>1 DEF Ended, Runs, op
  <2>11. ~ Runs("idiv")' BY Stepping DEF Runs
  <2>12. SignedArithmetic' BY <2>10, <2>11 DEF SignedArithmetic, a, b
  <2>13. ProductFits'
    <3>1. Ended("imul")' => op = "imul" BY Stepping DEF Ended, Runs
    <3>2. n' = n BY Stepping
    <3> HIDE DEF op, n
    <3>3. Ended("imul")' => flags'.carry = (SignedPair(Final)' \notin 0 .. n' - 1)
      BY <2>9, <3>1, <3>2
    <3> QED BY <3>3 DEF ProductFits, n
  <2>14. Division' BY Stepping DEF Division, Ended, Runs
  <2>15. todo' = <<>> BY <1>2, <1>4, Stepping
  <2> QED BY <2>12, <2>13, <2>14, <2>15 DEF SignedInv, ProductsAndQuotients
<1>5. CASE todo = <<>> BY <1>5, Stepping
<1> QED BY <1>4, <1>5 DEF SignedInv

LEMMA IdivStep ==
  ASSUME TypeInv, SignedInv, Next, given.name = "idiv"
  PROVE  SignedInv'
<1> DEFINE e == given.regs["ext"]
           a == given.regs["acc"]
           c == given.regs["b"]
           b == Signed(s, c)
           x == Signed(s, e) * N(s) + a
           first == Reg("idiv", "acc", "b")
           d == Idiv(s, e, a, c)
<1>1. given.code = <<first>> BY DEF TypeInv, GivenInv, Listed, SignedCode
<1> HIDE DEF first
<1>2. (todo = given.code => Instruction = first) /\ Tail(given.code) = <<>>
  BY <1>1, OneStep
<1>3. {"acc", "ext", "b", "c", "count"} \subseteq Regs /\ s \in Sizes
      /\ e \in Values(s) /\ a \in Values(s) /\ c \in Values(s)
  BY Known
<1>4. CASE Started
  <2>1. Instruction = Reg("idiv", "acc", "b") BY <1>2, <1>4, Stepping DEF first
  <2>2. regs["ext"] = e /\ regs["acc"] = a /\ regs["b"] = c BY <1>4 DEF Started
  <2>3. Divides(d) BY <2>1, <2>2, ProductSets
  <2>4. x \in Int
    <3>1. Signed(s, e) \in Int
      <4>1. e \in Int BY <1>3, ValuesAre
      <4> QED BY <1>3, <4>1, SignedType
    <3>2. N(s) \in Int /\ a \in Int BY <1>3, Halves, ValuesAre
    <3> QED BY <3>1, <3>2
  <2>5. d.result = "Panic" <=> s = "dword" /\ SmallestByMinusOne(s, x, b)
    BY <1>3, OnlyPanic
  <2>6. ASSUME Extended(s, e, a, c), b # 0, Quotient(x, b) \in SignedValues(s)
        PROVE  DividesRight(s, x, b, d)
    <3>1. d = IF SmallestByMinusOne(s, x, b) THEN [result |-> "Panic"] ELSE Divided(s, x, b)
      BY <1>3, <2>6, Extension
    <3>2. DividesRight(s, x, b, Divided(s, x, b)) /\ ~ SmallestByMinusOne(s, x, b)
      <4> HIDE DEF x
      <4> QED BY <1>3, <2>4, <2>6, SignedQuotient
    <3> QED BY <3>1, <3>2
  <2>7. SignedPair(First) = x
    <3>1. SignedOf(s, e * N(s) + a) = x BY <1>3, SignedPairIs
    <3> QED BY <3>1 DEF SignedPair, First, Pair, Square, SignedOf
  <2>8. Extends => Extended(s, e, a, c) BY DEF Extends, Extended
  <2> HIDE DEF d, x, b
  <2>9. /\ result' = d.result
        /\ d.result = "Ok" => regs'["acc"] = d.quotient /\ regs'["ext"] = d.remainder
    BY <2>3, Stepping, DividesSets DEF PairSets
  <2>10. (Extends /\ b # 0 /\ Quotient(x, b) \in SignedValues(s)) =>
            /\ result' = "Ok"
            /\ Signed(s, regs'["acc"]) * b + Signed(s, regs'["ext"]) = x
            /\ Magnitude(Signed(s, regs'["ext"])) < Magnitude(b)
    BY <2>6, <2>8, <2>9 DEF DividesRight
  <2>11. (result' = "Panic") <=> (s = "dword" /\ x = -(Square \div 2) /\ b = -1)
    BY <2>5, <2>9 DEF SmallestByMinusOne, Square
  <2>12. /\ SignedPair(First)' = x /\ b' = b /\ s' = s /\ Extends' = Extends
         /\ Square' = Square
    <3>1. SignedPair(First)' = SignedPair(First)
      BY Stepping DEF SignedPair, First, Pair, Square
    <3>2. b' = b BY Stepping DEF b
    <3>3. Extends' = Extends BY Stepping DEF Extends
    <3> QED BY <2>7, <3>1, <3>2, <3>3, Stepping DEF Square
  <2>13. ~ Ended("imul")' /\ ~ Ended("imul2")' BY Stepping DEF Ended, Runs
  <2>14. SignedArithmetic'
    BY <2>10, <2>11, <2>12, <2>13 DEF SignedArithmetic, b
  <2>15. ProductFits' BY <2>13 DEF ProductFits
  <2>16. Division' BY Stepping DEF Division, Ended, Runs
  <2>17. todo' = <<>> BY <1>2, <1>4, Stepping
  <2> QED BY <2>14, <2>15, <2>16, <2>17 DEF SignedInv, ProductsAndQuotients
<1>5. CASE todo = <<>> BY <1>5, Stepping
<1> QED BY <1>4, <1>5 DEF SignedInv

LEMMA NoProductYet ==
  ASSUME todo # <<>>
  PROVE  ProductsAndQuotients
BY DEF ProductsAndQuotients, Division, SignedArithmetic, ProductFits, Ended, Runs

(* Products and quotients are right, unsigned and signed, and where they   *)
(* are not this says how: div gives quotient and remainder or fails, mul   *)
(* is taken back by div, imul multiplies signed numbers but for a negative *)
(* al, idiv is right where its operands are extended as they should be,    *)
(* and the smallest dividend by -1, and nothing else, stops the machine.   *)
THEOREM Products == Spec => []ProductsAndQuotients
<1> DEFINE Inv == TypeInv /\ QuotientInv /\ SignedInv /\ MulAndDivInv
<1>1. Init => Inv BY TypeStart, Begins DEF QuotientInv, SignedInv, MulAndDivInv
<1>2. Inv /\ [Next]_vars => Inv'
  <2> SUFFICES ASSUME Inv, [Next]_vars PROVE Inv' OBVIOUS
  <2>1. TypeInv' BY TypeKept
  <2>2. CASE Next
    <3>1. QuotientInv' /\ MulAndDivInv' BY <2>2, QuotientStep, MulAndDivStep
    <3>2. SignedInv'
      <4>1. CASE given.name \in {"imul", "imul2"} BY <2>2, <4>1, ImulStep
      <4>2. CASE given.name = "idiv" BY <2>2, <4>2, IdivStep
      <4>3. CASE given.name \notin {"imul", "imul2", "idiv"}
        BY <2>2, <4>3, Stepping DEF SignedInv
      <4> QED BY <4>1, <4>2, <4>3
    <3> QED BY <2>1, <3>1, <3>2
  <2>3. CASE UNCHANGED vars
    <3>1. Started' = Started /\ todo' = todo /\ given' = given /\ regs' = regs
          /\ flags' = flags /\ result' = result /\ s' = s /\ Final' = Final
      BY <2>3 DEF vars, s, Started, Final, Pair
    <3>2. ProductsAndQuotients' = ProductsAndQuotients
      BY <2>3 DEF vars, s, ProductsAndQuotients, Division, SignedArithmetic, ProductFits,
                  Ended, Runs, Final, First, Pair, SignedPair, Square, Extends
    <3> QED BY <2>1, <3>1, <3>2 DEF QuotientInv, SignedInv, MulAndDivInv
  <2> QED BY <2>2, <2>3
<1>3. Inv => ProductsAndQuotients
  <2> SUFFICES ASSUME Inv, todo = <<>> PROVE ProductsAndQuotients BY NoProductYet
  <2>1. ASSUME given.name \in {"division", "mul_and_div", "imul", "imul2", "idiv"}
        PROVE  ~ Started
    BY <2>1, NotEmpty
  <2>2. CASE given.name = "mul_and_div"
    <3>1. Tail(given.code) # <<>>
      <4> DEFINE i == Reg("mul", "acc", "b")
                 j == Reg("div", "acc", "b")
      <4>1. given.code = <<i, j>> BY <2>2 DEF TypeInv, GivenInv, Listed, MulAndDivCode
      <4> HIDE DEF i, j
      <4> QED BY <4>1, Sequences
    <3> QED BY <2>1, <2>2, <3>1 DEF MulAndDivInv
  <2>3. CASE given.name = "division" BY <2>1, <2>3 DEF QuotientInv
  <2>4. CASE given.name \in {"imul", "imul2", "idiv"} BY <2>1, <2>4 DEF SignedInv
  <2>5. CASE given.name \notin {"division", "mul_and_div", "imul", "imul2", "idiv"}
    BY <2>5 DEF ProductsAndQuotients, Division, SignedArithmetic, ProductFits, Ended, Runs
  <2> QED BY <2>2, <2>3, <2>4, <2>5
<1> QED BY <1>1, <1>2, <1>3, PTL DEF Spec

-----------------------------------------------------------------------------
(* Shifts by a count                                                       *)

LEMMA DoubleWidth ==
  ASSUME NEW z \in Sizes
  PROVE  2 ^ (2 * Bits[z]) = N(z) * N(z)
<1> DEFINE B == Bits[z]
<1>1. B \in Nat \ {0} /\ 2 * B <= Most - 1 /\ Most \in Nat BY Widths
<1> HIDE DEF B
<1>2. B + B = 2 * B /\ B + B <= Most /\ B \in Nat BY <1>1
<1>3. 2 ^ (B + B) = 2 ^ B * 2 ^ B BY <1>2, PowerSum
<1>4. 2 ^ (2 * B) = 2 ^ B * 2 ^ B BY <1>2, <1>3, Zenon
<1> QED BY <1>4 DEF N, B

LEMMA ShlIs ==
  ASSUME NEW z \in Sizes, NEW a \in Values(z), NEW k \in Nat, k < 2 * Bits[z],
         NEW f \in FlagSet
  PROVE  /\ 2 ^ k \in Nat \ {0} /\ a * 2 ^ k \in Nat
         /\ Shl(z, a, k, f).value = Wrap(z, a * 2 ^ k)
         /\ Shl(z, a, k, f).flags.carry = Bit((a * 2 ^ k) % (N(z) * N(z)), ShlCarry(z))
         /\ z # "word" => Shl(z, a, k, f).flags.carry = Bit(a * 2 ^ k, Bits[z])
<1> DEFINE W == ShlWidth(z)
           n == N(z)
           h == Half(z)
           p == 2 ^ k
           x == a * p
           m == n * n
           wide == x % m
           q == x \div m
           r == Wrap(z, wide)
           c == Bit(wide, ShlCarry(z))
           e == IF z = "word" THEN wide = 0 ELSE r = 0
           o == ByOne(k, Bit(a, Top(z)) # Bit(r, Top(z)), f)
           j == Judged(z, r, f)
<1>1. /\ Bits[z] \in Nat \ {0} /\ 2 * Bits[z] <= Most - 1 /\ Most \in Nat
      /\ n \in Nat \ {0} /\ n = 2 * h /\ h \in Nat \ {0}
  BY Widths, Halves
<1>2. W = 2 * Bits[z] /\ W \in Nat \ {0} BY <1>1 DEF ShlWidth
<1>3. k % W = k
  <2> HIDE DEF W
  <2>1. k \in 0 .. W - 1 BY <1>1, <1>2
  <2> QED BY <1>2, <2>1
<1>4. p \in Nat \ {0} /\ x \in Nat
  <2>1. p \in Nat \ {0} BY <1>1, PowerType
  <2>2. a \in Nat BY ValuesAre
  <2> HIDE DEF p
  <2> QED BY <2>1, <2>2
<1>5. 2 ^ W = m BY <1>2, DoubleWidth
<1>6. Shl(z, a, k, f) = Outcome(r, [j EXCEPT !.carry = c, !.zero = e, !.overflow = o])
  BY <1>3, <1>5 DEF Shl
<1>7. j \in FlagSet BY JudgedType
<1>8. c \in BOOLEAN /\ e \in BOOLEAN /\ o \in BOOLEAN BY ByOneType DEF Bit
<1>9. r = Wrap(z, x)
  <2> HIDE DEF x, n
  <2>0. x \in Int BY <1>4
  <2>1. (x % (n * n)) % n = x % n BY <1>1, <2>0, Nested
  <2> QED BY <2>1 DEF Wrap, n
<1>10. ASSUME z # "word" PROVE c = Bit(x, Bits[z])
  <2> DEFINE u == x \div n
             v == h * q
             y == wide \div n
  <2>1. ShlCarry(z) = Bits[z] BY <1>10 DEF ShlCarry
  <2>2. y = u - n * q /\ q \in Int /\ u \in Int
    <3> HIDE DEF x, n
    <3>1. x \in Int BY <1>4
    <3>2. x \div n \in Int BY <1>1, <3>1, DivMod
    <3> QED BY <1>1, <3>1, <3>2, Nested
  <2>3. v \in Int /\ n * q = 2 * v
    <3> HIDE DEF h, n, q
    <3>1. h * q \in Int BY <1>1, <2>2
    <3>2. (2 * h) * q = 2 * (h * q) BY <1>1, <2>2, Z3
    <3> QED BY <1>1, <3>1, <3>2
  <2> HIDE DEF u, v, y, q, n
  <2>4. u = y + 2 * v /\ y \in Int
    <3>1. n * q \in Int BY <2>3
    <3> QED BY <2>2, <2>3, <3>1
  <2>5. u % 2 = y % 2 BY <2>3, <2>4, EvenTerm
  <2>6. (u % 2 = 1) <=> (y % 2 = 1) BY <2>5
  <2> HIDE DEF x, wide
  <2>7. Bit(wide, Bits[z]) <=> Bit(x, Bits[z]) BY <2>6 DEF Bit, u, y, n, N
  <2>8. c <=> Bit(wide, Bits[z]) BY <2>1
  <2> QED BY <2>7, <2>8 DEF Bit
<1> HIDE DEF c, e, o, j, r
<1>11. Shl(z, a, k, f).value = r /\ Shl(z, a, k, f).flags.carry = c
  <2> DEFINE g == [j EXCEPT !.carry = c, !.zero = e, !.overflow = o]
  <2>1. g.carry = c BY <1>7, <1>8 DEF FlagSet
  <2>2. Shl(z, a, k, f) = Outcome(r, g) BY <1>6
  <2> HIDE DEF g
  <2> QED BY <2>1, <2>2 DEF Outcome
<1> QED BY <1>4, <1>9, <1>10, <1>11 DEF c

(* The last bit that is moved out to the right.                            *)
LEMMA LastBit ==
  ASSUME NEW x \in Int, NEW k \in Nat \ {0}, k <= Most
  PROVE  Bit(x, k - 1) <=> ((2 * x) \div 2 ^ k) % 2 = 1
<1> DEFINE i == k - 1
           p == 2 ^ i
<1>0. Most \in Nat BY Widths
<1>1. i \in Nat /\ i < Most /\ i + 1 = k BY <1>0
<1> HIDE DEF i
<1>2. 2 ^ (i + 1) = 2 * 2 ^ i /\ p \in Nat \ {0} BY <1>0, <1>1, PowerNext, PowerType
<1>3. 2 ^ k = 2 * p BY <1>1, <1>2, Zenon
<1> HIDE DEF p
<1>4. (2 * x) \div (2 * p) = x \div p BY <1>2, HalveBoth
<1>5. (2 * x) \div 2 ^ k = x \div p BY <1>3, <1>4, Zenon
<1> QED BY <1>5, Zenon DEF Bit, p, i

LEMMA ShrIs ==
  ASSUME NEW z \in Sizes, NEW a \in Values(z), NEW k \in Nat, NEW f \in FlagSet
  PROVE  /\ k < ShrWidth(z) => Shr(z, a, k, f).value = a \div 2 ^ k
         /\ k > 0 /\ k <= LastWidth(z) =>
              Shr(z, a, k, f).flags.carry = (((2 * a) \div 2 ^ k) % 2 = 1)
<1> DEFINE W == ShrWidth(z)
           L == LastWidth(z)
           r == a \div 2 ^ (k % W)
           c == LastOut(z, a, k)
           o == ByOne(k, Bit(a, Top(z)) # Bit(r, Top(z)), f)
           j == Judged(z, r, f)
           i == k - 1
<1>1. /\ Bits[z] \in Nat \ {0} /\ 2 * Bits[z] <= Most - 1 /\ Most \in Nat
  BY Widths
<1>2. W \in Nat \ {0} /\ L \in Nat \ {0} /\ L <= Most BY <1>1 DEF ShrWidth, LastWidth
<1>3. Shr(z, a, k, f) = Outcome(r, [j EXCEPT !.carry = c, !.overflow = o]) BY DEF Shr
<1>4. r \in Values(z)
  <2>1. Fits(z, Shr(z, a, k, f)) BY ShrType
  <2> HIDE DEF r, j, c, o
  <2> QED BY <1>3, <2>1 DEF Fits, Outcome
<1>5. j \in FlagSet /\ c \in BOOLEAN /\ o \in BOOLEAN
  BY <1>4, JudgedType, ByOneType DEF Bit, LastOut
<1>6. k < W => k % W = k
  <2> HIDE DEF W
  <2> QED BY <1>2
<1>7. ASSUME k > 0, k <= L PROVE c <=> (((2 * a) \div 2 ^ k) % 2 = 1)
  <2>1. i % L = i
    <3> HIDE DEF L
    <3>1. i \in 0 .. L - 1 BY <1>2, <1>7
    <3> QED BY <1>2, <3>1
  <2>2. c <=> Bit(a, i) BY <2>1 DEF LastOut
  <2>3. k \in Nat \ {0} /\ k <= Most
    <3> HIDE DEF L
    <3> QED BY <1>1, <1>2, <1>7
  <2>4. a \in Int
    <3>1. a \in Nat BY ValuesAre
    <3> QED BY <3>1
  <2> HIDE DEF c
  <2> QED BY <2>2, <2>3, <2>4, LastBit
<1> HIDE DEF c, o, j
<1>8. Shr(z, a, k, f).value = r /\ Shr(z, a, k, f).flags.carry = c
  <2> HIDE DEF r
  <2> DEFINE g == [j EXCEPT !.carry = c, !.overflow = o]
  <2>1. g.carry = c BY <1>5 DEF FlagSet
  <2>2. Shr(z, a, k, f) = Outcome(r, g) BY <1>3
  <2> HIDE DEF g
  <2> QED BY <2>1, <2>2 DEF Outcome
<1>9. k < W => Shr(z, a, k, f).value = a \div 2 ^ k BY <1>6, <1>8
<1> DEFINE d == ((2 * a) \div 2 ^ k) % 2 = 1
<1>10. ASSUME k > 0, k <= L PROVE Shr(z, a, k, f).flags.carry = d
  <2>1. d \in BOOLEAN OBVIOUS
  <2>2. c <=> d BY <1>7, <1>10
  <2> HIDE DEF d
  <2> QED BY <1>5, <1>8, <2>1, <2>2
<1> HIDE DEF W, L
<1> QED BY <1>9, <1>10 DEF W, L

(* A signed number and the number of its bits have the same lower bits.    *)
LEMMA SignedBit ==
  ASSUME NEW z \in Sizes, NEW a \in Values(z), NEW i \in 0 .. Top(z)
  PROVE  Bit(a, i) <=> Bit(Signed(z, a), i)
<1> DEFINE n == N(z)
           j == Bits[z] - i
           p == 2 ^ i
           q == 2 ^ j
           m == Top(z) - i
           h == 2 ^ m
           x == Signed(z, a)
<1>1. /\ Bits[z] \in Nat \ {0} /\ Top(z) \in Nat /\ 2 * Bits[z] <= Most - 1 /\ Most \in Nat
      /\ Top(z) = Bits[z] - 1
  BY Widths DEF Top
<1>2. /\ i \in Nat /\ i <= Most /\ m \in Nat /\ m < Most /\ m + 1 = j
      /\ j \in Nat /\ i + j = Bits[z] /\ i + j <= Most /\ m <= Most
  BY <1>1
<1>3. p \in Nat \ {0} /\ h \in Nat \ {0} BY <1>2, PowerType
<1>4. q = 2 * h
  <2> HIDE DEF m, j
  <2>1. 2 ^ (m + 1) = 2 * 2 ^ m BY <1>2, PowerNext
  <2> QED BY <1>2, <2>1
<1>5. n = p * q
  <2> HIDE DEF m, j
  <2>1. 2 ^ (i + j) = 2 ^ i * 2 ^ j BY <1>2, PowerSum
  <2> QED BY <1>2, <2>1 DEF N
<1>6. a \in Nat /\ (x = a \/ x = a - n) BY ValuesAre DEF Signed
<1> HIDE DEF p, q, h, n, x
<1>7. CASE x = a BY <1>7 DEF x
<1>8. CASE x = a - n
  <2> DEFINE e == -q
             d == a \div p
             g == -h
  <2>1. a \in Int /\ q \in Nat /\ e \in Int /\ g \in Int BY <1>3, <1>4, <1>6
  <2>2. x = a + p * e
    <3>1. p * (-q) = -(p * q) /\ p * q \in Int BY <1>3, <2>1, Z3
    <3> QED BY <1>5, <1>8, <2>1, <3>1
  <2>3. d \in Int
    <3>1. a \div p \in Int BY <1>3, <2>1, DivMod
    <3> QED BY <3>1
  <2>4. e = 2 * g BY <1>3, <1>4
  <2> HIDE DEF e, g
  <2>5. (a + p * e) \div p = d + e BY <1>3, <2>1, DivAdd
  <2> HIDE DEF d
  <2>6. x \div p = d + 2 * g BY <2>2, <2>4, <2>5, Zenon
  <2>7. (d + 2 * g) % 2 = d % 2 BY <2>1, <2>3, EvenTerm
  <2>8. (x \div p) % 2 = d % 2 BY <2>6, <2>7, Zenon
  <2> QED BY <2>8, Zenon DEF Bit, p, d, x
<1> QED BY <1>6, <1>7, <1>8

LEMMA SarIs ==
  ASSUME NEW z \in Sizes, NEW a \in Values(z), NEW k \in Nat, NEW f \in FlagSet
  PROVE  LET t == Reduced(k)
         IN  /\ t \in Nat /\ t < Bits["dword"]
             /\ t < Bits[z] => Sar(z, a, k, f).value = Wrap(z, Signed(z, a) \div 2 ^ t)
             /\ t > 0 /\ t <= Bits[z] =>
                  Sar(z, a, k, f).flags.carry = (((2 * Signed(z, a)) \div 2 ^ t) % 2 = 1)
<1> DEFINE t == Reduced(k)
           B == Bits[z]
           r == Wrap(z, Signed(z, a) \div 2 ^ (t % B))
           o == ByOne(k, FALSE, f)
           i == t - 1
           c == Bit(a, i % B)
           j == Judged(z, r, f)
           d == ((2 * Signed(z, a)) \div 2 ^ t) % 2 = 1
<1>1. /\ B \in Nat \ {0} /\ 2 * B <= Most - 1 /\ Most \in Nat /\ Top(z) = B - 1
      /\ Bits["dword"] \in Nat \ {0}
  BY Widths DEF Sizes, Top
<1>2. t \in Nat /\ t < Bits["dword"]
  <2> DEFINE e == Bits["dword"]
  <2>1. k \in Int OBVIOUS
  <2> HIDE DEF e
  <2>2. k % e \in 0 .. e - 1 BY <1>1, <2>1, DivMod DEF e
  <2>3. t = k % e BY DEF Reduced, e
  <2> HIDE DEF t
  <2> QED BY <1>1, <2>2, <2>3 DEF e
<1>3. Sar(z, a, k, f) =
        IF t = 0 THEN Outcome(a, [f EXCEPT !.overflow = o])
        ELSE Outcome(r, [j EXCEPT !.carry = c, !.overflow = o])
  BY DEF Sar
<1>4. a \in Nat /\ Signed(z, a) \in Int
  <2>1. a \in Nat /\ a \in Int BY ValuesAre
  <2> QED BY <2>1, SignedType
<1>5. r \in Values(z)
  <2> DEFINE p == 2 ^ (t % B)
             x == Signed(z, a)
  <2>1. p \in Nat \ {0}
    <3> HIDE DEF t, B
    <3>1. t \in Int /\ B <= Most BY <1>1, <1>2
    <3> QED BY <1>1, <3>1, ReducedPower
  <2>2. x \in Int BY <1>4
  <2> HIDE DEF p, x
  <2>3. x \div p \in Int BY <2>1, <2>2, DivMod
  <2> QED BY <2>3, ValuesAre DEF x, p
<1>6. j \in FlagSet /\ c \in BOOLEAN /\ o \in BOOLEAN /\ d \in BOOLEAN
  BY <1>5, JudgedType, ByOneType DEF Bit
<1>7. ASSUME t < B PROVE Sar(z, a, k, f).value = Wrap(z, Signed(z, a) \div 2 ^ t)
  <2>1. t % B = t
    <3> HIDE DEF t, B
    <3>1. t \in 0 .. B - 1 BY <1>1, <1>2, <1>7
    <3> QED BY <1>1, <3>1
  <2>2. CASE t # 0
    <3>1. Sar(z, a, k, f).value = r BY <1>3, <2>2 DEF Outcome
    <3>2. r = Wrap(z, Signed(z, a) \div 2 ^ t) BY <2>1
    <3> QED BY <3>1, <3>2
  <2>3. CASE t = 0
    <3>1. Sar(z, a, k, f).value = a BY <1>3, <2>3 DEF Outcome
    <3>2. 2 ^ t = 1 BY <2>3, PowerAssumption
    <3>3. Signed(z, a) \div 1 = Signed(z, a) BY <1>4
    <3>4. Wrap(z, Signed(z, a)) = a
      <4>1. a < Half(z) => Signed(z, a) = a BY SignedIs
      <4>2. a >= Half(z) => Signed(z, a) = a - 2 * Half(z) BY SignedIs
      <4>3. N(z) = 2 * Half(z) /\ Half(z) \in Nat \ {0} /\ a < N(z) BY Halves, ValuesAre
      <4> DEFINE x == Signed(z, a)
      <4>4. /\ x >= 0 /\ x < N(z) => Wrap(z, x) = x
            /\ x < 0 /\ x >= -N(z) => Wrap(z, x) = x + N(z)
        BY <1>4, Wraps
      <4> DEFINE h == Half(z)
                 n == N(z)
                 w == Wrap(z, x)
      <4> HIDE DEF x, h, n, w
      <4>5. w = a BY <1>4, <4>1, <4>2, <4>3, <4>4 DEF x, h, n, w
      <4> QED BY <4>5 DEF w, x
    <3> QED BY <3>1, <3>2, <3>3, <3>4, Zenon
  <2> QED BY <2>2, <2>3
<1>8. ASSUME t > 0, t <= B PROVE Sar(z, a, k, f).flags.carry = d
  <2>1. i % B = i /\ i \in 0 .. Top(z) /\ t \in Nat \ {0} /\ t <= Most /\ t # 0
    <3> HIDE DEF t, B
    <3>1. i \in 0 .. B - 1 BY <1>1, <1>2, <1>8
    <3> QED BY <1>1, <1>2, <1>8, <3>1
  <2>2. c <=> Bit(a, i) BY <2>1
  <2> HIDE DEF t
  <2>3. Bit(a, i) <=> Bit(Signed(z, a), i)
    <3> HIDE DEF i
    <3> QED BY <2>1, SignedBit
  <2>4. Bit(Signed(z, a), i) <=> d BY <1>4, <2>1, LastBit
  <2> HIDE DEF c, d, j, o, r
  <2> DEFINE g == [j EXCEPT !.carry = c, !.overflow = o]
  <2>6. g.carry = c BY <1>6 DEF FlagSet
  <2>7. Sar(z, a, k, f) = Outcome(r, g) BY <1>3, <2>1
  <2> HIDE DEF g
  <2>5. Sar(z, a, k, f).flags.carry = c BY <2>6, <2>7 DEF Outcome
  <2> QED BY <1>6, <2>2, <2>3, <2>4, <2>5
<1> QED BY <1>2, <1>7, <1>8

(* What a shift does, or why the machine stops.                            *)
LEMMA ShiftsSets ==
  ASSUME TypeInv, result = "Ok", NEW overflows, NEW dst \in Regs, Instruction.dst = dst,
         NEW o, Shifts(overflows, o)
  PROVE  /\ given.checked /\ overflows => result' = "Panic"
         /\ ~ (given.checked /\ overflows) => Sets(dst, o) /\ result' = "Ok"
<1>1. CASE given.checked /\ overflows BY <1>1 DEF Shifts, Fails
<1>2. CASE ~ (given.checked /\ overflows)
  <2>1. Writes(o) BY <1>2 DEF Shifts
  <2>2. Sets(dst, o) BY <2>1, WritesSets
  <2> QED BY <1>2, <2>2 DEF Sets
<1> QED BY <1>1, <1>2

LEMMA ImmShifts ==
  ASSUME TypeInv, Next, NEW op \in ShiftOps, NEW dst \in Regs, NEW k, Instruction = Imm(op, dst, k)
  PROVE  /\ k \in Nat
         /\ op = "shl" => Shifts(ShlOverflows(s, k), Shl(s, regs[dst], k, flags))
         /\ op = "shr" => Shifts(ShrOverflows(s, k), Shr(s, regs[dst], k, flags))
         /\ op = "sar" => Shifts(SarOverflows(s, k), Sar(s, regs[dst], k, flags))
<1>1. /\ Instruction.op = op /\ Instruction.dst = dst
      /\ Destination = regs[dst] /\ \A m : Source(m) = k
  BY ImmIs
<1>2. ASSUME op = "shl"
      PROVE  Shifts(ShlOverflows(s, k), Shl(s, regs[dst], k, flags)) /\ Fetched("shl")
  BY <1>1, <1>2, Executes DEF ExecShl
<1>3. ASSUME op = "shr"
      PROVE  Shifts(ShrOverflows(s, k), Shr(s, regs[dst], k, flags)) /\ Fetched("shr")
  BY <1>1, <1>3, Executes DEF ExecShr
<1>4. ASSUME op = "sar"
      PROVE  Shifts(SarOverflows(s, k), Sar(s, regs[dst], k, flags)) /\ Fetched("sar")
  BY <1>1, <1>4, Executes DEF ExecSar
<1>5. PICK i \in ShiftOps : Fetched(i) BY <1>2, <1>3, <1>4 DEF ShiftOps
<1>6. k \in Nat
  <2>1. Source(regs) \in Nat BY <1>5, Known, Available
  <2> QED BY <1>1, <2>1
<1> QED BY <1>2, <1>3, <1>4, <1>6

CountInv ==
  given.name = "count" => Started \/ (todo = <<>> /\ ShiftCounts)

LEMMA CountStep ==
  ASSUME TypeInv, CountInv, Next
  PROVE  CountInv'
<1> SUFFICES ASSUME given.name = "count" PROVE CountInv' BY Stepping DEF CountInv
<1> DEFINE a == given.regs["acc"]
           i == given.code[1].imm
           B == Bits[s]
<1>1. PICK op \in ShiftOps : given.code = Single(op, i) BY DEF TypeInv, GivenInv, Listed
<1> DEFINE first == Imm(op, "acc", i)
<1>2. given.code = <<first>> BY <1>1 DEF Single
<1>3. given.code[1].op = op BY <1>2 DEF Imm
<1> HIDE DEF i
<1>4. (todo = given.code => Instruction = first) /\ Tail(given.code) = <<>>
  <2> HIDE DEF first
  <2> QED BY <1>2, OneStep
<1>5. /\ {"acc", "ext", "b", "c", "count"} \subseteq Regs /\ s \in Sizes /\ flags \in FlagSet
      /\ a \in Values(s)
  BY Known
<1>6. B \in Nat \ {0} /\ Top(s) = B - 1 BY <1>5, Widths DEF Top
<1>7. CASE Started
  <2>1. Instruction = Imm(op, "acc", i) BY <1>4, <1>7, Stepping
  <2>2. regs["acc"] = a /\ result = "Ok" BY <1>7 DEF Started
  <2>3. i \in Nat BY <1>5, <2>1, ImmShifts
  <2> DEFINE k == IF op = "sar" THEN Reduced(i) ELSE i
             checked == given.checked
             right == checked \/ k < Room(op)
             near == checked \/ k <= B
             odd == op = "shl" /\ s = "word"
  <2>4. /\ result' = "Panic" => checked /\ k \notin 1 .. Top(s)
        /\ result' = "Ok" /\ right => regs'["acc"] = Shifted(op, a, k)
        /\ result' = "Ok" /\ k > 0 /\ ~ odd /\ near => flags'.carry = MovedOut(op, a, k)
    <3>1. CASE op = "shl"
      <4> DEFINE o == Shl(s, a, i, flags)
                 e == ShlOverflows(s, i)
                 c == o.flags.carry
      <4>1. Shifts(e, o) BY <1>5, <2>1, <2>2, <3>1, ImmShifts
      <4>2. /\ k = i /\ (e <=> i >= 2 * B) /\ Room(op) = 2 * B
        BY <3>1 DEF ShlOverflows, ShlWidth, Room
      <4>3. ASSUME i < 2 * B
            PROVE  /\ o.value = Wrap(s, a * 2 ^ i)
                   /\ s # "word" => c = Bit(a * 2 ^ i, B)
        BY <1>5, <2>3, <4>3, ShlIs
      <4>4. /\ Shifted(op, a, k) = Wrap(s, a * 2 ^ i)
            /\ MovedOut(op, a, k) = Bit(a * 2 ^ i, B)
        BY <3>1 DEF Shifted, MovedOut
      <4> HIDE DEF o, e, k
      <4>5. /\ checked /\ e => result' = "Panic"
            /\ ~ (checked /\ e) => Sets("acc", o) /\ result' = "Ok"
        BY <1>5, <2>1, <2>2, <4>1, ShiftsSets DEF Imm
      <4> DEFINE v == Shifted(op, a, k)
                 w == MovedOut(op, a, k)
      <4>6. ASSUME i < 2 * B PROVE o.value = v /\ (s # "word" => c = w)
        BY <4>3, <4>4, <4>6
      <4> HIDE DEF v, w, c, checked
      <4>7. ~ (checked /\ e) => regs'["acc"] = o.value /\ flags'.carry = c
        BY <4>5 DEF Sets, c
      <4> HIDE DEF B
      <4>8. result' = "Panic" => checked /\ k \notin 1 .. Top(s)
        BY <1>6, <2>3, <4>2, <4>5
      <4>9. result' = "Ok" => ~ (checked /\ e) BY <4>5
      <4>10. result' = "Ok" /\ right => regs'["acc"] = v
        BY <1>6, <2>3, <4>2, <4>6, <4>7, <4>9
      <4>11. result' = "Ok" /\ k > 0 /\ ~ odd /\ near => flags'.carry = w
        BY <1>6, <2>3, <3>1, <4>2, <4>6, <4>7, <4>9
      <4> QED BY <4>8, <4>10, <4>11 DEF v, w
    <3>2. CASE op = "shr"
      <4> DEFINE o == Shr(s, a, i, flags)
                 e == ShrOverflows(s, i)
                 c == o.flags.carry
                 W == ShrWidth(s)
                 L == LastWidth(s)
                 bit == ((2 * a) \div 2 ^ i) % 2 = 1
                 q == a \div 2 ^ i
      <4>1. Shifts(e, o) BY <1>5, <2>1, <2>2, <3>2, ImmShifts
      <4>2. /\ k = i /\ (e <=> i = 0 \/ i >= W \/ i > L) /\ Room(op) = W
            /\ W >= B /\ L >= B /\ W \in Nat /\ L \in Nat
        BY <1>6, <3>2 DEF ShrOverflows, ShrWidth, LastWidth, Room
      <4>3. /\ i < W => o.value = q
            /\ i > 0 /\ i <= L => c = bit
        BY <1>5, <2>3, ShrIs
      <4>4. Shifted(op, a, k) = q /\ MovedOut(op, a, k) = bit
        BY <3>2 DEF Shifted, MovedOut
      <4> HIDE DEF o, e, k
      <4>5. /\ checked /\ e => result' = "Panic"
            /\ ~ (checked /\ e) => Sets("acc", o) /\ result' = "Ok"
        BY <1>5, <2>1, <2>2, <4>1, ShiftsSets DEF Imm
      <4> DEFINE v == Shifted(op, a, k)
                 w == MovedOut(op, a, k)
      <4> HIDE DEF c, W, L, bit, q
      <4>6. /\ i < W => o.value = v
            /\ i > 0 /\ i <= L => c = w
        BY <4>3, <4>4
      <4> HIDE DEF v, w, checked
      <4>7. ~ (checked /\ e) => regs'["acc"] = o.value /\ flags'.carry = c
        BY <4>5 DEF Sets, c
      <4> HIDE DEF B
      <4>8. result' = "Panic" => checked /\ k \notin 1 .. Top(s)
        BY <1>6, <2>3, <4>2, <4>5
      <4>9. result' = "Ok" => ~ (checked /\ e) BY <4>5
      <4>10. result' = "Ok" /\ right => regs'["acc"] = v
        BY <1>6, <2>3, <4>2, <4>6, <4>7, <4>9
      <4>11. result' = "Ok" /\ k > 0 /\ near => flags'.carry = w
        BY <1>6, <2>3, <4>2, <4>6, <4>7, <4>9
      <4> QED BY <4>8, <4>10, <4>11 DEF v, w
    <3>3. CASE op = "sar"
      <4> DEFINE o == Sar(s, a, i, flags)
                 e == SarOverflows(s, i)
                 c == o.flags.carry
                 t == Reduced(i)
                 bit == ((2 * Signed(s, a)) \div 2 ^ t) % 2 = 1
                 q == Wrap(s, Signed(s, a) \div 2 ^ t)
      <4>1. Shifts(e, o) BY <1>5, <2>1, <2>2, <3>3, ImmShifts
      <4>2. k = t /\ (e <=> t >= B) /\ Room(op) = B BY <3>3 DEF SarOverflows, Room
      <4>3. /\ t \in Nat
            /\ t < B => o.value = q
            /\ t > 0 /\ t <= B => c = bit
        BY <1>5, <2>3, SarIs
      <4>4. Shifted(op, a, k) = q /\ MovedOut(op, a, k) = bit
        BY <3>3 DEF Shifted, MovedOut
      <4> HIDE DEF o, e, k, t
      <4>5. /\ checked /\ e => result' = "Panic"
            /\ ~ (checked /\ e) => Sets("acc", o) /\ result' = "Ok"
        BY <1>5, <2>1, <2>2, <4>1, ShiftsSets DEF Imm
      <4> DEFINE v == Shifted(op, a, k)
                 w == MovedOut(op, a, k)
      <4> HIDE DEF c, bit, q
      <4>6. /\ t < B => o.value = v
            /\ t > 0 /\ t <= B => c = w
        BY <4>3, <4>4
      <4> HIDE DEF v, w, checked
      <4>7. ~ (checked /\ e) => regs'["acc"] = o.value /\ flags'.carry = c
        BY <4>5 DEF Sets, c
      <4> HIDE DEF B
      <4>8. result' = "Panic" => checked /\ k \notin 1 .. Top(s)
        BY <1>6, <4>2, <4>3, <4>5
      <4>9. result' = "Ok" => ~ (checked /\ e) BY <4>5
      <4>10. result' = "Ok" /\ right => regs'["acc"] = v
        BY <1>6, <4>2, <4>3, <4>6, <4>7, <4>9
      <4>11. result' = "Ok" /\ k > 0 /\ near => flags'.carry = w
        BY <1>6, <4>2, <4>3, <4>6, <4>7, <4>9
      <4> QED BY <4>8, <4>10, <4>11 DEF v, w
    <3> QED BY <3>1, <3>2, <3>3 DEF ShiftOps
  <2>5. ShiftCounts'
    <3>1. /\ s' = s /\ given' = given /\ Room(op)' = Room(op)
          /\ Shifted(op, a, k)' = Shifted(op, a, k)
          /\ MovedOut(op, a, k)' = MovedOut(op, a, k)
      BY Stepping DEF Room, Shifted, MovedOut, i
    <3> QED BY <1>3, <2>4, <3>1 DEF ShiftCounts, i
  <2>6. todo' = <<>> BY <1>4, <1>7, Stepping
  <2> QED BY <2>5, <2>6 DEF CountInv
<1>8. CASE todo = <<>> BY <1>8, Stepping
<1> QED BY <1>7, <1>8 DEF CountInv

(* A shift by any count gives the value and the carry that it should,      *)
(* where there is room and but for the carry of a 16-bit shl, and stops a  *)
(* machine with overflow checks for the counts alone that are too large or *)
(* zero.                                                                   *)
THEOREM Counts == Spec => []ShiftCounts
<1> DEFINE Inv == TypeInv /\ CountInv
<1>1. Init => Inv BY TypeStart, Begins DEF CountInv
<1>2. Inv /\ [Next]_vars => Inv'
  <2> SUFFICES ASSUME Inv, [Next]_vars PROVE Inv' OBVIOUS
  <2>1. TypeInv' BY TypeKept
  <2>2. CASE Next BY <2>1, <2>2, CountStep
  <2>3. CASE UNCHANGED vars
    <3>1. Started' = Started /\ todo' = todo /\ given' = given
      BY <2>3 DEF vars, Started
    <3>2. ShiftCounts' = ShiftCounts
      BY <2>3 DEF vars, s, ShiftCounts, Runs, Room, Shifted, MovedOut
    <3> QED BY <2>1, <3>1, <3>2 DEF CountInv
  <2> QED BY <2>2, <2>3
<1>3. Inv => ShiftCounts
  <2> SUFFICES ASSUME Inv, given.name = "count", todo = <<>> PROVE ShiftCounts
    BY DEF ShiftCounts, Runs
  <2>1. ~ Started BY NotEmpty
  <2> QED BY <2>1 DEF CountInv
<1> QED BY <1>1, <1>2, <1>3, PTL DEF Spec

-----------------------------------------------------------------------------
(* Rotations                                                               *)

(* Turning by nothing.                                                     *)
LEMMA NoTurn ==
  ASSUME NEW m \in Nat \ {0}, NEW x \in 0 .. m - 1
  PROVE  Turned(x, 0, m) = x
<1>1. 2 ^ 0 = 1 BY PowerAssumption
<1>2. x * 1 = x OBVIOUS
<1>3. x % m = x /\ x \div m = 0 OBVIOUS
<1> QED BY <1>1, <1>2, <1>3 DEF Turned

(* A register and the carry in front of it.                                *)
LEMMA RingIs ==
  ASSUME NEW z \in Sizes, NEW x \in Values(z), NEW c \in BOOLEAN
  PROVE  /\ N(z) * Number(c) + x \in 0 .. 2 * N(z) - 1
         /\ 2 * N(z) \in Nat \ {0} /\ Number(c) \in {0, 1}
<1>1. N(z) \in Nat \ {0} /\ x \in Nat /\ x < N(z) BY Halves, ValuesAre
<1>2. Number(c) \in {0, 1} BY DEF Number
<1> DEFINE k == Number(c)
           n == N(z)
<1> HIDE DEF k, n
<1>3. n * 0 = 0 /\ n * 1 = n BY <1>1 DEF n
<1> QED BY <1>1, <1>2, <1>3 DEF k, n

(* The parts of a ring that is turned by k places.                         *)
LEMMA RingPlaces ==
  ASSUME NEW z \in Sizes, NEW k \in 1 .. Top(z)
  PROVE  /\ Turns(z, k) = k /\ k \in Nat /\ k # 0
         /\ 2 ^ (k - 1) \in Nat \ {0} /\ 2 ^ (Bits[z] + 1 - k) \in Nat \ {0}
         /\ 2 ^ k = 2 * 2 ^ (k - 1)
         /\ N(z) = 2 ^ (k - 1) * 2 ^ (Bits[z] + 1 - k)
         /\ 2 ^ (Bits[z] + 1) = 2 * N(z)
<1> DEFINE i == k - 1
           j == Bits[z] + 1 - k
<1>1. /\ Bits[z] \in Nat \ {0} /\ 2 * Bits[z] <= Most - 1 /\ Most \in Nat
      /\ Top(z) = Bits[z] - 1
  BY Widths DEF Top
<1>2. /\ i \in Nat /\ j \in Nat /\ i + j = Bits[z] /\ Bits[z] <= Most /\ i < Most
      /\ j <= Most /\ i + 1 = k /\ i <= Most /\ i + j <= Most /\ Bits[z] < Most
  BY <1>1
<1>3. k % Bits[z] = k
  <2> DEFINE B == Bits[z]
  <2> HIDE DEF B
  <2>1. B \in Nat \ {0} /\ k \in 0 .. B - 1 BY <1>1 DEF B
  <2>2. k % B = k BY <2>1
  <2> QED BY <2>2 DEF B
<1> HIDE DEF i, j
<1>4. 2 ^ i \in Nat \ {0} /\ 2 ^ j \in Nat \ {0} BY <1>2, PowerType
<1>5. 2 ^ (i + 1) = 2 * 2 ^ i BY <1>2, PowerNext
<1>6. 2 ^ (i + j) = 2 ^ i * 2 ^ j BY <1>2, PowerSum
<1>7. 2 ^ (Bits[z] + 1) = 2 * 2 ^ Bits[z] BY <1>1, <1>2, PowerNext
<1>8. 2 ^ k = 2 * 2 ^ i BY <1>2, <1>5, Zenon
<1>9. N(z) = 2 ^ i * 2 ^ j BY <1>2, <1>6, Zenon DEF N
<1>10. k \in Nat /\ k # 0 BY <1>1
<1> QED BY <1>3, <1>4, <1>7, <1>8, <1>9, <1>10 DEF Turns, N, i, j

LEMMA RclTurns ==
  ASSUME NEW z \in Sizes, NEW a \in Values(z), NEW k \in 0 .. Top(z), NEW f \in FlagSet
  PROVE  LET o == Rcl(z, a, k, f)
         IN  N(z) * Number(o.flags.carry) + o.value
               = Turned(N(z) * Number(f.carry) + a, k, 2 * N(z))
<1> DEFINE o == Rcl(z, a, k, f)
           n == N(z)
           m == 2 * n
           c == Number(f.carry)
           x == n * c + a
<1>1. f.carry \in BOOLEAN BY FlagsAre
<1>2. x \in 0 .. m - 1 /\ m \in Nat \ {0} /\ c \in {0, 1} BY <1>1, RingIs
<1>3. CASE k = 0
  <2>1. Turns(z, k) = 0
    <3> DEFINE B == Bits[z]
    <3>1. B \in Nat \ {0} BY Widths
    <3> HIDE DEF B
    <3>2. 0 % B = 0 BY <3>1
    <3> QED BY <1>3, <3>2, Zenon DEF Turns, B
  <2>2. o.value = a /\ o.flags = f BY <2>1 DEF Rcl, Outcome
  <2> HIDE DEF x, m
  <2>3. Turned(x, 0, m) = x BY <1>2, NoTurn
  <2> HIDE DEF o, n
  <2>4. n * Number(o.flags.carry) + o.value = x BY <2>2, Zenon DEF x, c
  <2>5. n * Number(o.flags.carry) + o.value = Turned(x, k, m) BY <1>3, <2>3, <2>4, Zenon
  <2> QED BY <2>5, Zenon DEF x, m, c, n, o
<1>4. CASE k \in 1 .. Top(z)
  <2> DEFINE h == 2 ^ (k - 1)
             q == 2 ^ (Bits[z] + 1 - k)
             p == 2 ^ k
             base == 2 * a + c
             u == base \div q
             wide == base * p + u
             r == Wrap(z, wide \div 2)
             e == Bit(wide, Bits[z] + 1)
             sign == Bit(IF z = "dword" THEN r ELSE wide, Top(z))
             v == ByOne(k, sign # e, f)
             y == n * (u % 2) + ((wide \div 2) % n)
  <2>1. /\ Turns(z, k) = k /\ k # 0 /\ h \in Nat \ {0} /\ q \in Nat \ {0} /\ p = 2 * h
        /\ n = h * q /\ 2 ^ (Bits[z] + 1) = m
    BY <1>4, RingPlaces
  <2>2. o = Outcome(r, [f EXCEPT !.carry = e, !.overflow = v])
    BY <2>1 DEF Rcl
  <2>3. e \in BOOLEAN /\ v \in BOOLEAN BY ByOneType DEF Bit
  <2>4. o.value = r /\ o.flags.carry = e
    <3> HIDE DEF r, e, v
    <3> DEFINE g == [f EXCEPT !.carry = e, !.overflow = v]
    <3>1. g.carry = e BY <2>3 DEF FlagSet
    <3>2. o = Outcome(r, g) BY <2>2
    <3> HIDE DEF g, o
    <3> QED BY <3>1, <3>2 DEF Outcome
  <2>5. a \in Nat /\ a < n BY ValuesAre
  <2>6. /\ wide \div m = u /\ wide \in Int /\ u \in Int
        /\ y = ((x * p) % m) + ((x * p) \div m)
    <3> HIDE DEF h, q, p, n, c
    <3>1. a < h * q BY <2>1, <2>5
    <3> DEFINE n1 == h * q
               p1 == 2 * h
               u1 == (2 * a + c) \div q
               w1 == (2 * a + c) * p1 + u1
               x1 == n1 * c + a
    <3>2. /\ w1 \div (2 * n1) = u1
          /\ n1 * (u1 % 2) + ((w1 \div 2) % n1)
               = ((x1 * p1) % (p1 * q)) + ((x1 * p1) \div (p1 * q))
          /\ w1 \in Int /\ u1 \in Int
      <4>1. TurnedBehind(h, q, a, c) BY <1>2, <2>1, <2>5, <3>1, TurnRing
      <4> QED BY <4>1, Zenon DEF TurnedBehind
    <3>3. p1 * q = 2 * n1 BY <2>1, Z3
    <3>4. n1 = n /\ p1 = p BY <2>1
    <3>5. u1 = u OBVIOUS
    <3> HIDE DEF n1, p1, u1, u
    <3>6. w1 = wide /\ x1 = x BY <3>4, <3>5
    <3> HIDE DEF w1, x1, wide, x
    <3> QED BY <3>2, <3>3, <3>4, <3>5, <3>6
  <2>7. e <=> u % 2 = 1
    <3> HIDE DEF wide, u
    <3> QED BY <2>1, <2>6, Zenon DEF Bit
  <2>8. Number(e) = u % 2
    <3> HIDE DEF u, e
    <3>1. u % 2 \in {0, 1} BY <2>6
    <3> QED BY <2>3, <2>7, <3>1 DEF Number
  <2>9. y = n * Number(o.flags.carry) + o.value
    <3> HIDE DEF e, u, wide, o, n
    <3> QED BY <2>4, <2>8, Zenon DEF Wrap, n
  <2> HIDE DEF y, p, x, m, o, n
  <2> QED BY <2>6, <2>9, Zenon DEF Turned, p, x, m, o, n, c
<1>5. k = 0 \/ k \in 1 .. Top(z)
  <2>1. Top(z) \in Nat BY Widths
  <2> QED BY <2>1
<1> QED BY <1>3, <1>4, <1>5

LEMMA RcrTurns ==
  ASSUME NEW z \in Sizes, NEW a \in Values(z), NEW k \in 0 .. Top(z), NEW f \in FlagSet
  PROVE  LET o == Rcr(z, a, k, f)
         IN  Turned(N(z) * Number(o.flags.carry) + o.value, k, 2 * N(z))
               = N(z) * Number(f.carry) + a
<1> DEFINE o == Rcr(z, a, k, f)
           n == N(z)
           m == 2 * n
           c == Number(f.carry)
           x == n * c + a
           w == n * Number(o.flags.carry) + o.value
<1>1. f.carry \in BOOLEAN BY FlagsAre
<1>2. x \in 0 .. m - 1 /\ m \in Nat \ {0} /\ c \in {0, 1} BY <1>1, RingIs
<1>3. CASE k = 0
  <2>1. Turns(z, k) = 0
    <3> DEFINE B == Bits[z]
    <3>1. B \in Nat \ {0} BY Widths
    <3> HIDE DEF B
    <3>2. 0 % B = 0 BY <3>1
    <3> QED BY <1>3, <3>2, Zenon DEF Turns, B
  <2>2. o.value = a /\ o.flags = f BY <2>1 DEF Rcr, Outcome
  <2> HIDE DEF x, m
  <2>3. Turned(x, 0, m) = x BY <1>2, NoTurn
  <2> HIDE DEF o, n
  <2>4. w = x BY <2>2, Zenon DEF x, c
  <2> HIDE DEF w
  <2>5. Turned(w, k, m) = x BY <1>3, <2>3, <2>4, Zenon
  <2> QED BY <2>5, Zenon DEF x, m, c, n, w, o
<1>4. CASE k \in 1 .. Top(z)
  <2> DEFINE h == 2 ^ (k - 1)
             q == 2 ^ (Bits[z] + 1 - k)
             p == 2 ^ k
             base == a + n * c
             g == base \div p
             wide == g + base * q
             r == Wrap(z, wide)
             e == Bit(wide, Bits[z])
             v == ByOne(k, Bit(r, Top(z)) # Bit(r, Top(z) - 1), f)
             y == q * (base % p) + g
             b == (wide \div n) % 2
  <2>1. /\ Turns(z, k) = k /\ k # 0 /\ h \in Nat \ {0} /\ q \in Nat \ {0} /\ p = 2 * h
        /\ n = h * q
    BY <1>4, RingPlaces
  <2>2. o = Outcome(r, [f EXCEPT !.carry = e, !.overflow = v])
    BY <2>1 DEF Rcr
  <2>3. e \in BOOLEAN /\ v \in BOOLEAN BY ByOneType DEF Bit
  <2>4. o.value = r /\ o.flags.carry = e
    <3> HIDE DEF r, e, v
    <3> DEFINE i == [f EXCEPT !.carry = e, !.overflow = v]
    <3>1. i.carry = e BY <2>3 DEF FlagSet
    <3>2. o = Outcome(r, i) BY <2>2
    <3> HIDE DEF i, o
    <3> QED BY <3>1, <3>2 DEF Outcome
  <2>5. a \in Nat /\ n \in Nat \ {0} BY ValuesAre, Halves
  <2>6. p \in Nat \ {0} /\ m = p * q /\ m = q * p
    <3> HIDE DEF h, q, p, n
    <3>1. (2 * h) * q = 2 * (h * q) /\ p * q = q * p /\ p \in Nat \ {0} BY <2>1, Z3
    <3> QED BY <2>1, <3>1
  <2>7. base = x
    <3> HIDE DEF n, c
    <3>1. n * c \in Int BY <1>2, <2>5
    <3> QED BY <2>5, <3>1
  <2> HIDE DEF h, q, p, n, c, base, x, m
  <2>8. base \in Nat /\ base < m BY <1>2, <2>7
  <2>9. /\ g \in 0 .. q - 1 /\ base % p \in 0 .. p - 1
        /\ (base * q) % m = q * (base % p) /\ (base * q) \div m = g
        /\ y \in Nat /\ y < m
    <3>1. base < q * p BY <2>6, <2>8
    <3>2. /\ base \div p \in 0 .. q - 1 /\ base % p \in 0 .. p - 1
          /\ (base * q) % (q * p) = q * (base % p) /\ (base * q) \div (q * p) = base \div p
          /\ q * (base % p) + (base \div p) \in Nat
          /\ q * (base % p) + (base \div p) < q * p
      BY <2>1, <2>6, <2>8, <3>1, TurnOver
    <3> QED BY <2>6, <3>2
  <2>10. wide = 2 * (n * g) + y
    <3> DEFINE j == base * q
    <3>1. j \in Int /\ g \in Int /\ n * g \in Int BY <2>1, <2>5, <2>8, <2>9
    <3>2. j = m * (j \div m) + (j % m)
      <4> HIDE DEF j
      <4> QED BY <1>2, <3>1, DivMod
    <3>3. (j \div m) = g /\ (j % m) = q * (base % p) BY <2>9
    <3> DEFINE l == q * (base % p)
    <3>4. l \in Int
      <4>1. base % p \in Int BY <2>9
      <4> QED BY <2>1, <4>1
    <3> HIDE DEF j, l, g
    <3>5. j = m * g + l BY <3>2, <3>3, Zenon DEF l
    <3>6. m * g = 2 * (n * g)
      <4>1. (2 * n) * g = 2 * (n * g) BY <2>5, <3>1, Z3
      <4> QED BY <4>1 DEF m
    <3>7. wide = g + j BY DEF j
    <3>8. y = l + g BY DEF l
    <3> HIDE DEF wide, y
    <3> QED BY <3>1, <3>4, <3>5, <3>6, <3>7, <3>8
  <2>11. b \in {0, 1} /\ n * b + (wide % n) = y
    <3>1. g \in Int /\ y \in Nat /\ y < 2 * n BY <2>9 DEF m
    <3> HIDE DEF g, y
    <3> DEFINE t == 2 * (n * g) + y
    <3>2. (t \div n) % 2 \in {0, 1} /\ n * ((t \div n) % 2) + (t % n) = y
      BY <2>5, <3>1, UpperBit
    <3>3. t = wide BY <2>10
    <3> HIDE DEF t, wide
    <3> QED BY <3>2, <3>3, Zenon
  <2> HIDE DEF wide, y
  <2>12. e <=> b = 1 BY Zenon DEF Bit, n, N
  <2> HIDE DEF b, e
  <2>13. Number(e) = b BY <2>3, <2>11, <2>12 DEF Number
  <2> HIDE DEF o
  <2>14. w = y BY <2>4, <2>11, <2>13, Zenon DEF Wrap, n
  <2>15. ((y * p) % m) + ((y * p) \div m) = x
    <3>1. base < q * p BY <2>6, <2>8
    <3> DEFINE t == q * (base % p) + (base \div p)
    <3>2. ((t * p) % (p * q)) + ((t * p) \div (p * q)) = base
      <4>1. TurnedBack(q, p, base) BY <2>1, <2>6, <2>8, <3>1, TurnBack
      <4> QED BY <4>1, Zenon DEF TurnedBack
    <3>3. t = y BY DEF y
    <3> HIDE DEF t
    <3> QED BY <2>6, <2>7, <3>2, <3>3, Zenon
  <2> HIDE DEF w
  <2>16. Turned(w, k, m) = x BY <2>14, <2>15, Zenon DEF Turned, p
  <2> QED BY <2>16, Zenon DEF w, x, m, n, c, o
<1>5. k = 0 \/ k \in 1 .. Top(z)
  <2>1. Top(z) \in Nat BY Widths
  <2> QED BY <2>1
<1> QED BY <1>3, <1>4, <1>5

LEMMA RolTurns ==
  ASSUME NEW z \in Sizes, NEW a \in Values(z), NEW k \in 0 .. Top(z), NEW f \in FlagSet,
         NEW g \in FlagSet
  PROVE  LET r == Rol(z, a, k, f).value
         IN  r = Turned(a, k, N(z)) /\ r \in Values(z) /\ Ror(z, r, k, g).value = a
<1> DEFINE n == N(z)
           r == Rol(z, a, k, f).value
           back == Ror(z, r, k, g).value
<1>1. a \in Nat /\ a < n /\ n \in Nat \ {0} BY ValuesAre, Halves
<1>2. k = 0 \/ k \in 1 .. Top(z)
  <2>1. Top(z) \in Nat BY Widths
  <2> QED BY <2>1
<1>3. r \in Values(z)
  <2>1. k \in Nat
    <3>1. Top(z) \in Nat BY Widths
    <3> QED BY <3>1
  <2> QED BY <2>1, RolType DEF Fits
<1>4. CASE k = 0
  <2>1. Turns(z, k) = 0
    <3> DEFINE B == Bits[z]
    <3>1. B \in Nat \ {0} BY Widths
    <3> HIDE DEF B
    <3>2. 0 % B = 0 BY <3>1
    <3> QED BY <1>4, <3>2, Zenon DEF Turns, B
  <2>2. r = a BY <2>1 DEF Rol, Outcome
  <2>3. back = r BY <2>1 DEF Ror, Outcome
  <2>4. Turned(a, 0, n) = a
    <3> HIDE DEF n
    <3>1. a \in 0 .. n - 1 BY <1>1
    <3> QED BY <1>1, <3>1, NoTurn
  <2> HIDE DEF r, back
  <2> QED BY <1>3, <1>4, <2>2, <2>3, <2>4, Zenon DEF r, back, n
<1>5. CASE k \in 1 .. Top(z)
  <2> DEFINE q == 2 ^ (Bits[z] - k)
             p == 2 ^ k
             y == p * (a % q) + (a \div q)
  <2>1. Turns(z, k) = k /\ k # 0 BY <1>5, RingPlaces
  <2>2. p \in Nat \ {0} /\ q \in Nat \ {0} /\ n = p * q BY <1>5, Places
  <2>3. r = Wrap(z, a * p) + (a \div q) BY <2>1 DEF Rol, Outcome
  <2>4. back = (r \div p) + Wrap(z, r * q)
    <3> HIDE DEF r
    <3> QED BY <2>1 DEF Ror, Outcome
  <2> HIDE DEF p, q, n, r, back
  <2>5. a < p * q BY <1>1, <2>2
  <2>6. (a * p) % (p * q) = p * (a % q) /\ (a * p) \div (p * q) = a \div q
    <3>1. p \in Nat \ {0} /\ q \in Nat \ {0} /\ a \in Nat BY <1>1, <2>2
    <3> QED BY <2>5, <3>1, TurnOver
  <2>7. r = y BY <2>2, <2>3, <2>6, Zenon DEF Wrap, n
  <2>8. Turned(a, k, n) = y BY <2>2, <2>6, Zenon DEF Turned, p
  <2>9. /\ (y * q) % (q * p) = q * (a \div q) /\ y \div p = a % q
    <3>1. TurnedBack(p, q, a) BY <1>1, <2>2, <2>5, TurnBack
    <3> QED BY <3>1, Zenon DEF TurnedBack
  <2>10. back = (a % q) + q * (a \div q)
    <3>1. n = q * p BY <2>2, Z3
    <3> QED BY <2>4, <2>7, <2>9, <3>1, Zenon DEF Wrap, n
  <2>11. back = a
    <3> DEFINE d == a \div q
               e == a % q
    <3>1. d \in Int /\ e \in Int /\ a = q * d + e
      <4>1. a \in Int BY <1>1
      <4> QED BY <2>2, <4>1, DivMod
    <3> HIDE DEF d, e
    <3>2. q * d \in Int BY <2>2, <3>1
    <3>3. back = e + q * d BY <2>10 DEF d, e
    <3> QED BY <3>1, <3>2, <3>3
  <2> QED BY <1>3, <2>7, <2>8, <2>11 DEF r, back, n
<1> QED BY <1>2, <1>4, <1>5

-----------------------------------------------------------------------------
(* Shifts of two words by one                                              *)

LEMMA TurnOne ==
  ASSUME NEW n \in Nat \ {0}, NEW x \in 0 .. n - 1, NEW c \in {0, 1}
  PROVE  Turned(n * c + x, 1, 2 * n) = 2 * x + c
<1> DEFINE m == 2 * n
           y == n * c + x
           l == 2 * x
<1>1. 2 ^ 1 = 2
  <2>1. Most \in Nat /\ 0 < Most
    <3>1. Bits["byte"] \in Nat \ {0} /\ 2 * Bits["byte"] <= Most - 1 /\ Most \in Nat
      BY Widths DEF Sizes
    <3> QED BY <3>1
  <2>2. 2 ^ (0 + 1) = 2 * 2 ^ 0 BY <2>1, PowerNext
  <2>3. 2 ^ 0 = 1 BY PowerAssumption
  <2>4. 0 + 1 = 1 /\ 2 * 1 = 2 OBVIOUS
  <2> QED BY <2>2, <2>3, <2>4, Zenon
<1>2. m \in Nat \ {0} /\ l \in 0 .. m - 1 /\ c \in Int OBVIOUS
<1>3. y * 2 = m * c + l
  <2>1. (n * c + x) * 2 = (2 * n) * c + 2 * x BY Z3
  <2> QED BY <2>1
<1> HIDE DEF m, l, y
<1>4. (m * c + l) % m = l /\ (m * c + l) \div m = c BY <1>2, DivUnique
<1>5. Turned(y, 1, m) = l + c BY <1>1, <1>3, <1>4, Zenon DEF Turned
<1> QED BY <1>5, Zenon DEF m, y, l

(* To the left: the lower word was shifted by one, and the upper word with *)
(* the carry k before it came to be v with the carry c.                    *)
LeftIs(n, h, a, e, v, k, c) ==
  LET low == (2 * a) % n
      x == 2 * (e * n + a)
  IN  /\ v * n + low = x % (n * n) <=> (k = 1 <=> a >= h)
      /\ c = 1 <=> x >= n * n

LEMMA LongLeft ==
  ASSUME NEW h \in Nat \ {0}, NEW n \in Nat \ {0}, n = 2 * h, NEW a \in 0 .. n - 1, NEW e \in 0 .. n - 1,
         NEW v \in 0 .. n - 1, NEW k \in {0, 1}, NEW c \in {0, 1}, n * c + v = 2 * e + k
  PROVE  LeftIs(n, h, a, e, v, k, c)
<1> DEFINE low == (2 * a) % n
           x == 2 * (e * n + a)
           b == IF a >= h THEN 1 ELSE 0
           q == 2 * e + b
           r == q % n
<1>1. b \in {0, 1} /\ (b = 1 <=> a >= h) /\ (b = 0 <=> a < h) OBVIOUS
<1>2. low = 2 * a - n * b /\ low \in 0 .. n - 1
  <2> DEFINE l == 2 * a - n * b
  <2>1. b = 0 => n * b = 0 OBVIOUS
  <2>2. b = 1 => n * b = n OBVIOUS
  <2> HIDE DEF b
  <2>3. l \in 0 .. n - 1 BY <1>1, <2>1, <2>2
  <2>4. n * b + l = 2 * a
    <3>1. n * b \in Int BY <1>1
    <3> QED BY <3>1
  <2> HIDE DEF l
  <2>5. (n * b + l) % n = l
    <3>1. b \in Int BY <1>1
    <3> QED BY <2>3, <3>1, DivUnique
  <2>6. low = l BY <2>4, <2>5, Zenon
  <2> HIDE DEF low
  <2> QED BY <2>3, <2>6 DEF l
<1> HIDE DEF b, low
<1>3. q \in Nat /\ q < 2 * n BY <1>1
<1>4. x = q * n + low
  <2>1. 2 * (e * n + a) = (2 * e + b) * n + (2 * a - n * b) BY <1>1, Z3
  <2> QED BY <1>2, <2>1
<1> HIDE DEF x
<1>5. c = 1 => n * c = n OBVIOUS
<1>6. c = 0 => n * c = 0 OBVIOUS
<1>7. c = 1 <=> q >= n BY <1>1, <1>5, <1>6
<1> HIDE DEF q
<1>8. /\ (q * n + low) % (n * n) = (q % n) * n + low
      /\ q * n + low >= n * n <=> q >= n
  <2>1. q \in Int BY <1>3
  <2> DEFINE Upper(m) == /\ (q * m + low) % (m * m) = (q % m) * m + low
                         /\ q * m + low >= m * m <=> q >= m
  <2>2. ASSUME NEW m \in Nat \ {0}, low \in 0 .. m - 1 PROVE Upper(m)
    BY <2>1, <2>2, TwoWords
  <2>3. n \in Nat \ {0} OBVIOUS
  <2> HIDE DEF Upper
  <2>4. Upper(n) BY <1>2, <2>2, <2>3, Zenon
  <2> QED BY <2>4, Zenon DEF Upper
<1>9. r = IF c = 1 THEN q - n ELSE q
  <2>1. CASE c = 1
    <3> DEFINE l == q - n
    <3>1. l \in 0 .. n - 1 /\ n * 1 + l = q /\ 1 \in Int BY <1>3, <1>7, <2>1
    <3> HIDE DEF l
    <3>2. (n * 1 + l) % n = l BY <3>1, DivUnique
    <3>3. r = l BY <3>1, <3>2, Zenon
    <3> HIDE DEF r
    <3> QED BY <2>1, <3>3 DEF l
  <2>2. CASE c = 0
    <3>1. q \in 0 .. n - 1 BY <1>3, <1>7, <2>2
    <3>2. q % n = q BY <3>1
    <3> QED BY <2>2, <3>2
  <2> QED BY <2>1, <2>2
<1> HIDE DEF r
<1>10. r \in Int /\ (v = r <=> k = b) BY <1>1, <1>3, <1>5, <1>6, <1>9 DEF q
<1>11. v * n + low = r * n + low <=> v = r
  <2>1. /\ v * n = n * v /\ r * n = n * r BY <1>10, Z3
  <2>2. /\ n * v <= n * r <=> v <= r
        /\ n * r <= n * v <=> r <= v
    BY <1>10, ProductOrder
  <2>3. n * v \in Int /\ n * r \in Int BY <1>10
  <2> DEFINE i == n * v
             j == n * r
  <2>6. i \in Int /\ j \in Int /\ (i <= j <=> v <= r) /\ (j <= i <=> r <= v) BY <2>2, <2>3
  <2>5. v * n = i /\ r * n = j BY <2>1
  <2> HIDE DEF i, j
  <2>7. low \in Int /\ v \in Int /\ r \in Int BY <1>2, <1>10
  <2>4. i + low = j + low <=> v = r BY <2>6, <2>7
  <2> QED BY <2>4, <2>5, Zenon
<1>12. x % (n * n) = r * n + low BY <1>4, <1>8, Zenon DEF r
<1>13. v * n + low = x % (n * n) <=> (k = 1 <=> a >= h)
  <2>1. k = b <=> (k = 1 <=> a >= h) BY <1>1
  <2> QED BY <1>10, <1>11, <1>12, <2>1, Zenon
<1>14. c = 1 <=> x >= n * n BY <1>4, <1>7, <1>8, Zenon
<1> QED BY <1>13, <1>14 DEF LeftIs, low, x

(* To the right: the upper word was shifted by one, and the lower word     *)
(* with the bit k before it came to be v with the carry c.                 *)
RightIs(n, e, a, v, c) ==
  (e \div 2) * n + v = (e * n + a) \div 2 /\ c = (e * n + a) % 2

LEMMA LongRight ==
  ASSUME NEW n \in Nat \ {0}, NEW e \in Int, NEW a \in 0 .. n - 1, NEW v \in 0 .. n - 1,
         NEW k \in {0, 1}, k = e % 2, NEW c \in {0, 1}, 2 * v + c = n * k + a
  PROVE  RightIs(n, e, a, v, c)
<1> DEFINE d == e \div 2
           i == d * n + v
           x == e * n + a
<1>1. d \in Int /\ e = 2 * d + k
  <2>1. 2 \in Nat \ {0} OBVIOUS
  <2> QED BY <2>1, DivMod
<1> HIDE DEF d
<1>2. i \in Int BY <1>1
<1>3. x = 2 * i + c
  <2>1. (2 * d + k) * n + a = 2 * (d * n) + (n * k + a) BY <1>1, Z3
  <2>2. d * n \in Int /\ n * k \in Int BY <1>1
  <2> QED BY <1>1, <2>1, <2>2
<1> HIDE DEF i, x
<1>4. (2 * i + c) \div 2 = i /\ (2 * i + c) % 2 = c
  <2>1. 2 \in Nat \ {0} /\ c \in 0 .. 2 - 1 OBVIOUS
  <2> QED BY <1>2, <2>1, DivUnique
<1>5. x \div 2 = i /\ x % 2 = c BY <1>3, <1>4, Zenon
<1> QED BY <1>5, Zenon DEF RightIs, i, x, d

LEMMA One ==
  /\ 2 ^ 1 = 2 /\ Bits["dword"] \in Nat /\ Bits["dword"] >= 2
  /\ \A z \in Sizes : Bits[z] >= 2
<1>1. /\ \A z \in Sizes : Bits[z] \in Nat \ {0} /\ Bits["byte"] <= Bits[z]
      /\ Bits["byte"] >= 2 /\ Most \in Nat /\ 2 * Bits["byte"] <= Most - 1
      /\ Bits["byte"] \in Nat
  BY Widths DEF Sizes
<1>2. \A z \in Sizes : Bits[z] >= 2
  <2>1. ASSUME NEW z \in Sizes PROVE Bits[z] >= 2
    <3>1. Bits[z] \in Nat /\ Bits["byte"] <= Bits[z] BY <1>1
    <3> QED BY <1>1, <3>1
  <2> QED BY <2>1
<1>3. 0 < Most BY <1>1
<1>4. 2 ^ (0 + 1) = 2 * 2 ^ 0 BY <1>1, <1>3, PowerNext
<1>5. 2 ^ 0 = 1 BY PowerAssumption
<1>6. 0 + 1 = 1 /\ 2 * 1 = 2 OBVIOUS
<1>7. 2 ^ 1 = 2 BY <1>4, <1>5, <1>6, Zenon
<1>8. "dword" \in Sizes BY DEF Sizes
<1> QED BY <1>1, <1>2, <1>7, <1>8

(* A build with overflow checks stops at no shift by one.                  *)
LEMMA OneFits ==
  ASSUME NEW z \in Sizes
  PROVE  ~ ShlOverflows(z, 1) /\ ~ ShrOverflows(z, 1) /\ ~ SarOverflows(z, 1) /\ Reduced(1) = 1
<1> DEFINE B == Bits[z]
           D == Bits["dword"]
<1>1. D \in Nat /\ D >= 2 /\ B >= 2 /\ B \in Nat BY One, Widths
<1>2. Reduced(1) = 1
  <2> HIDE DEF D
  <2>1. 1 % D = 1 BY <1>1
  <2> QED BY <2>1 DEF Reduced, D
<1>3. ~ ShlOverflows(z, 1)
  <2> HIDE DEF B
  <2>1. ~ (1 >= 2 * B) BY <1>1
  <2> QED BY <2>1 DEF ShlOverflows, ShlWidth, B
<1>4. ~ ShrOverflows(z, 1)
  <2> HIDE DEF B
  <2>1. ~ (1 >= 2 * B) /\ ~ (1 >= B) /\ ~ (1 > B) /\ ~ (1 > 2 * B) BY <1>1
  <2> QED BY <2>1 DEF ShrOverflows, ShrWidth, LastWidth, B
<1>5. ~ SarOverflows(z, 1)
  <2> HIDE DEF B
  <2>1. ~ (1 >= B) BY <1>1
  <2> QED BY <1>2, <2>1, Zenon DEF SarOverflows, B
<1> QED BY <1>2, <1>3, <1>4, <1>5

LEMMA ShlOne ==
  ASSUME NEW z \in Sizes, NEW a \in Values(z), NEW f \in FlagSet
  PROVE  /\ Shl(z, a, 1, f).value = Wrap(z, 2 * a)
         /\ z = "word" => Shl(z, a, 1, f).flags.carry = Bit(a, Top(z) - Nibble)
         /\ z # "word" => Shl(z, a, 1, f).flags.carry = Bit(a, Top(z))
<1> DEFINE B == Bits[z]
           n == N(z)
           c == Shl(z, a, 1, f).flags.carry
           x == 2 * a
<1>1. /\ B \in Nat \ {0} /\ B >= 2 /\ Top(z) = B - 1 /\ 2 * B <= Most - 1 /\ Most \in Nat
      /\ Nibble \in Nat \ {0} /\ (z = "word" => Nibble < B) /\ Top(z) \in Nat
  BY One, Widths DEF Top
<1>2. a \in Nat /\ a < n /\ n \in Nat \ {0} /\ n >= 2
  <2>1. Half(z) \in Nat \ {0} /\ n = 2 * Half(z) BY Halves
  <2>2. a \in Nat /\ a < n BY ValuesAre
  <2> HIDE DEF n
  <2> QED BY <2>1, <2>2
<1>3. x \in Nat /\ a * 2 ^ 1 = x
  <2>1. a * 2 = 2 * a /\ 2 * a \in Nat BY <1>2
  <2> QED BY <2>1, One
<1>4. x % (n * n) = x
  <2> DEFINE m == n * n
  <2> HIDE DEF n
  <2>1. m \in Nat \ {0} BY <1>2, Z3
  <2>2. n * 2 <= n * n
    <3>1. 2 \in Int /\ n \in Int BY <1>2
    <3> QED BY <1>2, <3>1, ProductOrder
  <2>3. x < m
    <3> HIDE DEF m
    <3>1. n * 2 <= m BY <2>2 DEF m
    <3> QED BY <1>2, <2>1, <3>1
  <2> HIDE DEF m, x
  <2>4. x % m = x
    <3>1. x \in 0 .. m - 1 BY <1>3, <2>1, <2>3
    <3> QED BY <2>1, <3>1
  <2> QED BY <2>4 DEF m
<1> HIDE DEF x
<1>5. /\ Shl(z, a, 1, f).value = Wrap(z, a * 2 ^ 1)
      /\ c = Bit((a * 2 ^ 1) % (n * n), ShlCarry(z))
      /\ z # "word" => c = Bit(a * 2 ^ 1, Bits[z])
  <2>1. 1 < 2 * B
    <3> HIDE DEF B
    <3> QED BY <1>1
  <2>2. 1 \in Nat OBVIOUS
  <2> DEFINE Is(k) ==
               /\ Shl(z, a, k, f).value = Wrap(z, a * 2 ^ k)
               /\ Shl(z, a, k, f).flags.carry = Bit((a * 2 ^ k) % (n * n), ShlCarry(z))
               /\ z # "word" => Shl(z, a, k, f).flags.carry = Bit(a * 2 ^ k, Bits[z])
  <2>3. ASSUME NEW k \in Nat, k < 2 * B PROVE Is(k) BY <2>3, ShlIs
  <2> HIDE DEF Is, B, n
  <2>4. Is(1) BY <2>1, <2>2, <2>3, Zenon
  <2> QED BY <2>4, Zenon DEF Is
<1> HIDE DEF c
<1>6. ASSUME NEW k \in Nat \ {0}, k <= Most PROVE Bit(x, k) = Bit(a, k - 1)
  <2>1. a \in Int BY <1>2
  <2>2. Bit(a, k - 1) <=> ((2 * a) \div 2 ^ k) % 2 = 1 BY <1>6, <2>1, LastBit
  <2> QED BY <2>2 DEF Bit, x
<1>7. ASSUME z # "word" PROVE c = Bit(a, Top(z))
  <2>1. c = Bit(x, B) BY <1>3, <1>5, <1>7, Zenon
  <2> HIDE DEF B
  <2>2. B <= Most /\ Top(z) = B - 1 BY <1>1
  <2>3. Bit(x, B) = Bit(a, B - 1) BY <1>1, <1>6, <2>2
  <2> QED BY <2>1, <2>2, <2>3, Zenon
<1>8. ASSUME z = "word" PROVE c = Bit(a, Top(z) - Nibble)
  <2> DEFINE k == B - Nibble
  <2>1. k \in Nat \ {0} /\ k <= Most /\ k - 1 = Top(z) - Nibble
    <3> HIDE DEF B
    <3> QED BY <1>1, <1>8
  <2>2. ShlCarry(z) = k BY <1>8 DEF ShlCarry
  <2>3. c = Bit(x, k) BY <1>3, <1>4, <1>5, <2>2, Zenon
  <2> HIDE DEF k
  <2>4. Bit(x, k) = Bit(a, k - 1) BY <1>6, <2>1
  <2> QED BY <2>1, <2>3, <2>4, Zenon
<1>9. Shl(z, a, 1, f).value = Wrap(z, x) BY <1>3, <1>5, Zenon
<1> QED BY <1>7, <1>8, <1>9 DEF c, x

LEMMA ShrOne ==
  ASSUME NEW z \in Sizes, NEW a \in Values(z), NEW f \in FlagSet
  PROVE  /\ Shr(z, a, 1, f).value = a \div 2
         /\ Shr(z, a, 1, f).flags.carry = (a % 2 = 1)
         /\ Sar(z, a, 1, f).value = Wrap(z, Signed(z, a) \div 2)
         /\ Sar(z, a, 1, f).flags.carry = (a % 2 = 1)
<1> DEFINE x == Signed(z, a)
<1>1. a \in Nat /\ a \in Int /\ x \in Int
  <2>1. a \in Nat /\ a \in Int BY ValuesAre
  <2> QED BY <2>1, SignedType
<1>2. /\ Bits[z] \in Nat /\ Bits[z] >= 2 BY One, Widths
<1>3. 1 < ShrWidth(z) /\ 1 <= LastWidth(z) /\ 1 > 0 /\ 1 \in Nat /\ 1 <= Bits[z] /\ 1 < Bits[z]
  <2> DEFINE B == Bits[z]
  <2> HIDE DEF B
  <2>1. 1 < 2 * B /\ 1 < B /\ 1 <= B /\ 1 <= 2 * B BY <1>2 DEF B
  <2> QED BY <2>1 DEF ShrWidth, LastWidth, B
<1>4. \A y \in Int : (2 * y) \div 2 ^ 1 = y
  <2>1. \A y \in Int : (2 * y) \div 2 = y OBVIOUS
  <2> QED BY <2>1, One
<1>5. Shr(z, a, 1, f).value = a \div 2 ^ 1
      /\ Shr(z, a, 1, f).flags.carry = (((2 * a) \div 2 ^ 1) % 2 = 1)
  BY <1>3, ShrIs
<1>6. Shr(z, a, 1, f).value = a \div 2 BY <1>5, One
<1>7. Shr(z, a, 1, f).flags.carry = (a % 2 = 1) BY <1>1, <1>4, <1>5
<1>8. Reduced(1) = 1 BY OneFits
<1>9. /\ Sar(z, a, 1, f).value = Wrap(z, x \div 2 ^ 1)
      /\ Sar(z, a, 1, f).flags.carry = (((2 * x) \div 2 ^ 1) % 2 = 1)
  <2> DEFINE t == Reduced(1)
  <2>1. /\ t < Bits[z] => Sar(z, a, 1, f).value = Wrap(z, Signed(z, a) \div 2 ^ t)
        /\ t > 0 /\ t <= Bits[z] =>
             Sar(z, a, 1, f).flags.carry = (((2 * Signed(z, a)) \div 2 ^ t) % 2 = 1)
    BY <1>3, SarIs
  <2>2. t = 1 BY <1>8
  <2> QED BY <1>3, <2>1, <2>2
<1>10. Sar(z, a, 1, f).value = Wrap(z, x \div 2) BY <1>9, One
<1>11. Sar(z, a, 1, f).flags.carry = (x % 2 = 1)
  <2> HIDE DEF x
  <2> QED BY <1>1, <1>4, <1>9 DEF x
<1>12. x % 2 = a % 2
  <2> DEFINE h == Half(z)
             g == -h
  <2>1. h \in Nat /\ (x = a \/ x = a - 2 * h) BY SignedIs
  <2> HIDE DEF x, h
  <2>2. g \in Int /\ (x = a \/ x = a + 2 * g) BY <1>1, <2>1
  <2> HIDE DEF g
  <2>3. (a + 2 * g) % 2 = a % 2 BY <1>1, <2>2, EvenTerm
  <2> QED BY <2>2, <2>3, Zenon
<1> QED BY <1>6, <1>7, <1>10, <1>11, <1>12, Zenon

-----------------------------------------------------------------------------
(* Programs that rotate or shift two words                                 *)

TurnInv ==
  given.name \in {"rcl", "rcr", "rol", "whole_turn"} =>
    Started \/ (todo = <<>> /\ ThroughCarry)

BackInv ==
  given.name = "back" =>
    LET a == given.regs["acc"]
        k == given.code[1].imm
    IN  \/ Started
        \/ /\ todo = Tail(given.code) /\ result = "Ok"
           /\ \E f \in FlagSet : regs["acc"] = Rol(s, a, k, f).value
           /\ \A x \in Regs \ {"acc"} : regs[x] = given.regs[x]
        \/ todo = <<>> /\ ThroughCarry

LeftInv ==
  given.name = "left" =>
    LET a == given.regs["acc"]
    IN  \/ Started
        \/ /\ todo = Tail(given.code) /\ result = "Ok"
           /\ regs["acc"] = Wrap(s, 2 * a) /\ regs["ext"] = given.regs["ext"]
           /\ CarryRight <=> (flags.carry <=> a >= Half(s))
        \/ todo = <<>> /\ ThroughCarry

RightInv ==
  given.name \in {"right", "signed_right"} =>
    LET e == given.regs["ext"]
    IN  \/ Started
        \/ /\ todo = Tail(given.code) /\ result = "Ok"
           /\ regs["acc"] = given.regs["acc"] /\ flags.carry = (e % 2 = 1)
           /\ regs["ext"] = IF given.name = "right" THEN e \div 2
                            ELSE Wrap(s, Signed(s, e) \div 2)
        \/ todo = <<>> /\ ThroughCarry

LEMMA TurnStep ==
  ASSUME TypeInv, TurnInv, Next
  PROVE  TurnInv'
<1> SUFFICES ASSUME given.name \in {"rcl", "rcr", "rol", "whole_turn"} PROVE TurnInv'
  BY Stepping DEF TurnInv
<1> DEFINE a == given.regs["acc"]
           k == given.code[1].imm
           n == N(s)
           x == n * Number(given.carry) + a
<1>1. PICK op \in {"rcl", "rcr", "rol"} : \E i \in Nat :
        /\ given.code = Single(op, i)
        /\ given.name # "whole_turn" => op = given.name /\ i \in 0 .. Top(s)
        /\ given.name = "whole_turn" => op # "rol" /\ i = Bits[s]
  <2>1. Listed(given.name, s, given.code) /\ s \in Sizes BY Known DEF TypeInv, GivenInv
  <2>2. Bits[s] \in Nat /\ Top(s) \in Nat BY <2>1, Widths
  <2>3. CASE given.name = "whole_turn" BY <2>1, <2>2, <2>3 DEF Listed
  <2>4. CASE given.name \in {"rcl", "rcr", "rol"}
    <3>1. PICK i \in 0 .. Top(s) : given.code = Single(given.name, i) BY <2>1, <2>4 DEF Listed
    <3> QED BY <2>2, <2>4, <3>1
  <2> QED BY <2>3, <2>4
<1>2. PICK i \in Nat :
        /\ given.code = Single(op, i)
        /\ given.name # "whole_turn" => op = given.name /\ i \in 0 .. Top(s)
        /\ given.name = "whole_turn" => op # "rol" /\ i = Bits[s]
  BY <1>1
<1> DEFINE first == Imm(op, "acc", i)
<1>3. given.code = <<first>> BY <1>2 DEF Single
<1>4. k = i BY <1>3 DEF Imm
<1>5. (todo = given.code => Instruction = first) /\ Tail(given.code) = <<>>
  <2> HIDE DEF first
  <2> QED BY <1>3, OneStep
<1>6. "acc" \in Regs /\ s \in Sizes /\ flags \in FlagSet /\ a \in Values(s) /\ flags.carry \in BOOLEAN
  BY Known, FlagsAre
<1>7. CASE Started
  <2>1. Instruction = Imm(op, "acc", i) BY <1>5, <1>7, Stepping
  <2>2. regs["acc"] = a /\ result = "Ok" /\ flags.carry = given.carry BY <1>7 DEF Started
  <2>3. /\ op = "rol" => Sets("acc", Rol(s, a, i, flags))
        /\ op = "rcl" => Sets("acc", Rcl(s, a, i, flags))
        /\ op = "rcr" => Sets("acc", Rcr(s, a, i, flags))
    BY <1>6, <2>1, <2>2, ImmSets
  <2> DEFINE v == regs'["acc"]
             y == n * Number(flags'.carry) + v
  <2>4. CASE given.name = "whole_turn"
    <3>1. i = Bits[s] /\ op \in {"rcl", "rcr"} BY <1>2, <2>4
    <3>2. Turns(s, i) = 0
      <4> DEFINE B == Bits[s]
      <4>1. B \in Nat \ {0} BY <1>6, Widths
      <4> HIDE DEF B
      <4>2. B % B = 0
        <5>1. (B * 1 + 0) % B = 0
          <6>1. 1 \in Int /\ 0 \in 0 .. B - 1 BY <4>1
          <6> QED BY <4>1, <6>1, DivUnique
        <5>2. B * 1 + 0 = B BY <4>1
        <5> QED BY <5>1, <5>2
      <4> QED BY <3>1, <4>2, Zenon DEF Turns, B
    <3>3. Rcl(s, a, i, flags) = Outcome(a, flags) /\ Rcr(s, a, i, flags) = Outcome(a, flags)
      BY <3>2 DEF Rcl, Rcr
    <3>4. v = a /\ flags' = flags
      BY <2>3, <3>1, <3>3 DEF Sets, Outcome
    <3> QED BY <2>2, <2>4, <3>4, <1>5, <1>7, Stepping
         DEF TurnInv, ThroughCarry, LongShift, Rotation, Ring, Ended, Runs
  <2>5. CASE given.name = "rcl"
    <3>1. op = "rcl" /\ i \in 0 .. Top(s) BY <1>2, <2>5
    <3>2. y = Turned(x, i, 2 * n)
      <4> DEFINE o == Rcl(s, a, i, flags)
      <4>1. n * Number(o.flags.carry) + o.value = Turned(n * Number(flags.carry) + a, i, 2 * n)
        BY <1>6, <3>1, RclTurns
      <4>2. v = o.value /\ flags' = o.flags BY <2>3, <3>1 DEF Sets
      <4> HIDE DEF o, n, a
      <4> QED BY <2>2, <4>1, <4>2
    <3>3. (y = Turned(x, k, 2 * n))
       BY <1>4, <3>2
    <3> QED BY <2>5, <3>3, <1>5, <1>7, Stepping
         DEF TurnInv, ThroughCarry, LongShift, Rotation, Ring, Ended, Runs
  <2>6. CASE given.name = "rcr"
    <3>1. op = "rcr" /\ i \in 0 .. Top(s) BY <1>2, <2>6
    <3>2. Turned(y, i, 2 * n) = x
      <4> DEFINE o == Rcr(s, a, i, flags)
      <4>1. Turned(n * Number(o.flags.carry) + o.value, i, 2 * n) = n * Number(flags.carry) + a
        BY <1>6, <3>1, RcrTurns
      <4>2. v = o.value /\ flags' = o.flags BY <2>3, <3>1 DEF Sets
      <4> HIDE DEF o, n, a
      <4> QED BY <2>2, <4>1, <4>2
    <3>3. Turned(y, k, 2 * n) = x BY <1>4, <3>2
    <3> QED BY <2>6, <3>3, <1>5, <1>7, Stepping
         DEF TurnInv, ThroughCarry, LongShift, Rotation, Ring, Ended, Runs
  <2>7. CASE given.name = "rol"
    <3>1. op = "rol" /\ i \in 0 .. Top(s) BY <1>2, <2>7
    <3>2. v = Turned(a, i, n)
      <4>1. Rol(s, a, i, flags).value = Turned(a, i, n) BY <1>6, <3>1, RolTurns
      <4> QED BY <2>3, <3>1, <4>1 DEF Sets
    <3>3. v = Turned(a, k, n) BY <1>4, <3>2
    <3> QED BY <2>7, <3>3, <1>5, <1>7, Stepping
         DEF TurnInv, ThroughCarry, LongShift, Rotation, Ended, Runs
  <2> QED BY <2>4, <2>5, <2>6, <2>7
<1>8. CASE todo = <<>> BY <1>8, Stepping
<1> QED BY <1>7, <1>8 DEF TurnInv

LEMMA BackStep ==
  ASSUME TypeInv, TypeInv', BackInv, Next
  PROVE  BackInv'
<1> SUFFICES ASSUME given.name = "back" PROVE BackInv' BY Stepping DEF BackInv
<1> DEFINE a == given.regs["acc"]
           k == given.code[1].imm
<1>1. PICK i \in 0 .. Top(s) : given.code = BackCode(i)
  BY DEF TypeInv, GivenInv, Listed
<1> DEFINE first == Imm("rol", "acc", i)
           second == Imm("ror", "acc", i)
<1>2. given.code = <<first, second>> BY <1>1 DEF BackCode
<1>3. k = i BY <1>2 DEF Imm
<1>4. /\ todo = given.code => Instruction = first
      /\ todo = Tail(given.code) => Instruction = second
      /\ Tail(Tail(given.code)) = <<>>
  <2> HIDE DEF first, second
  <2> QED BY <1>2, TwoSteps
<1>5. "acc" \in Regs /\ s \in Sizes /\ flags \in FlagSet /\ a \in Values(s) BY Known
<1>6. CASE Started
  <2>1. Instruction = Imm("rol", "acc", i) BY <1>4, <1>6, Stepping
  <2>2. regs = given.regs BY <1>6 DEF Started
  <2>3. Sets("acc", Rol(s, a, i, flags)) BY <1>5, <2>1, <2>2, ImmSets
  <2> DEFINE o == Rol(s, a, i, flags)
  <2>4. regs'["acc"] = Rol(s, a, k, flags).value /\ result' = "Ok"
        /\ \A x \in Regs \ {"acc"} : regs'[x] = given.regs[x]
    BY <1>3, <2>2, <2>3, Stepping DEF Sets
  <2>5. \E f \in FlagSet : regs'["acc"] = Rol(s, a, k, f).value BY <1>5, <2>4, Zenon
  <2>6. todo' = Tail(given.code) BY <1>6, Stepping
  <2> HIDE DEF a, k
  <2>7. (a' = a) /\ (k' = k) BY Stepping DEF a, k
  <2>8. (\E f \in FlagSet : regs["acc"] = Rol(s, a, k, f).value)'
    BY <2>5, <2>7, Stepping
  <2> QED BY <2>4, <2>6, <2>8, Stepping DEF BackInv, a, k
<1>7. CASE /\ todo = Tail(given.code) /\ result = "Ok"
           /\ \E f \in FlagSet : regs["acc"] = Rol(s, a, k, f).value
           /\ \A x \in Regs \ {"acc"} : regs[x] = given.regs[x]
  <2>1. Instruction = Imm("ror", "acc", i) BY <1>4, <1>7
  <2>2. PICK f \in FlagSet : regs["acc"] = Rol(s, a, i, f).value BY <1>3, <1>7
  <2>3. Sets("acc", Ror(s, regs["acc"], i, flags)) BY <1>5, <2>1, ImmSets
  <2>4. Ror(s, regs["acc"], i, flags).value = a
    <3>1. Ror(s, Rol(s, a, i, f).value, i, flags).value = a BY <1>1, <1>5, RolTurns
    <3> QED BY <2>2, <3>1
  <2>5. regs'["acc"] = a /\ \A x \in Regs \ {"acc"} : regs'[x] = given.regs[x]
    BY <1>7, <2>3, <2>4 DEF Sets
  <2>6. regs' = given.regs
    <3>1. given.regs \in [Regs -> Values(s)] BY Known
    <3>2. regs' \in [Regs -> Values(s)] BY Stepping DEF TypeInv, TypeOK
    <3>3. \A x \in Regs : regs'[x] = given.regs[x] BY <2>5
    <3> QED BY <3>1, <3>2, <3>3
  <2>7. todo' = <<>> BY <1>4, <1>7, Stepping
  <2>8. ThroughCarry'
    BY <2>6, Stepping DEF ThroughCarry, LongShift, Rotation, Ended, Runs
  <2> QED BY <2>7, <2>8 DEF BackInv
<1>8. CASE todo = <<>> BY <1>8, Stepping
<1> QED BY <1>6, <1>7, <1>8 DEF BackInv

LEMMA LeftStep ==
  ASSUME TypeInv, LeftInv, Next
  PROVE  LeftInv'
<1> SUFFICES ASSUME given.name = "left" PROVE LeftInv' BY Stepping DEF LeftInv
<1> DEFINE a == given.regs["acc"]
           e == given.regs["ext"]
           n == N(s)
           h == Half(s)
           low == Wrap(s, 2 * a)
           over == a >= h
           first == Imm("shl", "acc", 1)
           second == Imm("rcl", "ext", 1)
<1>1. given.code = <<first, second>> BY DEF TypeInv, GivenInv, Listed, LeftCode
<1> HIDE DEF first, second
<1>2. /\ todo = given.code => Instruction = first
      /\ todo = Tail(given.code) => Instruction = second
      /\ Tail(Tail(given.code)) = <<>>
  BY <1>1, TwoSteps
<1>3. /\ "acc" \in Regs /\ "ext" \in Regs /\ s \in Sizes /\ flags \in FlagSet
      /\ a \in Values(s) /\ e \in Values(s) /\ flags.carry \in BOOLEAN
  BY Known, FlagsAre
<1>4. CarryRight' = CarryRight BY Stepping DEF CarryRight
<1>5. CASE Started
  <2>1. Instruction = Imm("shl", "acc", 1) BY <1>2, <1>5, Stepping DEF first
  <2>2. regs = given.regs /\ result = "Ok" BY <1>5 DEF Started
  <2> DEFINE o == Shl(s, a, 1, flags)
             c == o.flags.carry
  <2>3. Sets("acc", o) /\ result' = "Ok"
    <3>1. Shifts(ShlOverflows(s, 1), Shl(s, regs["acc"], 1, flags))
      <4>1. "shl" \in ShiftOps BY DEF ShiftOps
      <4> QED BY <1>3, <2>1, <4>1, ImmShifts
    <3>2. Instruction.dst = "acc" BY <2>1 DEF Imm
    <3>3. ~ ShlOverflows(s, 1) BY <1>3, OneFits
    <3>4. Shifts(ShlOverflows(s, 1), o) BY <2>2, <3>1
    <3> HIDE DEF o
    <3> QED BY <1>3, <2>2, <3>2, <3>3, <3>4, ShiftsSets
  <2>4. /\ o.value = low
        /\ s = "word" => c = Bit(a, Top(s) - Nibble)
        /\ s # "word" => c = Bit(a, Top(s))
    BY <1>3, ShlOne
  <2>5. Bit(a, Top(s)) <=> over BY <1>3, SignBit
  <2>6. CarryRight <=> (c <=> over)
    <3> DEFINE i == Bit(a, Top(s))
               j == Bit(a, Top(s) - Nibble)
    <3>1. CarryRight <=> (s = "word" => i = j) BY DEF CarryRight
    <3>2. i \in BOOLEAN /\ j \in BOOLEAN BY DEF Bit
    <3> HIDE DEF c, over, i, j
    <3>3. (s = "word" => c = j) /\ (s # "word" => c = i) /\ (i <=> over)
      BY <2>4, <2>5 DEF i, j
    <3> QED BY <3>1, <3>2, <3>3
  <2>7. /\ regs'["acc"] = low /\ regs'["ext"] = e /\ flags'.carry = c
    <3> HIDE DEF o
    <3> QED BY <1>3, <2>2, <2>3, <2>4 DEF Sets
  <2>8. todo' = Tail(given.code) BY <1>5, Stepping
  <2>9. (CarryRight <=> (flags.carry <=> given.regs["acc"] >= Half(s)))'
    <3> HIDE DEF c
    <3> QED BY <1>4, <2>6, <2>7, Stepping DEF Half
  <2>10. (regs["acc"] = Wrap(s, 2 * given.regs["acc"]))' BY <2>7, Stepping
  <2> QED BY <2>3, <2>7, <2>8, <2>9, <2>10, Stepping DEF LeftInv
<1>6. CASE /\ todo = Tail(given.code) /\ result = "Ok"
           /\ regs["acc"] = low /\ regs["ext"] = e
           /\ CarryRight <=> (flags.carry <=> over)
  <2>1. Instruction = Imm("rcl", "ext", 1) BY <1>2, <1>6 DEF second
  <2> DEFINE o == Rcl(s, e, 1, flags)
             v == regs'["ext"]
             k == Number(flags.carry)
             c == Number(flags'.carry)
  <2>2. Sets("ext", o) BY <1>3, <1>6, <2>1, ImmSets
  <2>3. v = o.value /\ flags' = o.flags /\ regs'["acc"] = low
    <3> HIDE DEF o
    <3> QED BY <1>3, <1>6, <2>2 DEF Sets
  <2>4. v \in Values(s) /\ flags'.carry \in BOOLEAN
    <3>1. Fits(s, o)
      <4>1. 1 \in Nat OBVIOUS
      <4> QED BY <1>3, <4>1, RclType
    <3> HIDE DEF o
    <3> QED BY <2>3, <3>1, FlagsAre DEF Fits
  <2>5. k \in {0, 1} /\ c \in {0, 1} /\ (k = 1 <=> flags.carry) /\ (c = 1 <=> flags'.carry)
    BY <1>3, <2>4 DEF Number
  <2>6. h \in Nat \ {0} /\ n \in Nat \ {0} /\ n = 2 * h BY <1>3, Halves
  <2>7. a \in 0 .. n - 1 /\ e \in 0 .. n - 1 /\ v \in 0 .. n - 1
    BY <1>3, <2>4 DEF Values
  <2>8. n * c + v = 2 * e + k
    <3>1. 1 \in 0 .. Top(s)
      <4>1. Bits[s] >= 2 /\ Bits[s] \in Nat /\ Top(s) = Bits[s] - 1
        BY <1>3, One, Widths DEF Top
      <4> QED BY <4>1
    <3>2. n * Number(o.flags.carry) + o.value = Turned(n * k + e, 1, 2 * n)
      BY <1>3, <3>1, RclTurns
    <3>3. n * c + v = Turned(n * k + e, 1, 2 * n)
      <4> HIDE DEF o, n, v
      <4> QED BY <2>3, <3>2
    <3> HIDE DEF n, e, k, c, v
    <3>4. Turned(n * k + e, 1, 2 * n) = 2 * e + k BY <2>5, <2>6, <2>7, TurnOne
    <3> QED BY <3>3, <3>4
  <2> DEFINE x == 2 * (e * n + a)
  <2>9. /\ v * n + low = x % (n * n) <=> (k = 1 <=> over)
        /\ c = 1 <=> x >= n * n
    <3>1. LeftIs(n, h, a, e, v, k, c)
      <4> HIDE DEF n, h, a, e, v, k, c
      <4> QED BY <2>5, <2>6, <2>7, <2>8, LongLeft
    <3>2. low = (2 * a) % n BY DEF Wrap
    <3> HIDE DEF n, h, a, e, v, k, c, low
    <3> QED BY <3>1, <3>2, Zenon DEF LeftIs, h
  <2>10. (Final' = x % (n * n)) <=> CarryRight
    <3>1. Final' = v * n + low BY <2>3, Stepping DEF Final, Pair
    <3> HIDE DEF n, v, low, k, c, x, over
    <3>2. (k = 1 <=> over) <=> (flags.carry <=> over) BY <2>5
    <3>3. CarryRight <=> (flags.carry <=> over) BY <1>6 DEF over
    <3> QED BY <2>9, <3>1, <3>2, <3>3, Zenon DEF over
  <2>11. flags'.carry <=> x >= n * n
    <3> HIDE DEF c, x, n
    <3> QED BY <2>5, <2>9
  <2>12. (2 * First)' = x /\ Square' = n * n BY Stepping DEF First, Pair, Square
  <2>13. LongShift'
    <3> HIDE DEF x, n
    <3>1. (CarryRight <=> (Final = (2 * First) % Square))' BY <1>4, <2>10, <2>12
    <3>2. (flags.carry = (2 * First >= Square))' BY <2>4, <2>11, <2>12
    <3> QED BY <3>1, <3>2, Stepping DEF LongShift, Ended, Runs
  <2>14. Rotation' BY Stepping DEF Rotation, Ended, Runs
  <2>15. todo' = <<>> BY <1>2, <1>6, Stepping
  <2> QED BY <2>13, <2>14, <2>15 DEF LeftInv, ThroughCarry
<1>7. CASE todo = <<>> BY <1>7, Stepping
<1> QED BY <1>5, <1>6, <1>7 DEF LeftInv

(* An even number of values does not change what is odd.                   *)
LEMMA OddFirst ==
  ASSUME NEW h \in Nat, NEW e \in Int, NEW a \in Int
  PROVE  (e * (2 * h) + a) % 2 = a % 2
<1> DEFINE y == e * h
<1>1. y \in Int OBVIOUS
<1>2. e * (2 * h) + a = a + 2 * y
  <2>1. e * (2 * h) = 2 * (e * h) BY Z3
  <2> QED BY <1>1, <2>1
<1> HIDE DEF y
<1>3. (a + 2 * y) % 2 = a % 2 BY <1>1, EvenTerm
<1> QED BY <1>2, <1>3, Zenon

LEMMA RightStep ==
  ASSUME TypeInv, RightInv, Next
  PROVE  RightInv'
<1> SUFFICES ASSUME given.name \in {"right", "signed_right"} PROVE RightInv'
  BY Stepping DEF RightInv
<1> DEFINE a == given.regs["acc"]
           e == given.regs["ext"]
           n == N(s)
           odd == e % 2 = 1
           op == IF given.name = "right" THEN "shr" ELSE "sar"
           d == IF given.name = "right" THEN e \div 2 ELSE Wrap(s, Signed(s, e) \div 2)
           first == Imm(op, "ext", 1)
           second == Imm("rcr", "acc", 1)
<1>1. given.code = <<first, second>>
  BY DEF TypeInv, GivenInv, Listed, RightCode, SignedRightCode
<1> HIDE DEF first, second
<1>2. /\ todo = given.code => Instruction = first
      /\ todo = Tail(given.code) => Instruction = second
      /\ Tail(Tail(given.code)) = <<>>
  BY <1>1, TwoSteps
<1>3. /\ "acc" \in Regs /\ "ext" \in Regs /\ s \in Sizes /\ flags \in FlagSet
      /\ a \in Values(s) /\ e \in Values(s) /\ flags.carry \in BOOLEAN
  BY Known, FlagsAre
<1>4. CASE Started
  <2>1. Instruction = Imm(op, "ext", 1) BY <1>2, <1>4, Stepping DEF first
  <2>2. regs = given.regs /\ result = "Ok" BY <1>4 DEF Started
  <2> DEFINE o == IF given.name = "right" THEN Shr(s, e, 1, flags) ELSE Sar(s, e, 1, flags)
             bad == IF given.name = "right" THEN ShrOverflows(s, 1) ELSE SarOverflows(s, 1)
  <2>3. Sets("ext", o) /\ result' = "Ok"
    <3>1. Shifts(bad, o)
      <4>1. op \in ShiftOps BY DEF ShiftOps
      <4>2. /\ op = "shr" => Shifts(ShrOverflows(s, 1), Shr(s, e, 1, flags))
            /\ op = "sar" => Shifts(SarOverflows(s, 1), Sar(s, e, 1, flags))
        <5> HIDE DEF op
        <5> QED BY <1>3, <2>1, <2>2, <4>1, ImmShifts
      <4> QED BY <4>2
    <3>2. Instruction.dst = "ext" BY <2>1 DEF Imm
    <3>3. ~ bad BY <1>3, OneFits
    <3> HIDE DEF o, bad
    <3> QED BY <1>3, <2>2, <3>1, <3>2, <3>3, ShiftsSets
  <2>4. o.value = d /\ o.flags.carry = odd BY <1>3, ShrOne
  <2>5. /\ regs'["acc"] = a /\ regs'["ext"] = d /\ flags'.carry = odd
    <3> HIDE DEF o, d, odd
    <3> QED BY <1>3, <2>2, <2>3, <2>4 DEF Sets
  <2>6. todo' = Tail(given.code) BY <1>4, Stepping
  <2> QED BY <2>3, <2>5, <2>6, Stepping DEF RightInv
<1>5. CASE /\ todo = Tail(given.code) /\ result = "Ok"
           /\ regs["acc"] = a /\ flags.carry = odd /\ regs["ext"] = d
  <2>1. Instruction = Imm("rcr", "acc", 1) BY <1>2, <1>5 DEF second
  <2> DEFINE o == Rcr(s, a, 1, flags)
             v == regs'["acc"]
             k == Number(flags.carry)
             c == Number(flags'.carry)
             h == Half(s)
  <2>2. Sets("acc", o) BY <1>3, <1>5, <2>1, ImmSets
  <2>3. v = o.value /\ flags' = o.flags /\ regs'["ext"] = d
    <3> HIDE DEF o, d
    <3> QED BY <1>3, <1>5, <2>2 DEF Sets
  <2>4. v \in Values(s) /\ flags'.carry \in BOOLEAN
    <3>1. Fits(s, o)
      <4>1. 1 \in Nat OBVIOUS
      <4> QED BY <1>3, <4>1, RclType
    <3> HIDE DEF o
    <3> QED BY <2>3, <3>1, FlagsAre DEF Fits
  <2>5. k \in {0, 1} /\ c \in {0, 1} /\ (k = 1 <=> flags.carry) /\ (c = 1 <=> flags'.carry)
    BY <1>3, <2>4 DEF Number
  <2>6. h \in Nat \ {0} /\ n \in Nat \ {0} /\ n = 2 * h BY <1>3, Halves
  <2>7. a \in 0 .. n - 1 /\ e \in 0 .. n - 1 /\ v \in 0 .. n - 1 /\ e \in Int /\ a \in Int
    BY <1>3, <2>4, ValuesAre DEF Values
  <2>8. 2 * v + c = n * k + a
    <3>1. 1 \in 0 .. Top(s)
      <4>1. Bits[s] >= 2 /\ Bits[s] \in Nat /\ Top(s) = Bits[s] - 1
        BY <1>3, One, Widths DEF Top
      <4> QED BY <4>1
    <3>2. Turned(n * Number(o.flags.carry) + o.value, 1, 2 * n) = n * k + a
      BY <1>3, <3>1, RcrTurns
    <3>3. Turned(n * c + v, 1, 2 * n) = n * k + a
      <4> HIDE DEF o, n, v
      <4> QED BY <2>3, <3>2
    <3> HIDE DEF n, a, k, c, v
    <3>4. Turned(n * c + v, 1, 2 * n) = 2 * v + c BY <2>5, <2>6, <2>7, TurnOne
    <3> QED BY <3>3, <3>4
  <2>9. k = e % 2
    <3> DEFINE w == e % 2
    <3> HIDE DEF e, k
    <3>1. w \in {0, 1} BY <2>7
    <3>2. flags.carry = (w = 1) BY <1>5
    <3> HIDE DEF w
    <3>3. k \in {0, 1} /\ (k = 1 <=> flags.carry) BY <2>5
    <3>4. k = 1 <=> w = 1 BY <3>2, <3>3, Zenon
    <3>5. k = w BY <3>1, <3>3, <3>4
    <3> QED BY <3>5 DEF w
  <2>10. (e * n + a) % 2 = a % 2
    <3> HIDE DEF e, a, h, n
    <3>1. (e * (2 * h) + a) % 2 = a % 2 BY <2>6, <2>7, OddFirst
    <3> QED BY <2>6, <3>1, Zenon
  <2>11. First' = e * n + a /\ Final' = d * n + v /\ n' = n /\ s' = s
    BY <2>3, Stepping DEF First, Final, Pair
  <2>12. /\ (e \div 2) * n + v = (e * n + a) \div 2
         /\ c = (e * n + a) % 2
    <3> HIDE DEF e, a, n, v, k, c
    <3>1. n \in Nat \ {0} BY <2>6
    <3>2. RightIs(n, e, a, v, c) BY <2>5, <2>7, <2>8, <2>9, <3>1, LongRight
    <3> QED BY <3>2, Zenon DEF RightIs
  <2>13. flags'.carry = ((e * n + a) % 2 = 1)
    <3> DEFINE w == (e * n + a) % 2
    <3>1. c = w BY <2>12
    <3> HIDE DEF c, w
    <3> QED BY <2>4, <2>5, <3>1 DEF w
  <2>14. CASE given.name = "right"
    <3>1. d = e \div 2 BY <2>14
    <3>2. Final' = (First \div 2)'
      <4> HIDE DEF d, e, n, a, v
      <4> QED BY <2>11, <2>12, <3>1
    <3>3. flags'.carry = (First % 2 = 1)'
      <4> HIDE DEF e, n, a
      <4> QED BY <2>11, <2>13
    <3> QED BY <2>14, <3>2, <3>3, <1>2, <1>5, Stepping
         DEF RightInv, ThroughCarry, LongShift, Rotation, Ended, Runs
  <2>15. CASE given.name = "signed_right"
    <3> DEFINE g == Signed(s, e)
               i == g \div 2
    <3>1. d = Wrap(s, i) BY <2>15
    <3>2. g \in Int /\ g >= -h /\ g < h /\ (g = e \/ g = e - 2 * h)
      <4>1. /\ e < h => g = e
            /\ e >= h => g = e - 2 * h
            /\ h \in Nat \ {0} /\ e \in Nat /\ e < 2 * h
        BY <1>3, SignedIs
      <4> HIDE DEF g, h, e
      <4> QED BY <4>1
    <3>3. i \in Int /\ i >= -h /\ i < h
      <4> HIDE DEF g, h
      <4> QED BY <2>6, <3>2
    <3>4. Signed(s, d) = i /\ d \in Values(s)
      <4> HIDE DEF i, d
      <4>1. Signed(s, Wrap(s, i)) = i BY <1>3, <3>3, SignedWrap DEF h
      <4>2. Wrap(s, i) \in Values(s) BY <1>3, <3>3, ValuesAre
      <4> QED BY <3>1, <4>1, <4>2
    <3>5. g % 2 = e % 2
      <4> DEFINE j == -h
      <4> HIDE DEF g, h, e
      <4>1. j \in Int /\ (g = e \/ g = e + 2 * j) BY <2>6, <2>7, <3>2
      <4> HIDE DEF j
      <4>2. (e + 2 * j) % 2 = e % 2 BY <2>7, <4>1, EvenTerm
      <4> QED BY <4>1, <4>2, Zenon
    <3>6. i * n + v = (g * n + a) \div 2
      <4>1. k = g % 2 BY <2>9, <3>5
      <4> HIDE DEF g, a, n, v, k, c
      <4>2. n \in Nat \ {0} /\ g \in Int BY <2>6, <3>2
      <4>3. RightIs(n, g, a, v, c) BY <2>5, <2>7, <2>8, <4>1, <4>2, LongRight
      <4> QED BY <4>3, Zenon DEF RightIs, i
    <3>7. SignedOf(s, d * n + v) = i * n + v
      <4>1. SignedOf(s, d * N(s) + v) = Signed(s, d) * N(s) + v
        BY <1>3, <2>4, <3>4, SignedPairIs
      <4> HIDE DEF d, v, i
      <4> QED BY <3>4, <4>1
    <3>8. SignedOf(s, e * n + a) = g * n + a BY <1>3, SignedPairIs
    <3>9. \A x : SignedPair(x) = SignedOf(s, x) BY DEF SignedPair, SignedOf, Square
    <3>10. \A x : SignedPair(x)' = SignedOf(s, x') BY Stepping DEF SignedPair, SignedOf, Square
    <3>11. SignedPair(Final)' = i * n + v
      <4> HIDE DEF d, n, v, i
      <4> QED BY <2>11, <3>7, <3>10
    <3>12. SignedPair(First)' = g * n + a
      <4> HIDE DEF e, n, a, g
      <4> QED BY <2>11, <3>8, <3>10
    <3>13. (SignedPair(Final) = (SignedPair(First) \div 2))' BY <3>6, <3>11, <3>12
    <3>14. flags'.carry = (First % 2 = 1)'
      <4> HIDE DEF e, n, a
      <4> QED BY <2>11, <2>13
    <3> QED BY <2>15, <3>13, <3>14, <1>2, <1>5, Stepping
         DEF RightInv, ThroughCarry, LongShift, Rotation, Ended, Runs
  <2> QED BY <2>14, <2>15
<1>6. CASE todo = <<>> BY <1>6, Stepping
<1> QED BY <1>4, <1>5, <1>6 DEF RightInv

LEMMA CarryCodes ==
  /\ \A op, k : Single(op, k) # <<>>
  /\ \A k : BackCode(k) # <<>> /\ Tail(BackCode(k)) # <<>>
  /\ LeftCode # <<>> /\ Tail(LeftCode) # <<>>
  /\ RightCode # <<>> /\ Tail(RightCode) # <<>>
  /\ SignedRightCode # <<>> /\ Tail(SignedRightCode) # <<>>
<1>1. \A i, j : <<i, j>> # <<>> /\ Tail(<<i, j>>) # <<>> BY Sequences
<1>2. \A i : <<i>> # <<>> OBVIOUS
<1> QED BY <1>1, <1>2, Zenon DEF Single, BackCode, LeftCode, RightCode, SignedRightCode

(* What leaves a word by way of the carry enters the next word of a long   *)
(* number, or the same word at its other end: shifts of two words by one   *)
(* are shifts of the number, and rotations by any count turn the ring of   *)
(* the register, with the carry or without it.                             *)
THEOREM Carries == Spec => []ThroughCarry
<1> DEFINE Inv == TypeInv /\ TurnInv /\ BackInv /\ LeftInv /\ RightInv
<1>1. Init => Inv BY TypeStart, Begins DEF TurnInv, BackInv, LeftInv, RightInv
<1>2. Inv /\ [Next]_vars => Inv'
  <2> SUFFICES ASSUME Inv, [Next]_vars PROVE Inv' OBVIOUS
  <2>1. TypeInv' BY TypeKept
  <2>2. CASE Next BY <2>1, <2>2, TurnStep, BackStep, LeftStep, RightStep
  <2>3. CASE UNCHANGED vars
    <3>1. Started' = Started /\ ThroughCarry' = ThroughCarry /\ CarryRight' = CarryRight
          /\ todo' = todo /\ given' = given /\ regs' = regs /\ flags' = flags
          /\ result' = result /\ s' = s
      BY <2>3 DEF vars, s, Started, ThroughCarry, LongShift, Rotation, CarryRight, Ended, Runs,
                  Final, First, Pair, Square, SignedPair, Ring
    <3> QED BY <2>1, <3>1 DEF TurnInv, BackInv, LeftInv, RightInv
  <2> QED BY <2>2, <2>3
<1>3. Inv => ThroughCarry
  <2> SUFFICES ASSUME Inv, todo = <<>> PROVE ThroughCarry
    BY DEF ThroughCarry, LongShift, Rotation, Ended, Runs
  <2>1. Listed(given.name, s, given.code) BY DEF TypeInv, GivenInv
  <2>2. CASE given.name \in {"rcl", "rcr", "rol", "whole_turn"}
    <3>1. ~ Started BY <2>2, NotEmpty
    <3> QED BY <2>2, <3>1 DEF TurnInv
  <2>3. CASE given.name = "back"
    <3>1. PICK k : given.code = BackCode(k) BY <2>1, <2>3 DEF Listed
    <3>2. given.code # <<>> /\ Tail(given.code) # <<>> BY <3>1, CarryCodes
    <3> QED BY <2>3, <3>2 DEF BackInv, Started
  <2>4. CASE given.name = "left"
    <3>1. given.code = LeftCode BY <2>1, <2>4 DEF Listed
    <3>2. given.code # <<>> /\ Tail(given.code) # <<>> BY <3>1, CarryCodes
    <3> QED BY <2>4, <3>2 DEF LeftInv, Started
  <2>5. CASE given.name \in {"right", "signed_right"}
    <3>1. given.code = RightCode \/ given.code = SignedRightCode BY <2>1, <2>5 DEF Listed
    <3>2. given.code # <<>> /\ Tail(given.code) # <<>> BY <3>1, CarryCodes
    <3> QED BY <2>5, <3>2 DEF RightInv, Started
  <2>6. CASE given.name \notin {"rcl", "rcr", "rol", "whole_turn", "back", "left", "right",
                                "signed_right"}
    BY <2>6 DEF ThroughCarry, LongShift, Rotation, Ended, Runs
  <2> QED BY <2>2, <2>3, <2>4, <2>5, <2>6
<1> QED BY <1>1, <1>2, <1>3, PTL DEF Spec

-----------------------------------------------------------------------------
(* Decimal arithmetic: what an addition and a subtraction leave to be      *)
(* adjusted, and what the adjustments make of it.                          *)

LEMMA Sixteen ==
  ASSUME Nibble = 4
  PROVE  2 ^ Nibble = 16
<1>1. Most \in Nat /\ 5 <= Most
  <2>1. Nibble < Bits["word"] /\ "word" \in Sizes BY WidthAssumption DEF Sizes
  <2>2. Bits["word"] \in Nat /\ Bits["word"] <= Most - 1 BY <2>1, Widths
  <2> QED BY <2>1, <2>2, Widths
<1>2. 2 ^ (0 + 1) = 2 * 2 ^ 0 BY <1>1, PowerNext
<1>3. 2 ^ (1 + 1) = 2 * 2 ^ 1 BY <1>1, PowerNext
<1>4. 2 ^ 2 = 4 BY <1>2, <1>3, PowerAssumption
<1>5. 2 ^ (2 + 2) = 2 ^ 2 * 2 ^ 2 BY <1>1, PowerSum
<1> QED BY <1>4, <1>5

LEMMA AddAdjust ==
  ASSUME NEW z \in Sizes, NEW a \in Values(z), NEW b \in Values(z), NEW f \in FlagSet,
         Nibble = 4
  PROVE  /\ Add(z, a, b, f).flags.adjust = ((a % 16) + (b % 16) >= 16)
         /\ Sub(z, a, b, f).flags.adjust = (a % 16 < b % 16)
<1>1. AdjustUp(a, b) = ((a % 16) + (b % 16) >= 16) BY Sixteen, Zenon DEF AdjustUp
<1>2. AdjustDown(a, b) = (a % 16 < b % 16) BY Sixteen, Zenon DEF AdjustDown
<1>3. \A j \in FlagSet : \A c, o, d \in BOOLEAN :
        [j EXCEPT !.carry = c, !.overflow = o, !.adjust = d].adjust = d
  BY DEF FlagSet
<1>4. /\ Judged(z, Wrap(z, a + b), f) \in FlagSet /\ Judged(z, Wrap(z, a - b), f) \in FlagSet
  BY JudgedType
<1>5. Add(z, a, b, f).flags.adjust = AdjustUp(a, b)
  <2> DEFINE j == Judged(z, Wrap(z, a + b), f)
             c == a + b >= N(z)
             o == Signed(z, a) + Signed(z, b) \notin SignedValues(z)
             d == AdjustUp(a, b)
             g == [j EXCEPT !.carry = c, !.overflow = o, !.adjust = d]
  <2>1. c \in BOOLEAN /\ o \in BOOLEAN /\ d \in BOOLEAN BY DEF AdjustUp
  <2>2. Add(z, a, b, f).flags = g BY DEF Add, Outcome
  <2>3. j \in FlagSet BY <1>4
  <2> HIDE DEF j, c, o, d
  <2>4. g.adjust = d BY <1>3, <2>1, <2>3
  <2> HIDE DEF g
  <2> QED BY <2>2, <2>4 DEF d
<1>6. Sub(z, a, b, f).flags.adjust = AdjustDown(a, b)
  <2> DEFINE j == Judged(z, Wrap(z, a - b), f)
             c == a < b
             o == Signed(z, a) - Signed(z, b) \notin SignedValues(z)
             d == AdjustDown(a, b)
             g == [j EXCEPT !.carry = c, !.overflow = o, !.adjust = d]
  <2>1. c \in BOOLEAN /\ o \in BOOLEAN /\ d \in BOOLEAN BY DEF AdjustDown
  <2>2. Sub(z, a, b, f).flags = g BY DEF Sub, Outcome
  <2>3. j \in FlagSet BY <1>4
  <2> HIDE DEF j, c, o, d
  <2>4. g.adjust = d BY <1>3, <2>1, <2>3
  <2> HIDE DEF g
  <2> QED BY <2>2, <2>4 DEF d
<1> QED BY <1>1, <1>2, <1>5, <1>6

LEMMA PackedIs ==
  ASSUME NEW p \in PackedBytes
  PROVE  \E x, y \in 0 .. 9 : /\ p = 16 * x + y /\ p \in 0 .. 153 /\ p % 16 = y
                              /\ Packed(p) = 10 * x + y
<1>1. PICK x \in 0 .. 9, y \in 0 .. 9 : p = 16 * x + y BY DEF PackedBytes
<1>2. p \div 16 = x /\ p % 16 = y /\ p \in 0 .. 153 BY <1>1
<1> QED BY <1>1, <1>2 DEF Packed

(* A byte l with tens t and units w, added with carry and adjust and       *)
(* repaired to r; then the same for subtraction.                           *)
Summed(t, w, l, carry, adjust, irregular, ten, one, r) ==
  /\ t \in 0 .. 18 /\ w \in 0 .. 18 /\ l \in 0 .. 255
  /\ 16 * t + w >= 256 => l = (16 * t + w) - 256
  /\ 16 * t + w < 256 => l = 16 * t + w
  /\ carry <=> 16 * t + w >= 256
  /\ adjust <=> w >= 16
  /\ irregular <=> l % 16 > 9 \/ adjust
  /\ ten <=> l > 153 \/ carry
  /\ irregular => one = (l + 6) % 256
  /\ ~ irregular => one = l
  /\ ten => r = (one + 96) % 256
  /\ ~ ten => r = one

Subtracted(t, w, l, carry, adjust, irregular, ten, one, r) ==
  /\ t \in -9 .. 9 /\ w \in -9 .. 9 /\ l \in 0 .. 255
  /\ 16 * t + w < 0 => l = (16 * t + w) + 256
  /\ 16 * t + w >= 0 => l = 16 * t + w
  /\ carry <=> 16 * t + w < 0
  /\ adjust <=> w < 0
  /\ irregular <=> l % 16 > 9 \/ adjust
  /\ ten <=> l > 153 \/ carry
  /\ irregular => one = (l - 6) % 256
  /\ ~ irregular => one = l
  /\ ten => r = (one - 96) % 256
  /\ ~ ten => r = one

LEMMA SumToDigits ==
  ASSUME NEW t, NEW w, NEW l, NEW carry \in BOOLEAN, NEW adjust \in BOOLEAN,
         NEW irregular \in BOOLEAN, NEW ten \in BOOLEAN, NEW one, NEW r,
         Summed(t, w, l, carry, adjust, irregular, ten, one, r)
  PROVE  /\ 10 * (r \div 16) + (r % 16) = (10 * t + w) % 100
         /\ ten <=> 10 * t + w >= 100
<1> USE DEF Summed
<1> DEFINE S == 16 * t + w
           c == IF w >= 10 THEN 1 ELSE 0
           p == IF t + c >= 10 THEN t + c - 10 ELSE t + c
           q == w - 10 * c
<1>1. irregular <=> w >= 10 OBVIOUS
<1>2. ten <=> t + c >= 10 OBVIOUS
<1>3. ten <=> 10 * t + w >= 100 BY <1>2
<1>4. p \in 0 .. 9 /\ q \in 0 .. 9 OBVIOUS
<1>5. one = (IF S + 6 * c >= 256 THEN S + 6 * c - 256 ELSE S + 6 * c)
  <2>1. CASE w >= 10 BY <1>1, <2>1
  <2>2. CASE w < 10 BY <1>1, <2>2
  <2> QED BY <2>1, <2>2
<1>6. r = 16 * p + q
  BY <1>2, <1>5
<1>7. r \div 16 = p /\ r % 16 = q
  <2> HIDE DEF p, q
  <2> QED BY <1>4, <1>6
<1>8. 10 * p + q = (10 * t + w) % 100 OBVIOUS
<1> QED BY <1>3, <1>7, <1>8

LEMMA DifferenceToDigits ==
  ASSUME NEW t, NEW w, NEW l, NEW carry \in BOOLEAN, NEW adjust \in BOOLEAN,
         NEW irregular \in BOOLEAN, NEW ten \in BOOLEAN, NEW one, NEW r,
         Subtracted(t, w, l, carry, adjust, irregular, ten, one, r)
  PROVE  /\ 10 * (r \div 16) + (r % 16) = (10 * t + w) % 100
         /\ ten \/ (irregular /\ l < 6) <=> 10 * t + w < 0
<1> USE DEF Subtracted
<1> DEFINE S == 16 * t + w
           c == IF w < 0 THEN 1 ELSE 0
           p == IF t - c < 0 THEN t - c + 10 ELSE t - c
           q == w + 10 * c
<1>1. irregular <=> w < 0 OBVIOUS
<1>2. ten <=> t - c < 0 OBVIOUS
<1>3. ten \/ (irregular /\ l < 6) <=> 10 * t + w < 0 BY <1>1, <1>2
<1>4. p \in 0 .. 9 /\ q \in 0 .. 9 OBVIOUS
<1>5. one = IF irregular THEN IF l < 6 THEN l + 250 ELSE l - 6 ELSE l OBVIOUS
<1>6. r = 16 * p + q
  BY <1>1, <1>2, <1>5
<1>7. r \div 16 = p /\ r % 16 = q
  <2> HIDE DEF p, q
  <2> QED BY <1>4, <1>6
<1>8. 10 * p + q = (10 * t + w) % 100 OBVIOUS
<1> QED BY <1>3, <1>7, <1>8

(* What the adjustments of packed digits are in numbers.                   *)
LEMMA PackedAdjustments ==
  ASSUME NEW l \in 0 .. 255, NEW f \in FlagSet, Bits["byte"] = 8
  PROVE  LET i == l % 16 > 9 \/ f.adjust
             ten == l > 153 \/ f.carry
             up == IF i THEN (l + 6) % 256 ELSE l
             down == IF i THEN (l - 6) % 256 ELSE l
         IN  /\ Daa(l, f).value = (IF ten THEN (up + 96) % 256 ELSE up)
             /\ Daa(l, f).flags.carry = ten
             /\ Das(l, f).value = (IF ten THEN (down - 96) % 256 ELSE down)
             /\ Das(l, f).flags.carry = (ten \/ (i /\ l < 6))
<1> DEFINE i == Irregular(l, f)
           ten == l > 153 \/ f.carry
           up == IF i THEN (l + 6) % 256 ELSE l
           down == IF i THEN (l - 6) % 256 ELSE l
           r == IF ten THEN (up + 96) % 256 ELSE up
           q == IF ten THEN (down - 96) % 256 ELSE down
           c == ten \/ (i /\ l < 6)
<1>1. N("byte") = 256 /\ "byte" \in Sizes BY ByteIs
<1>2. \A x \in Int : Wrap("byte", x) = x % 256 BY <1>1 DEF Wrap
<1>3. ten \in BOOLEAN /\ i \in BOOLEAN /\ c \in BOOLEAN BY FlagsAre DEF Irregular
<1>4. Wrap("byte", l + 6) = (l + 6) % 256 /\ Wrap("byte", l - 6) = (l - 6) % 256
  <2>1. l + 6 \in Int /\ l - 6 \in Int OBVIOUS
  <2> QED BY <1>2, <2>1
<1>5. Wrap("byte", up + 96) = (up + 96) % 256 /\ Wrap("byte", down - 96) = (down - 96) % 256
  <2>1. up + 96 \in Int /\ down - 96 \in Int OBVIOUS
  <2> HIDE DEF up, down
  <2> QED BY <1>2, <2>1
<1> DEFINE wup == IF i THEN Wrap("byte", l + 6) ELSE l
           wdown == IF i THEN Wrap("byte", l - 6) ELSE l
           wr == IF ten THEN Wrap("byte", wup + 96) ELSE wup
           wq == IF ten THEN Wrap("byte", wdown - 96) ELSE wdown
           J == [Judged("byte", wr, f) EXCEPT !.adjust = i, !.carry = ten]
           K == [Judged("byte", wq, f) EXCEPT !.adjust = i, !.carry = c]
<1>6. /\ Daa(l, f).value = wr /\ Daa(l, f).flags = J
      /\ Das(l, f).value = wq /\ Das(l, f).flags = K
  BY DEF Daa, Das, Outcome
<1>7. wup = up /\ wdown = down BY <1>4
<1>8. wr = r /\ wq = q
  <2> HIDE DEF up, down, wup, wdown
  <2> QED BY <1>5, <1>7
<1>9. \A g \in FlagSet : \A x, y \in BOOLEAN :
        [g EXCEPT !.adjust = x, !.carry = y].carry = y
  BY DEF FlagSet
<1>10. /\ Daa(l, f).value = r /\ Daa(l, f).flags.carry = ten
       /\ Das(l, f).value = q /\ Das(l, f).flags.carry = c
  <2>1. Judged("byte", wr, f) \in FlagSet /\ Judged("byte", wq, f) \in FlagSet
    BY <1>1, JudgedType
  <2> HIDE DEF wr, wq, r, q, i, ten, c
  <2>2. J.carry = ten /\ K.carry = c BY <1>3, <1>9, <2>1
  <2> HIDE DEF J, K
  <2> QED BY <1>6, <1>8, <2>2
<1>11. i = (l % 16 > 9 \/ f.adjust) BY DEF Irregular, Digit
<1> QED BY <1>10, <1>11, Zenon

LEMMA DaaDecimal ==
  ASSUME NEW a \in PackedBytes, NEW b \in PackedBytes, NEW f \in FlagSet,
         Bits["byte"] = 8, Nibble = 4
  PROVE  LET o == Add("byte", a, b, f)
             d == Daa(o.value, o.flags)
         IN  /\ Packed(d.value) = (Packed(a) + Packed(b)) % 100
             /\ d.flags.carry = (Packed(a) + Packed(b) >= 100)
<1> DEFINE l == Add("byte", a, b, f).value
           g == Add("byte", a, b, f).flags
<1>1. N("byte") = 256 /\ Values("byte") = 0 .. 255 /\ "byte" \in Sizes BY ByteIs
<1>2. PICK x \in 0 .. 9, y \in 0 .. 9 :
        a = 16 * x + y /\ a \in 0 .. 153 /\ a % 16 = y /\ Packed(a) = 10 * x + y
  BY PackedIs
<1>3. PICK u \in 0 .. 9, v \in 0 .. 9 :
        b = 16 * u + v /\ b \in 0 .. 153 /\ b % 16 = v /\ Packed(b) = 10 * u + v
  BY PackedIs
<1>4. a \in Values("byte") /\ b \in Values("byte") BY <1>1, <1>2, <1>3
<1>5. /\ l = (IF a + b >= 256 THEN a + b - 256 ELSE a + b)
      /\ g.carry = (a + b >= 256) /\ g.adjust = (y + v >= 16)
  BY <1>1, <1>2, <1>3, <1>4, AddIs, AddAdjust
<1>6. l \in 0 .. 255 BY <1>2, <1>3, <1>5
<1>7. g \in FlagSet
  <2>1. a \in Int /\ b \in Int BY <1>2, <1>3
  <2>2. Fits("byte", Add("byte", a, b, f)) BY <1>1, <2>1, AddSubType, Zenon
  <2> QED BY <2>2 DEF Fits
<1> DEFINE t == x + u
           w == y + v
<1>8. t \in 0 .. 18 /\ w \in 0 .. 18 /\ a + b = 16 * t + w
      /\ Packed(a) + Packed(b) = 10 * t + w
  BY <1>2, <1>3
<1> HIDE DEF l, g
<1>9. /\ 16 * t + w >= 256 => l = (16 * t + w) - 256
      /\ 16 * t + w < 256 => l = 16 * t + w
      /\ g.carry <=> 16 * t + w >= 256
      /\ g.adjust <=> w >= 16
  <2> DEFINE S == 16 * t + w
  <2>1. a + b = S /\ S \in Int /\ a \in Int /\ b \in Int BY <1>2, <1>3, <1>8
  <2> HIDE DEF S
  <2>2. /\ S >= 256 => l = S - 256
        /\ S < 256 => l = S
        /\ g.carry <=> S >= 256
    <3>1. g.carry <=> S >= 256 BY <1>5, <2>1
    <3>2. CASE a + b >= 256
      <4>1. l = a + b - 256 BY <1>5, <3>2, Zenon
      <4>2. l = S - 256 BY <2>1, <4>1
      <4> QED BY <2>1, <3>1, <3>2, <4>2
    <3>3. CASE ~ (a + b >= 256)
      <4>1. l = a + b BY <1>5, <3>3, Zenon
      <4> QED BY <2>1, <3>1, <3>3, <4>1
    <3> QED BY <3>2, <3>3
  <2> QED BY <1>5, <2>2 DEF S
<1>10. g.carry \in BOOLEAN /\ g.adjust \in BOOLEAN BY <1>7, FlagsAre
<1> HIDE DEF t, w
<1> DEFINE i == l % 16 > 9 \/ g.adjust
           ten == l > 153 \/ g.carry
           up == IF i THEN (l + 6) % 256 ELSE l
           r == IF ten THEN (up + 96) % 256 ELSE up
<1>11. Packed(r) = (10 * t + w) % 100 /\ (ten <=> 10 * t + w >= 100)
  <2>1. /\ 10 * (r \div 16) + (r % 16) = (10 * t + w) % 100
        /\ ten <=> 10 * t + w >= 100
    <3>1. ten \in BOOLEAN /\ i \in BOOLEAN BY <1>10
    <3>2. /\ i <=> l % 16 > 9 \/ g.adjust
          /\ ten <=> l > 153 \/ g.carry
      OBVIOUS
    <3> HIDE DEF i, ten
    <3>3. /\ i => up = (l + 6) % 256
          /\ ~ i => up = l
      OBVIOUS
    <3> HIDE DEF up
    <3>4. /\ ten => r = (up + 96) % 256
          /\ ~ ten => r = up
      OBVIOUS
    <3> HIDE DEF r
    <3>5. Summed(t, w, l, g.carry, g.adjust, i, ten, up, r)
      BY <1>6, <1>8, <1>9, <3>2, <3>3, <3>4 DEF Summed
    <3> QED BY <1>10, <3>1, <3>5, SumToDigits
  <2> HIDE DEF r, ten
  <2> QED BY <2>1 DEF Packed
<1>12. Daa(l, g).value = r /\ Daa(l, g).flags.carry = ten
  BY <1>6, <1>7, PackedAdjustments
<1> HIDE DEF r, ten
<1>13. /\ Packed(Daa(l, g).value) = (Packed(a) + Packed(b)) % 100
       /\ Daa(l, g).flags.carry = (Packed(a) + Packed(b) >= 100)
  <2>1. ten = (Packed(a) + Packed(b) >= 100) BY <1>8, <1>11 DEF ten
  <2> QED BY <1>8, <1>11, <1>12, <2>1, Zenon
<1> QED BY <1>13 DEF l, g

LEMMA DasDecimal ==
  ASSUME NEW a \in PackedBytes, NEW b \in PackedBytes, NEW f \in FlagSet,
         Bits["byte"] = 8, Nibble = 4
  PROVE  LET o == Sub("byte", a, b, f)
             d == Das(o.value, o.flags)
         IN  /\ Packed(d.value) = (Packed(a) - Packed(b)) % 100
             /\ d.flags.carry = (Packed(a) < Packed(b))
<1> DEFINE l == Sub("byte", a, b, f).value
           g == Sub("byte", a, b, f).flags
<1>1. N("byte") = 256 /\ Values("byte") = 0 .. 255 /\ "byte" \in Sizes BY ByteIs
<1>2. PICK x \in 0 .. 9, y \in 0 .. 9 :
        a = 16 * x + y /\ a \in 0 .. 153 /\ a % 16 = y /\ Packed(a) = 10 * x + y
  BY PackedIs
<1>3. PICK u \in 0 .. 9, v \in 0 .. 9 :
        b = 16 * u + v /\ b \in 0 .. 153 /\ b % 16 = v /\ Packed(b) = 10 * u + v
  BY PackedIs
<1>4. a \in Values("byte") /\ b \in Values("byte") BY <1>1, <1>2, <1>3
<1>5. /\ l = (IF a < b THEN a - b + 256 ELSE a - b)
      /\ g.carry = (a < b) /\ g.adjust = (y < v)
  <2>1. l = (IF a < b THEN a - b + 256 ELSE a - b) /\ g.carry = (a < b)
    <3>1. l = (IF a < b THEN a - b + N("byte") ELSE a - b) /\ g.carry = (a < b)
      BY <1>1, <1>4, SubIs DEF l, g
    <3> QED BY <1>1, <3>1, Zenon
  <2>2. g.adjust = (a % 16 < b % 16) BY <1>1, <1>4, AddAdjust
  <2> QED BY <1>2, <1>3, <2>1, <2>2, Zenon
<1>6. l \in 0 .. 255 BY <1>2, <1>3, <1>5
<1>7. g \in FlagSet
  <2>1. a \in Int /\ b \in Int BY <1>2, <1>3
  <2>2. Fits("byte", Sub("byte", a, b, f)) BY <1>1, <2>1, AddSubType, Zenon
  <2> QED BY <2>2 DEF Fits
<1> DEFINE t == x - u
           w == y - v
<1>8. t \in -9 .. 9 /\ w \in -9 .. 9 /\ a - b = 16 * t + w
      /\ Packed(a) - Packed(b) = 10 * t + w
  BY <1>2, <1>3
<1> HIDE DEF l, g
<1>9. /\ 16 * t + w < 0 => l = (16 * t + w) + 256
      /\ 16 * t + w >= 0 => l = 16 * t + w
      /\ g.carry <=> 16 * t + w < 0
      /\ g.adjust <=> w < 0
  <2> DEFINE S == 16 * t + w
  <2>1. a - b = S /\ S \in Int /\ a \in Int /\ b \in Int BY <1>2, <1>3, <1>8
  <2> HIDE DEF S
  <2>2. (a < b) <=> S < 0 BY <2>1
  <2>3. S + 256 = (a - b) + 256 BY <2>1
  <2>4. /\ S < 0 => l = S + 256
        /\ S >= 0 => l = S
        /\ g.carry <=> S < 0
    <3>1. g.carry <=> S < 0 BY <1>5, <2>2
    <3>2. CASE a < b
      <4>1. l = a - b + 256 BY <1>5, <3>2, Zenon
      <4>2. l = S + 256 BY <2>1, <4>1
      <4> QED BY <2>1, <2>2, <3>1, <3>2, <4>2
    <3>3. CASE ~ (a < b)
      <4>1. l = a - b BY <1>5, <3>3, Zenon
      <4> QED BY <2>1, <2>2, <3>1, <3>3, <4>1
    <3> QED BY <3>2, <3>3
  <2>5. y < v <=> w < 0 BY <1>2, <1>3
  <2>6. g.adjust <=> w < 0 BY <1>5, <2>5
  <2> HIDE DEF t, w
  <2> QED BY <2>4, <2>6 DEF S
<1>10. g.carry \in BOOLEAN /\ g.adjust \in BOOLEAN BY <1>7, FlagsAre
<1>11. (10 * t + w < 0) <=> (Packed(a) < Packed(b)) BY <1>2, <1>3
<1> HIDE DEF t, w
<1> DEFINE i == l % 16 > 9 \/ g.adjust
           ten == l > 153 \/ g.carry
           c == ten \/ (i /\ l < 6)
           down == IF i THEN (l - 6) % 256 ELSE l
           r == IF ten THEN (down - 96) % 256 ELSE down
<1>12. Packed(r) = (10 * t + w) % 100 /\ (c <=> 10 * t + w < 0)
  <2>1. /\ 10 * (r \div 16) + (r % 16) = (10 * t + w) % 100
        /\ c <=> 10 * t + w < 0
    <3>1. ten \in BOOLEAN /\ i \in BOOLEAN BY <1>10
    <3>2. /\ i <=> l % 16 > 9 \/ g.adjust
          /\ ten <=> l > 153 \/ g.carry
      OBVIOUS
    <3> HIDE DEF i, ten
    <3>3. /\ i => down = (l - 6) % 256
          /\ ~ i => down = l
      OBVIOUS
    <3> HIDE DEF down
    <3>4. /\ ten => r = (down - 96) % 256
          /\ ~ ten => r = down
      OBVIOUS
    <3> HIDE DEF r
    <3>5. Subtracted(t, w, l, g.carry, g.adjust, i, ten, down, r)
      BY <1>6, <1>8, <1>9, <3>2, <3>3, <3>4 DEF Subtracted
    <3> QED BY <1>10, <3>1, <3>5, DifferenceToDigits
  <2> HIDE DEF r, c
  <2> QED BY <2>1 DEF Packed
<1>13. Das(l, g).value = r /\ Das(l, g).flags.carry = c
  BY <1>6, <1>7, PackedAdjustments
<1> HIDE DEF r, c
<1>14. /\ Packed(Das(l, g).value) = (Packed(a) - Packed(b)) % 100
       /\ Das(l, g).flags.carry = (Packed(a) < Packed(b))
  <2>1. c = (Packed(a) < Packed(b)) BY <1>11, <1>12 DEF c
  <2> QED BY <1>8, <1>12, <1>13, <2>1, Zenon
<1> QED BY <1>14 DEF l, g

LEMMA DigitAdjustments ==
  ASSUME NEW h, NEW l, NEW f
  PROVE  LET i == l % 16 > 9 \/ f.adjust
         IN  /\ Aaa(h, l, f).high = (IF i THEN Wrap("byte", h + 1) ELSE h)
             /\ Aaa(h, l, f).low = (IF i THEN (l + 6) % 16 ELSE l % 16)
             /\ Aas(h, l, f).high = (IF i THEN Wrap("byte", h - 1) ELSE h)
             /\ Aas(h, l, f).low = (IF i THEN (l - 6) % 16 ELSE l % 16)
<1> DEFINE i == Irregular(l, f)
<1>1. i = (l % 16 > 9 \/ f.adjust) BY DEF Irregular, Digit
<1>2. /\ Aaa(h, l, f).high = (IF i THEN Wrap("byte", h + 1) ELSE h)
      /\ Aaa(h, l, f).low = (IF i THEN Digit(l + 6) ELSE Digit(l))
  BY DEF Aaa
<1>3. /\ Aas(h, l, f).high = (IF i THEN Wrap("byte", h - 1) ELSE h)
      /\ Aas(h, l, f).low = (IF i THEN Digit(l - 6) ELSE Digit(l))
  BY DEF Aas
<1>4. Digit(l + 6) = (l + 6) % 16 /\ Digit(l) = l % 16 /\ Digit(l - 6) = (l - 6) % 16
  BY DEF Digit
<1> HIDE DEF i
<1> QED BY <1>1, <1>2, <1>3, <1>4, Zenon

LEMMA AaaDecimal ==
  ASSUME NEW e \in 0 .. 9, NEW a \in 0 .. 9, NEW b \in 0 .. 9, NEW f \in FlagSet,
         Bits["byte"] = 8, Nibble = 4
  PROVE  LET o == Add("byte", a, b, f)
             p == Aaa(e, o.value, o.flags)
         IN  10 * p.high + p.low = (10 * e + a) + b
<1> DEFINE l == Add("byte", a, b, f).value
           g == Add("byte", a, b, f).flags
           i == l % 16 > 9 \/ g.adjust
<1>1. N("byte") = 256 /\ Values("byte") = 0 .. 255 /\ "byte" \in Sizes BY ByteIs
<1>2. a \in Values("byte") /\ b \in Values("byte") /\ a % 16 = a /\ b % 16 = b BY <1>1
<1>3. l = (IF a + b >= N("byte") THEN a + b - N("byte") ELSE a + b) BY <1>1, <1>2, AddIs
<1>4. l = a + b BY <1>1, <1>3
<1>5. g.adjust = (a + b >= 16) BY <1>1, <1>2, AddAdjust
<1> HIDE DEF l, g
<1>6. i <=> a + b >= 10
  <2>1. g.adjust <=> a + b >= 16 BY <1>5
  <2>2. (a + b) % 16 > 9 \/ a + b >= 16 <=> a + b >= 10 OBVIOUS
  <2> QED BY <1>4, <2>1, <2>2, Zenon
<1>7. Wrap("byte", e + 1) = e + 1 BY <1>1 DEF Wrap
<1>8. Aaa(e, l, g).high = IF i THEN e + 1 ELSE e BY <1>7, DigitAdjustments
<1>9. Aaa(e, l, g).low = IF i THEN (l + 6) % 16 ELSE l % 16 BY DigitAdjustments
<1>10. 10 * Aaa(e, l, g).high + Aaa(e, l, g).low = (10 * e + a) + b
  <2> HIDE DEF i
  <2>1. CASE i
    <3>1. (l + 6) % 16 = (a + b) - 10 BY <1>4, <1>6, <2>1
    <3> QED BY <1>8, <1>9, <2>1, <3>1
  <2>2. CASE ~ i
    <3>1. l % 16 = a + b BY <1>4, <1>6, <2>2
    <3> QED BY <1>8, <1>9, <2>2, <3>1
  <2> QED BY <2>1, <2>2
<1> QED BY <1>10 DEF l, g

LEMMA AasDecimal ==
  ASSUME NEW e \in 0 .. 9, NEW a \in 0 .. 9, NEW b \in 0 .. 9, NEW f \in FlagSet,
         Bits["byte"] = 8, Nibble = 4, 10 * e + a >= b
  PROVE  LET o == Sub("byte", a, b, f)
             p == Aas(e, o.value, o.flags)
         IN  10 * p.high + p.low = (10 * e + a) - b
<1> DEFINE l == Sub("byte", a, b, f).value
           g == Sub("byte", a, b, f).flags
           i == l % 16 > 9 \/ g.adjust
<1>1. N("byte") = 256 /\ Values("byte") = 0 .. 255 /\ "byte" \in Sizes BY ByteIs
<1>2. a \in Values("byte") /\ b \in Values("byte") /\ a % 16 = a /\ b % 16 = b BY <1>1
<1>3. l = (IF a < b THEN a - b + N("byte") ELSE a - b) BY <1>1, <1>2, SubIs
<1>4. (a < b => l = (a - b) + 256) /\ (a >= b => l = a - b) BY <1>1, <1>3
<1>5. g.adjust = (a < b) BY <1>1, <1>2, AddAdjust
<1> HIDE DEF l, g
<1>6. i <=> a < b
  <2>1. g.adjust <=> a < b BY <1>5
  <2>2. CASE a < b BY <2>1, <2>2
  <2>3. CASE ~ (a < b)
    <3>1. l % 16 = a - b /\ a - b <= 9 BY <1>4, <2>3
    <3>2. ~ (l % 16 > 9) BY <3>1, <2>3
    <3> QED BY <2>1, <2>3, <3>2
  <2> QED BY <2>2, <2>3
<1>7. a < b => Wrap("byte", e - 1) = e - 1 BY <1>1 DEF Wrap
<1>8. Aas(e, l, g).high = IF i THEN Wrap("byte", e - 1) ELSE e BY DigitAdjustments
<1>9. Aas(e, l, g).low = IF i THEN (l - 6) % 16 ELSE l % 16 BY DigitAdjustments
<1>10. 10 * Aas(e, l, g).high + Aas(e, l, g).low = (10 * e + a) - b
  <2> HIDE DEF i
  <2>1. CASE i
    <3>1. (l - 6) % 16 = (a - b) + 10 BY <1>4, <1>6, <2>1
    <3> QED BY <1>6, <1>7, <1>8, <1>9, <2>1, <3>1
  <2>2. CASE ~ i
    <3>1. l % 16 = a - b BY <1>4, <1>6, <2>2
    <3> QED BY <1>8, <1>9, <2>2, <3>1
  <2> QED BY <2>1, <2>2
<1> QED BY <1>10 DEF l, g

LEMMA AamDecimal ==
  ASSUME NEW l \in 0 .. 255, NEW f \in FlagSet
  PROVE  /\ Aam(l, 0, f).result # "Ok"
         /\ Aam(l, 10, f).result = "Ok"
         /\ 10 * Aam(l, 10, f).high + Aam(l, 10, f).low = l
<1>1. Aam(l, 0, f).result # "Ok" BY DEF Aam
<1>2. /\ Aam(l, 10, f).result = "Ok"
      /\ Aam(l, 10, f).high = l \div 10 /\ Aam(l, 10, f).low = l % 10
  BY DEF Aam
<1>3. 10 * (l \div 10) + (l % 10) = l OBVIOUS
<1> QED BY <1>1, <1>2, <1>3

LEMMA DigitProduct ==
  ASSUME NEW a \in 0 .. 9, NEW b \in 0 .. 9
  PROVE  a * b \in 0 .. 81
<1>1. /\ 0 * b \in 0 .. 81 /\ 1 * b \in 0 .. 81 /\ 2 * b \in 0 .. 81 /\ 3 * b \in 0 .. 81
      /\ 4 * b \in 0 .. 81 /\ 5 * b \in 0 .. 81 /\ 6 * b \in 0 .. 81 /\ 7 * b \in 0 .. 81
      /\ 8 * b \in 0 .. 81 /\ 9 * b \in 0 .. 81
  OBVIOUS
<1>2. \/ a = 0 \/ a = 1 \/ a = 2 \/ a = 3 \/ a = 4 \/ a = 5 \/ a = 6 \/ a = 7
      \/ a = 8 \/ a = 9
  OBVIOUS
<1> QED BY <1>1, <1>2, Zenon

LEMMA AadDecimal ==
  ASSUME NEW e \in 0 .. 9, NEW a \in 0 .. 9, NEW f \in FlagSet, Bits["byte"] = 8
  PROVE  Aad(e, a, 10, f).high = 0 /\ Aad(e, a, 10, f).low = 10 * e + a
<1>1. N("byte") = 256 BY ByteIs
<1>2. Wrap("byte", e * 10 + a) = 10 * e + a BY <1>1 DEF Wrap
<1> QED BY <1>2 DEF Aad

LEMMA DigitIs ==
  ASSUME NEW x \in 0 .. 9
  PROVE  Packed(x) = x
BY DEF Packed

(* A step that adjusts al.                                                 *)
LEMMA AdjustmentSets ==
  ASSUME TypeInv, Next, NEW op, NEW x, Instruction = Imm(op, "acc", x)
  PROVE  LET e == regs["ext"]
             a == regs["acc"]
             p == Aaa(e, a, flags)
             q == Aas(e, a, flags)
             r == Aad(e, a, x, flags)
             m == Aam(a, x, flags)
         IN  /\ op = "daa" => PairSets(e, Daa(a, flags).value, Daa(a, flags).flags)
             /\ op = "das" => PairSets(e, Das(a, flags).value, Das(a, flags).flags)
             /\ op = "aaa" => PairSets(p.high, p.low, p.flags)
             /\ op = "aas" => PairSets(q.high, q.low, q.flags)
             /\ op = "aad" => PairSets(r.high, r.low, r.flags)
             /\ op = "aam" => \/ m.result # "Ok" /\ result' = m.result
                              \/ m.result = "Ok" /\ PairSets(m.high, m.low, m.flags)
<1> DEFINE e == regs["ext"]
           a == regs["acc"]
           p == Aaa(e, a, flags)
           q == Aas(e, a, flags)
           r == Aad(e, a, x, flags)
           m == Aam(a, x, flags)
<1>1. Instruction.op = op /\ Source(regs) = x BY ImmIs
<1>2. op = "daa" => PairSets(e, Daa(a, flags).value, Daa(a, flags).flags)
  BY <1>1, Executes, WritesPairSets DEF ExecDaa
<1>3. op = "das" => PairSets(e, Das(a, flags).value, Das(a, flags).flags)
  BY <1>1, Executes, WritesPairSets DEF ExecDas
<1>4. op = "aaa" => PairSets(p.high, p.low, p.flags)
  BY <1>1, Executes, WritesPairSets DEF ExecAaa
<1>5. op = "aas" => PairSets(q.high, q.low, q.flags)
  BY <1>1, Executes, WritesPairSets DEF ExecAas
<1>6. op = "aad" => PairSets(r.high, r.low, r.flags)
  BY <1>1, Executes, WritesPairSets DEF ExecAad
<1>7. op = "aam" => \/ m.result # "Ok" /\ result' = m.result
                    \/ m.result = "Ok" /\ PairSets(m.high, m.low, m.flags)
  BY <1>1, Executes, WritesPairSets DEF ExecAam, Fails
<1> QED BY <1>2, <1>3, <1>4, <1>5, <1>6, <1>7

Decimal == {"daa", "das", "aaa", "aas", "aam", "aad"}

(* What is about to be adjusted, or for aad what has been.                 *)
HalfDecimal ==
  LET e == given.regs["ext"]
      a == given.regs["acc"]
      b == given.regs["b"]
      adds == \E f \in FlagSet : LET o == Add("byte", a, b, f)
                                 IN  regs["acc"] = o.value /\ flags = o.flags
      subs == \E f \in FlagSet : LET o == Sub("byte", a, b, f)
                                 IN  regs["acc"] = o.value /\ flags = o.flags
  IN  /\ s = "byte" /\ result = "Ok" /\ regs["b"] = b
      /\ given.name \in {"daa", "aaa"} => regs["ext"] = e /\ adds
      /\ given.name \in {"das", "aas"} => regs["ext"] = e /\ subs
      /\ given.name = "aam" => regs["ext"] * N("byte") + regs["acc"] = a * b
      /\ given.name = "aad" => regs["ext"] = 0 /\ regs["acc"] = 10 * e + a

DecimalInv ==
  given.name \in Decimal =>
    \/ Started
    \/ todo = Tail(given.code) /\ HalfDecimal
    \/ todo = <<>> /\ DecimalArithmetic

(* The two instructions of a decimal program.                              *)
LEMMA DecimalCode ==
  ASSUME TypeInv, given.name \in Decimal
  PROVE  \E op, x :
           /\ given.name # "aad" =>
                /\ given.code = <<Reg(op, "acc", "b"), Imm(given.name, "acc", x)>>
                /\ given.code[2].imm = x
           /\ given.name = "aad" =>
                given.code = <<Imm("aad", "acc", 10), Reg("div", "acc", "b")>>
           /\ given.name \in {"daa", "aaa"} => op = "add"
           /\ given.name \in {"das", "aas"} => op = "sub"
           /\ given.name = "aam" => op = "mul" /\ x \in {0, 10}
<1>1. Listed(given.name, s, given.code) BY DEF TypeInv, GivenInv
<1>2. \A op, x, y : /\ AdjustedCode(op, y, x) = <<Reg(op, "acc", "b"), Imm(y, "acc", x)>>
                    /\ AdjustedCode(op, y, x)[2].imm = x
  <2> SUFFICES ASSUME NEW op, NEW x, NEW y
               PROVE  /\ AdjustedCode(op, y, x) = <<Reg(op, "acc", "b"), Imm(y, "acc", x)>>
                      /\ AdjustedCode(op, y, x)[2].imm = x
    OBVIOUS
  <2> DEFINE i == Reg(op, "acc", "b")
             j == Imm(y, "acc", x)
  <2>1. AdjustedCode(op, y, x) = <<i, j>> BY DEF AdjustedCode
  <2>2. j.imm = x BY DEF Imm
  <2> HIDE DEF i, j
  <2>3. <<i, j>>[2] = j OBVIOUS
  <2> QED BY <2>1, <2>2, <2>3 DEF i, j
<1>3. CASE given.name \in {"daa", "aaa"}
  <2>1. given.code = AdjustedCode("add", given.name, 10) BY <1>1, <1>3 DEF Listed
  <2> QED BY <1>2, <1>3, <2>1
<1>4. CASE given.name \in {"das", "aas"}
  <2>1. given.code = AdjustedCode("sub", given.name, 10) BY <1>1, <1>4 DEF Listed
  <2> QED BY <1>2, <1>4, <2>1
<1>5. CASE given.name = "aam"
  <2>1. PICK x \in {0, 10} : given.code = AdjustedCode("mul", given.name, x)
    BY <1>1, <1>5 DEF Listed
  <2> QED BY <1>2, <1>5, <2>1
<1>6. CASE given.name = "aad" BY <1>1, <1>6 DEF Listed, AadCode
<1> QED BY <1>3, <1>4, <1>5, <1>6 DEF Decimal

(* The instruction that adjusts is admissible only for real bytes.         *)
LEMMA DecimalByte ==
  ASSUME TypeInv, given.name \in Decimal, Started \/ (HalfDecimal /\ given.name # "aad"),
         todo = given.code \/ todo = Tail(given.code)
  PROVE  s = "byte" /\ Bits["byte"] = 8 /\ Nibble = 4
<1>1. PICK op, x :
        /\ given.name # "aad" =>
             given.code = <<Reg(op, "acc", "b"), Imm(given.name, "acc", x)>>
        /\ given.name = "aad" =>
             given.code = <<Imm("aad", "acc", 10), Reg("div", "acc", "b")>>
  BY DecimalCode
<1>2. todo \in Seq(Admissible) BY DEF TypeInv
<1>3. \A y, z : Imm(y, "acc", z).op = y BY DEF Imm
<1>4. \A i : i \in Admissible /\ i.op \in Adjusting =>
        s = "byte" /\ Bits["byte"] = 8 /\ Nibble = 4
  BY DEF Admissible
<1>5. \A i, j : <<i, j>> \in Seq(Admissible) => i \in Admissible /\ j \in Admissible
  <2> SUFFICES ASSUME NEW i, NEW j, <<i, j>> \in Seq(Admissible)
               PROVE  i \in Admissible /\ j \in Admissible
    BY Zenon
  <2>1. /\ <<i, j>>[1] = i /\ <<i, j>>[2] = j
        /\ 1 \in 1 .. Len(<<i, j>>) /\ 2 \in 1 .. Len(<<i, j>>)
    OBVIOUS
  <2> QED BY <2>1
<1>8. \A j : <<j>> \in Seq(Admissible) => j \in Admissible
  <2> SUFFICES ASSUME NEW j, <<j>> \in Seq(Admissible) PROVE j \in Admissible
    BY Zenon
  <2>1. <<j>>[1] = j /\ 1 \in 1 .. Len(<<j>>) OBVIOUS
  <2> QED BY <2>1
<1>9. \A i, j : Tail(<<i, j>>) = <<j>>
  <2> SUFFICES ASSUME NEW i, NEW j PROVE Tail(<<i, j>>) = <<j>> BY Zenon
  <2> QED BY Sequences
<1>6. CASE given.name # "aad"
  <2> DEFINE i == Reg(op, "acc", "b")
             j == Imm(given.name, "acc", x)
  <2>1. j.op \in Adjusting BY <1>3 DEF Decimal, Adjusting
  <2>2. given.code = <<i, j>> BY <1>1, <1>6
  <2> HIDE DEF i, j
  <2>3. j \in Admissible BY <1>2, <1>5, <1>8, <1>9, <2>2, Zenon
  <2> QED BY <1>4, <2>1, <2>3
<1>7. CASE given.name = "aad"
  <2> DEFINE i == Imm("aad", "acc", 10)
             j == Reg("div", "acc", "b")
  <2>1. i.op \in Adjusting BY <1>3 DEF Adjusting
  <2>2. todo = <<i, j>> BY <1>1, <1>7 DEF Started
  <2> HIDE DEF i, j
  <2>3. i \in Admissible BY <1>2, <1>5, <2>2, Zenon
  <2> QED BY <1>4, <2>1, <2>3
<1> QED BY <1>6, <1>7

(* The first instruction leaves what is to be adjusted.                    *)
LEMMA DecimalFirst ==
  ASSUME TypeInv, Next, given.name \in Decimal, Started
  PROVE  todo' = Tail(given.code) /\ HalfDecimal'
<1> DEFINE e == given.regs["ext"]
           a == given.regs["acc"]
           b == given.regs["b"]
<1>1. /\ todo # <<>> /\ todo' = Tail(todo) /\ result = "Ok" /\ given' = given /\ s' = s
      /\ todo = given.code
  BY Stepping
<1>2. s = "byte" /\ Bits["byte"] = 8 /\ Nibble = 4 BY <1>1, DecimalByte
<1>3. PICK op, x :
        /\ given.name # "aad" =>
             given.code = <<Reg(op, "acc", "b"), Imm(given.name, "acc", x)>>
        /\ given.name = "aad" =>
             given.code = <<Imm("aad", "acc", 10), Reg("div", "acc", "b")>>
        /\ given.name \in {"daa", "aaa"} => op = "add"
        /\ given.name \in {"das", "aas"} => op = "sub"
        /\ given.name = "aam" => op = "mul"
  BY DecimalCode
<1>4. regs["ext"] = e /\ regs["acc"] = a /\ regs["b"] = b BY DEF Started
<1>5. /\ {"acc", "ext", "b"} \subseteq Regs /\ flags \in FlagSet /\ s \in Sizes
      /\ a \in Values(s) /\ b \in Values(s)
  BY Known
<1>6. CASE given.name # "aad"
  <2>1. Instruction = Reg(op, "acc", "b") BY <1>1, <1>3, <1>6, TwoSteps
  <2>2. CASE given.name \in {"daa", "aaa"}
    <3> DEFINE o == Add("byte", a, b, flags)
    <3>1. Sets("acc", o) BY <1>2, <1>3, <1>4, <1>5, <2>1, <2>2, RegSets
    <3>2. /\ regs'["acc"] = o.value /\ flags' = o.flags /\ regs'["ext"] = e
          /\ regs'["b"] = b /\ result' = "Ok"
      BY <1>1, <1>4, <3>1, <1>5 DEF Sets
    <3> QED BY <1>1, <1>2, <1>5, <2>2, <3>2 DEF HalfDecimal
  <2>3. CASE given.name \in {"das", "aas"}
    <3> DEFINE o == Sub("byte", a, b, flags)
    <3>1. Sets("acc", o) BY <1>2, <1>3, <1>4, <1>5, <2>1, <2>3, RegSets
    <3>2. /\ regs'["acc"] = o.value /\ flags' = o.flags /\ regs'["ext"] = e
          /\ regs'["b"] = b /\ result' = "Ok"
      BY <1>1, <1>4, <3>1, <1>5 DEF Sets
    <3> QED BY <1>1, <1>2, <1>5, <2>3, <3>2 DEF HalfDecimal
  <2>4. CASE given.name = "aam"
    <3> DEFINE p == Mul("byte", a, b, flags)
    <3>1. PairSets(p.high, p.low, p.flags)
      BY <1>2, <1>3, <1>4, <2>1, <2>4, ProductSets
    <3>2. p.high * N("byte") + p.low = a * b BY <1>2, <1>5, MulIs
    <3>3. /\ regs'["acc"] = p.low /\ regs'["ext"] = p.high
          /\ regs'["b"] = b /\ result' = "Ok"
      BY <1>1, <1>4, <1>5, <3>1 DEF PairSets
    <3> HIDE DEF p
    <3> QED BY <1>1, <1>2, <2>4, <3>2, <3>3 DEF HalfDecimal
  <2> QED BY <1>6, <2>2, <2>3, <2>4, <1>1 DEF Decimal
<1>7. CASE given.name = "aad"
  <2> DEFINE r == Aad(e, a, 10, flags)
  <2>1. Instruction = Imm("aad", "acc", 10) BY <1>1, <1>3, <1>7, TwoSteps
  <2>2. PairSets(r.high, r.low, r.flags) BY <1>4, <2>1, AdjustmentSets
  <2>3. e \in 0 .. 9 /\ a \in 0 .. 9 BY <1>7 DEF TypeInv, GivenInv, Prepared
  <2>4. r.high = 0 /\ r.low = 10 * e + a 
    <3> HIDE DEF e, a
    <3> QED BY <1>2, <1>5, <2>3, AadDecimal
  <2>5. /\ regs'["acc"] = 10 * e + a /\ regs'["ext"] = 0
        /\ regs'["b"] = b /\ result' = "Ok"
    BY <1>1, <1>4, <1>5, <2>2, <2>4 DEF PairSets
  <2> QED BY <1>1, <1>2, <1>7, <2>5 DEF HalfDecimal
<1> QED BY <1>6, <1>7

(* The second one makes it decimal.                                        *)
LEMMA DecimalSecond ==
  ASSUME TypeInv, Next, given.name \in Decimal, todo = Tail(given.code), HalfDecimal
  PROVE  todo' = <<>> /\ DecimalArithmetic'
<1> DEFINE e == given.regs["ext"]
           a == given.regs["acc"]
           b == given.regs["b"]
<1>1. /\ todo # <<>> /\ todo' = Tail(todo) /\ result = "Ok" /\ given' = given /\ s' = s
  BY Stepping
<1>2. PICK op, x :
        /\ given.name # "aad" =>
             /\ given.code = <<Reg(op, "acc", "b"), Imm(given.name, "acc", x)>>
             /\ given.code[2].imm = x
        /\ given.name = "aad" =>
             given.code = <<Imm("aad", "acc", 10), Reg("div", "acc", "b")>>
        /\ given.name = "aam" => x \in {0, 10}
  BY DecimalCode
<1>3. todo' = <<>>
  <2>1. CASE given.name = "aad" BY <1>1, <1>2, <2>1, TwoSteps
  <2>2. CASE given.name # "aad" BY <1>1, <1>2, <2>2, TwoSteps
  <2> QED BY <2>1, <2>2
<1>4. /\ {"acc", "ext", "b"} \subseteq Regs /\ flags \in FlagSet /\ s \in Sizes
      /\ a \in Values(s) /\ b \in Values(s)
      /\ regs["acc"] \in Values(s) /\ regs["ext"] \in Values(s) /\ regs["b"] \in Values(s)
  BY Known
<1>5. given.name \in {"aaa", "aas", "aam", "aad"} =>
        e \in 0 .. 9 /\ a \in 0 .. 9 /\ b \in 0 .. 9
  BY DEF TypeInv, GivenInv, Prepared
<1>6. given.name \in {"daa", "das"} => a \in PackedBytes /\ b \in PackedBytes
  BY DEF TypeInv, GivenInv, Prepared
<1>7. CASE given.name = "aad"
  <2>1. Instruction = Reg("div", "acc", "b") BY <1>2, <1>7, TwoSteps
  <2> DEFINE d == Div(s, regs["ext"], regs["acc"], regs["b"])
  <2>2. Divides(d) BY <2>1, ProductSets
  <2>3. DivisionIs(s, regs["ext"], regs["acc"], regs["b"], d) BY <1>4, DivIs
  <2> HIDE DEF d
  <2>4. /\ result' = d.result
        /\ d.result = "Ok" => regs'["acc"] = d.quotient /\ regs'["ext"] = d.remainder
    BY <1>1, <2>2, DividesSets DEF PairSets
  <2>5. regs["ext"] = 0 /\ regs["acc"] = 10 * e + a /\ regs["b"] = b
    BY <1>7 DEF HalfDecimal
  <2>6. N(s) \in Nat BY Known
  <2>7. result' = "Ok" => regs'["acc"] * b + regs'["ext"] = 10 * e + a
    <3>1. d.result = "Ok" =>
            d.quotient * regs["b"] + d.remainder = regs["ext"] * N(s) + regs["acc"]
      BY <2>3 DEF DivisionIs
    <3>2. regs["ext"] * N(s) = 0 BY <2>5, <2>6
    <3>3. regs["ext"] * N(s) + regs["acc"] = 10 * e + a
      <4>1. regs["acc"] \in Int BY Known, <1>4
      <4> QED BY <2>5, <3>2, <4>1
    <3> QED BY <2>4, <2>5, <3>1, <3>3, Zenon
  <2>8. (Ended("aad") => regs["acc"] * Packed(given.regs["b"]) + regs["ext"] =
                           10 * given.regs["ext"] + given.regs["acc"])'
    <3>1. Packed(b) = b BY <1>5, <1>7, DigitIs
    <3>2. Packed(given'.regs["b"]) = Packed(b) BY <1>1
    <3> QED BY <1>1, <2>7, <3>1, <3>2, Zenon DEF Ended, Packed
  <2>9. /\ ~ Ended("daa")' /\ ~ Ended("das")' /\ ~ Ended("aaa")' /\ ~ Ended("aas")'
        /\ ~ Ended("aam")' /\ ~ Runs("aam")'
    BY <1>1, <1>7 DEF Ended, Runs
  <2>10. DecimalArithmetic' BY <2>8, <2>9 DEF DecimalArithmetic
  <2> QED BY <1>3, <2>10
<1>8. CASE given.name # "aad"
  <2>1. Instruction = Imm(given.name, "acc", x) BY <1>2, <1>8, TwoSteps
  <2>2. s = "byte" /\ Bits["byte"] = 8 /\ Nibble = 4 BY <1>8, DecimalByte
  <2>3. CASE given.name = "daa"
    <3>1. PICK f \in FlagSet : LET o == Add("byte", a, b, f)
                               IN  regs["acc"] = o.value /\ flags = o.flags
      BY <2>3 DEF HalfDecimal
    <3> DEFINE o == Add("byte", a, b, f)
               d == Daa(o.value, o.flags)
    <3>2. PairSets(regs["ext"], d.value, d.flags) BY <2>1, <2>3, <3>1, AdjustmentSets
    <3>3. regs'["acc"] = d.value /\ flags' = d.flags BY <3>2 DEF PairSets
    <3>4. /\ Packed(d.value) = (Packed(a) + Packed(b)) % 100
          /\ d.flags.carry = (Packed(a) + Packed(b) >= 100)
      BY <1>6, <2>2, <2>3, DaaDecimal
    <3> HIDE DEF d
    <3>5. /\ Packed(regs'["acc"]) = (Packed(a) + Packed(b)) % 100
          /\ flags'.carry = (Packed(a) + Packed(b) >= 100)
      BY <3>3, <3>4
    <3> QED BY <1>1, <1>3, <2>3, <3>5 DEF DecimalArithmetic, Ended, Runs, Packed
  <2>4. CASE given.name = "das"
    <3>1. PICK f \in FlagSet : LET o == Sub("byte", a, b, f)
                               IN  regs["acc"] = o.value /\ flags = o.flags
      BY <2>4 DEF HalfDecimal
    <3> DEFINE o == Sub("byte", a, b, f)
               d == Das(o.value, o.flags)
    <3>2. PairSets(regs["ext"], d.value, d.flags) BY <2>1, <2>4, <3>1, AdjustmentSets
    <3>3. regs'["acc"] = d.value /\ flags' = d.flags BY <3>2 DEF PairSets
    <3>4. /\ Packed(d.value) = (Packed(a) - Packed(b)) % 100
          /\ d.flags.carry = (Packed(a) < Packed(b))
      BY <1>6, <2>2, <2>4, DasDecimal
    <3> HIDE DEF d
    <3>5. /\ Packed(regs'["acc"]) = (Packed(a) - Packed(b)) % 100
          /\ flags'.carry = (Packed(a) < Packed(b))
      BY <3>3, <3>4
    <3> QED BY <1>1, <1>3, <2>4, <3>5 DEF DecimalArithmetic, Ended, Runs, Packed
  <2>5. CASE given.name = "aaa"
    <3>1. PICK f \in FlagSet : LET o == Add("byte", a, b, f)
                               IN  regs["acc"] = o.value /\ flags = o.flags
      BY <2>5 DEF HalfDecimal
    <3> DEFINE o == Add("byte", a, b, f)
               p == Aaa(e, o.value, o.flags)
    <3>2. regs["ext"] = e BY <2>5 DEF HalfDecimal
    <3>3. PairSets(p.high, p.low, p.flags) BY <2>1, <2>5, <3>1, <3>2, AdjustmentSets
    <3>4. 10 * p.high + p.low = (10 * e + a) + b
      <4> HIDE DEF e, a, b
      <4> QED BY <1>5, <2>2, <2>5, AaaDecimal
    <3> HIDE DEF p
    <3>5. 10 * regs'["ext"] + regs'["acc"] = (10 * e + a) + b BY <3>3, <3>4 DEF PairSets
    <3>6. Packed(b) = b BY <1>5, <2>5, DigitIs
    <3> QED BY <1>1, <1>3, <2>5, <3>5, <3>6 DEF DecimalArithmetic, Ended, Runs, Packed
  <2>6. CASE given.name = "aas"
    <3>1. PICK f \in FlagSet : LET o == Sub("byte", a, b, f)
                               IN  regs["acc"] = o.value /\ flags = o.flags
      BY <2>6 DEF HalfDecimal
    <3> DEFINE o == Sub("byte", a, b, f)
               p == Aas(e, o.value, o.flags)
    <3>2. regs["ext"] = e BY <2>6 DEF HalfDecimal
    <3>3. PairSets(p.high, p.low, p.flags) BY <2>1, <2>6, <3>1, <3>2, AdjustmentSets
    <3>4. 10 * e + a >= b => 10 * p.high + p.low = (10 * e + a) - b
      BY <1>5, <2>2, <2>6, AasDecimal
    <3> HIDE DEF p
    <3>5. 10 * e + a >= b => 10 * regs'["ext"] + regs'["acc"] = (10 * e + a) - b
      BY <3>3, <3>4 DEF PairSets
    <3>6. Packed(b) = b BY <1>5, <2>6, DigitIs
    <3> QED BY <1>1, <1>3, <2>6, <3>5, <3>6 DEF DecimalArithmetic, Ended, Runs, Packed
  <2>7. CASE given.name = "aam"
    <3> DEFINE l == regs["acc"]
    <3>1. /\ e \in 0 .. 9 /\ a \in 0 .. 9 /\ b \in 0 .. 9 BY <1>5, <2>7
    <3>2. N("byte") = 256 /\ Values("byte") = 0 .. 255 BY <2>2, ByteIs
    <3>3. l \in 0 .. 255 /\ regs["ext"] \in 0 .. 255 BY <1>4, <2>2, <3>2
    <3>4. regs["ext"] * 256 + l = a * b BY <2>7, <3>2 DEF HalfDecimal
    <3>5. a * b \in 0 .. 81
      BY <3>1, DigitProduct
    <3>6. l = a * b
      <4> DEFINE y == a * b
                 k == regs["ext"]
      <4>1. y \in 0 .. 81 /\ k * 256 + l = y /\ k \in 0 .. 255 /\ l \in 0 .. 255
        BY <3>3, <3>4, <3>5
      <4> HIDE DEF y, l, k
      <4>2. l = y BY <4>1
      <4> QED BY <4>2 DEF y, l
    <3>7. /\ Aam(l, 0, flags).result # "Ok"
          /\ Aam(l, 10, flags).result = "Ok"
          /\ 10 * Aam(l, 10, flags).high + Aam(l, 10, flags).low = l
      <4> HIDE DEF l
      <4> QED BY <1>4, <3>3, AamDecimal
    <3> DEFINE m == Aam(l, x, flags)
    <3>8. \/ m.result # "Ok" /\ result' = m.result
          \/ m.result = "Ok" /\ PairSets(m.high, m.low, m.flags)
      BY <2>1, <2>7, AdjustmentSets
    <3>9. x \in {0, 10} BY <1>2, <2>7
    <3> HIDE DEF l
    <3>10. m.result = "Ok" <=> x # 0 BY <3>7, <3>9
    <3>11. m.result = "Ok" => 10 * m.high + m.low = l BY <3>7, <3>9, <3>10
    <3> HIDE DEF m
    <3>12. result' = "Ok" <=> x # 0 BY <1>1, <3>8, <3>10 DEF PairSets
    <3>13. result' = "Ok" => 10 * regs'["ext"] + regs'["acc"] = a * b
      BY <1>1, <3>6, <3>8, <3>11 DEF PairSets
    <3>14. Packed(a) = a /\ Packed(b) = b BY <3>1, DigitIs
    <3>15. given.code[2].imm = x BY <1>2, <1>8
    <3> QED BY <1>1, <1>3, <2>7, <3>12, <3>13, <3>14, <3>15
      DEF DecimalArithmetic, Ended, Runs, Packed
  <2> QED BY <1>8, <2>3, <2>4, <2>5, <2>6, <2>7 DEF Decimal
<1> QED BY <1>3, <1>7, <1>8

LEMMA DecimalStep ==
  ASSUME TypeInv, DecimalInv, Next
  PROVE  DecimalInv'
<1>1. given' = given BY Stepping
<1>2. ASSUME given.name \in Decimal PROVE DecimalInv'
  <2>1. CASE Started BY <1>1, <1>2, <2>1, DecimalFirst DEF DecimalInv
  <2>2. CASE todo = Tail(given.code) /\ HalfDecimal
    BY <1>1, <1>2, <2>2, DecimalSecond DEF DecimalInv
  <2>3. CASE todo = <<>> BY <2>3, Stepping
  <2> QED BY <1>2, <2>1, <2>2, <2>3 DEF DecimalInv
<1> QED BY <1>1, <1>2 DEF DecimalInv

(* Arithmetic with an adjustment is decimal on real bytes: daa and das     *)
(* after an addition and a subtraction of packed digits, to the carry that *)
(* they leave, aaa, aas and aam after one of single digits, and aad before *)
(* a division; aam fails for the base 0 alone.                             *)
THEOREM Decimals == Spec => []DecimalArithmetic
<1> DEFINE Inv == TypeInv /\ DecimalInv
<1>1. Init => Inv BY TypeStart, Begins DEF DecimalInv
<1>2. Inv /\ [Next]_vars => Inv'
  <2> SUFFICES ASSUME Inv, [Next]_vars PROVE Inv' OBVIOUS
  <2>1. TypeInv' BY TypeKept
  <2>2. CASE Next BY <2>1, <2>2, DecimalStep
  <2>3. CASE UNCHANGED vars
    <3>1. /\ Started' = Started /\ HalfDecimal' = HalfDecimal
          /\ DecimalArithmetic' = DecimalArithmetic /\ todo' = todo /\ given' = given
      BY <2>3 DEF vars, s, Started, HalfDecimal, DecimalArithmetic, Ended, Runs, Packed
    <3> QED BY <2>1, <3>1 DEF DecimalInv
  <2> QED BY <2>2, <2>3
<1>3. Inv => DecimalArithmetic
  <2> SUFFICES ASSUME Inv, todo = <<>> PROVE DecimalArithmetic
    BY DEF DecimalArithmetic, Ended, Runs
  <2>1. CASE given.name \in Decimal
    <3>1. PICK op, x :
            /\ given.name # "aad" =>
                 given.code = <<Reg(op, "acc", "b"), Imm(given.name, "acc", x)>>
            /\ given.name = "aad" =>
                 given.code = <<Imm("aad", "acc", 10), Reg("div", "acc", "b")>>
      BY <2>1, DecimalCode
    <3>2. \A i, j : <<i, j>> # <<>> /\ Tail(<<i, j>>) # <<>> BY Sequences
    <3>3. given.code # <<>> /\ Tail(given.code) # <<>> BY <3>1, <3>2, Zenon
    <3> QED BY <2>1, <3>3 DEF DecimalInv, Started
  <2>2. CASE given.name \notin Decimal BY <2>2 DEF DecimalArithmetic, Ended, Runs, Decimal
  <2> QED BY <2>1, <2>2
<1> QED BY <1>1, <1>2, <1>3, PTL DEF Spec

=============================================================================
