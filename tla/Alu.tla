--------------------------------- MODULE Alu --------------------------------
(***************************************************************************)
(* The arithmetic of the integer opcodes: for each a function from the     *)
(* operands and the flags to its outcome.  The opcodes exist in three      *)
(* sizes of different code; where that does the same it is one definition  *)
(* here, and where it does not the size s decides.                         *)
(***************************************************************************)
EXTENDS Integers, FiniteSets

CONSTANTS
  Bits,   \* width of a "byte", a "word" and a "dword"
  Nibble  \* width of the part that the adjust flag is about

ASSUME WidthAssumption ==
  /\ Bits \in [{"byte", "word", "dword"} -> Nat \ {0, 1}]
  /\ Nibble \in 1 .. Bits["byte"] /\ Nibble < Bits["word"]
  /\ Bits["byte"] <= Bits["word"] /\ Bits["word"] <= Bits["dword"]

(* Powers of two, as far as the shifts go.                                 *)
ASSUME PowerAssumption ==
  2 ^ 0 = 1 /\ \A k \in 0 .. 2 * Bits["dword"] : 2 ^ (k + 1) = 2 * 2 ^ k

Sizes == {"byte", "word", "dword"}
N(s) == 2 ^ Bits[s]
Top(s) == Bits[s] - 1
Values(s) == 0 .. N(s) - 1
SignedValues(s) == -(N(s) \div 2) .. (N(s) \div 2) - 1

Wrap(s, x) == x % N(s)
Signed(s, x) == IF x >= N(s) \div 2 THEN x - N(s) ELSE x
Bit(x, k) == (x \div 2 ^ k) % 2 = 1
Number(b) == IF b THEN 1 ELSE 0

BitsOf(s, x) == {k \in 0 .. Top(s) : Bit(x, k)}
FromBits(s, K) == CHOOSE x \in Values(s) : BitsOf(s, x) = K

(* Only the lowest byte counts.                                            *)
Parity(x) == Cardinality(BitsOf("byte", x)) % 2 = 0

FlagSet == [carry : BOOLEAN, parity : BOOLEAN, adjust : BOOLEAN,
            zero : BOOLEAN, sign : BOOLEAN, overflow : BOOLEAN]

Outcome(x, f) == [value |-> x, flags |-> f]

-----------------------------------------------------------------------------
(* Addition and subtraction                                                *)

(* The flags of a result r, those of get_flags that every caller wants.    *)
Judged(s, r, f) ==
  [f EXCEPT !.zero = r = 0, !.parity = Parity(r), !.sign = Bit(r, Top(s))]

AdjustUp(a, b) == (a % 2 ^ Nibble) + (b % 2 ^ Nibble) >= 2 ^ Nibble
AdjustDown(a, b) == a % 2 ^ Nibble < b % 2 ^ Nibble

Add(s, a, b, f) ==
  Outcome(Wrap(s, a + b),
    [Judged(s, Wrap(s, a + b), f) EXCEPT
       !.carry = a + b >= N(s),
       !.overflow = Signed(s, a) + Signed(s, b) \notin SignedValues(s),
       !.adjust = AdjustUp(a, b)])

(* Mutant: the overflow of a subtraction taken from the sum.               *)
Sub_OverflowOfSum(s, a, b, f) ==
  Outcome(Wrap(s, a - b),
    [Judged(s, Wrap(s, a - b), f) EXCEPT
       !.carry = a < b,
       !.overflow = Signed(s, a) + Signed(s, b) \notin SignedValues(s),
       !.adjust = AdjustDown(a, b)])

Sub(s, a, b, f) ==
  Outcome(Wrap(s, a - b),
    [Judged(s, Wrap(s, a - b), f) EXCEPT
       !.carry = a < b,
       !.overflow = Signed(s, a) - Signed(s, b) \notin SignedValues(s),
       !.adjust = AdjustDown(a, b)])

(* Mutant: inc is an addition of 1 in its carry, too.                     *)
Inc_Carries(s, a, f) == Add(s, a, 1, f)

(* inc and dec leave the carry alone.                                      *)
Inc(s, a, f) == [Add(s, a, 1, f) EXCEPT !.flags.carry = f.carry]
Dec(s, a, f) == [Sub(s, a, 1, f) EXCEPT !.flags.carry = f.carry]

(* Mutant: the negative number itself.                                     *)
Neg_Plain(s, a, f) ==
  Outcome(-a, [f EXCEPT !.carry = a # 0, !.zero = a = 0,
                        !.overflow = -Signed(s, a) \notin SignedValues(s)])

(* neg judges neither parity nor sign.                                     *)
Neg(s, a, f) ==
  Outcome(Wrap(s, -a),
    [f EXCEPT !.carry = a # 0, !.zero = a = 0,
              !.overflow = -Signed(s, a) \notin SignedValues(s)])

-----------------------------------------------------------------------------
(* Logic                                                                   *)

Logical(s, r, f) ==
  Outcome(r, [Judged(s, r, f) EXCEPT !.carry = FALSE, !.overflow = FALSE])

And(s, a, b, f) ==
  Logical(s, FromBits(s, BitsOf(s, a) \intersect BitsOf(s, b)), f)
Or(s, a, b, f) ==
  Logical(s, FromBits(s, BitsOf(s, a) \union BitsOf(s, b)), f)
Xor(s, a, b, f) ==
  Logical(s, FromBits(s, (BitsOf(s, a) \union BitsOf(s, b))
                           \ (BitsOf(s, a) \intersect BitsOf(s, b))), f)
Not(s, a, f) == Outcome(N(s) - 1 - a, f)

-----------------------------------------------------------------------------
(* Shifts                                                                  *)

(* A flag that is set for shifts by one only.                              *)
ByOne(k, overflow, f) == IF k = 1 THEN overflow ELSE f.overflow

(* Mutant: shl shifts in the operand's own width.                          *)
ShlWidth_Narrow(s) == Bits[s]

(* The widths that the machine shifts in: most code has extended the       *)
(* operand, that for the last bit out of shr and that of sar has not.      *)
ShlWidth(s) == 2 * Bits[s]
ShrWidth(s) == IF s = "byte" THEN Bits[s] ELSE 2 * Bits[s]
LastWidth(s) == IF s = "word" THEN 2 * Bits[s] ELSE Bits[s]

(* sar alone reduces its count, in every size to what a dword has room for.*)
Reduced(k) == k % Bits["dword"]

(* The counts that are too large for the shift, or 0 before 1 is taken     *)
(* from it: a build that checks arithmetic panics, any other shifts by the *)
(* count modulo the width.                                                 *)
ShlOverflows(s, k) == k >= ShlWidth(s)
ShrOverflows(s, k) == k = 0 \/ k >= ShrWidth(s) \/ k > LastWidth(s)
SarOverflows(s, k) == Reduced(k) >= Bits[s]

(* The bit of the wide result that shl takes for the carry: in 16-bit code *)
(* it is 0x1000.                                                           *)
ShlCarry(s) == IF s = "word" THEN Bits[s] - Nibble ELSE Bits[s]

(* 16-bit code judges the wide result to be zero or not.                   *)
Shl(s, a, k, f) ==
  LET wide == (a * 2 ^ (k % ShlWidth(s))) % 2 ^ ShlWidth(s)
      r    == Wrap(s, wide)
  IN  Outcome(r, [Judged(s, r, f) EXCEPT
        !.carry = Bit(wide, ShlCarry(s)),
        !.zero = IF s = "word" THEN wide = 0 ELSE r = 0,
        !.overflow = ByOne(k, Bit(a, Top(s)) # Bit(r, Top(s)), f)])

LastOut(s, a, k) == Bit(a, (k - 1) % LastWidth(s))

Shr(s, a, k, f) ==
  LET r == a \div 2 ^ (k % ShrWidth(s))
  IN  Outcome(r, [Judged(s, r, f) EXCEPT
        !.carry = LastOut(s, a, k),
        !.overflow = ByOne(k, Bit(a, Top(s)) # Bit(r, Top(s)), f)])

(* \div rounds down, as copies of the sign do.                             *)
Sar(s, a, k, f) ==
  LET t == Reduced(k)
      r == Wrap(s, Signed(s, a) \div 2 ^ (t % Bits[s]))
  IN  IF t = 0 THEN Outcome(a, [f EXCEPT !.overflow = ByOne(k, FALSE, f)])
      ELSE Outcome(r, [Judged(s, r, f) EXCEPT
             !.carry = Bit(a, (t - 1) % Bits[s]),
             !.overflow = ByOne(k, FALSE, f)])

-----------------------------------------------------------------------------
(* Rotations                                                               *)

Turns(s, k) == k % Bits[s]

Rol(s, a, k, f) ==
  LET t == Turns(s, k)
      r == Wrap(s, a * 2 ^ t) + a \div 2 ^ (Bits[s] - t)
  IN  IF t = 0 THEN Outcome(a, f)
      ELSE Outcome(r, [f EXCEPT
             !.carry = Bit(r, 0),
             !.overflow = ByOne(t, Bit(r, Top(s)) # Bit(r, 0), f)])

Ror(s, a, k, f) ==
  LET t == Turns(s, k)
      r == a \div 2 ^ t + Wrap(s, a * 2 ^ (Bits[s] - t))
  IN  IF t = 0 THEN Outcome(a, f)
      ELSE Outcome(r, [f EXCEPT
             !.carry = Bit(r, Top(s)),
             !.overflow = ByOne(t, Bit(r, Top(s)) # Bit(r, Top(s) - 1), f)])

(* Mutant: the bit behind the operand does not make the round of           *)
(* Bits + 1 places.                                                        *)
Rcl_Short(s, a, k, f) ==
  LET t    == Turns(s, k)
      base == 2 * a + Number(f.carry)
      wide == base * 2 ^ t + base \div 2 ^ (Bits[s] - t)
      r    == Wrap(s, wide \div 2)
  IN  IF t = 0 THEN Outcome(a, f)
      ELSE Outcome(r, [f EXCEPT !.carry = Bit(wide, Bits[s] + 1)])

(* The carry stands behind the operand.  The overflow is judged before the *)
(* result is back in place, except in 32-bit code.                         *)
Rcl(s, a, k, f) ==
  LET t     == Turns(s, k)
      base  == 2 * a + Number(f.carry)
      wide  == base * 2 ^ t + base \div 2 ^ (Bits[s] + 1 - t)
      r     == Wrap(s, wide \div 2)
      carry == Bit(wide, Bits[s] + 1)
      sign  == Bit(IF s = "dword" THEN r ELSE wide, Top(s))
  IN  IF t = 0 THEN Outcome(a, f)
      ELSE Outcome(r, [f EXCEPT !.carry = carry,
                                !.overflow = ByOne(t, sign # carry, f)])

(* Here it stands in front of it.                                          *)
Rcr(s, a, k, f) ==
  LET t    == Turns(s, k)
      base == a + N(s) * Number(f.carry)
      wide == base \div 2 ^ t + base * 2 ^ (Bits[s] + 1 - t)
      r    == Wrap(s, wide)
  IN  IF t = 0 THEN Outcome(a, f)
      ELSE Outcome(r, [f EXCEPT
             !.carry = Bit(wide, Bits[s]),
             !.overflow = ByOne(t, Bit(r, Top(s)) # Bit(r, Top(s) - 1), f)])

-----------------------------------------------------------------------------
(* Multiplication and division.  The double of a size is a pair of values, *)
(* high and low: ah and al, dx and ax, edx and eax.                        *)

High(s, x) == (x \div N(s)) % N(s)

Product(s, x, f) ==
  [high |-> High(s, x), low |-> x % N(s),
   flags |-> [f EXCEPT !.carry = High(s, x) > 0,
                       !.overflow = High(s, x) > 0]]

Mul(s, a, b, f) == Product(s, a * b, f)

(* Mutant: the other operand is not taken as signed.                       *)
Imul_Mixed(s, a, b, f) == Product(s, Signed(s, a) * b, f)

(* 8-bit code extends al without its sign.                                 *)
Imul(s, a, b, f) ==
  Product(s, (IF s = "byte" THEN a ELSE Signed(s, a)) * Signed(s, b), f)

(* Division in Rust rounds towards zero.                                   *)
Magnitude(x) == IF x < 0 THEN -x ELSE x
Quotient(x, y) ==
  LET q == Magnitude(x) \div Magnitude(y)
  IN  IF (x < 0) # (y < 0) THEN -q ELSE q
Remainder(x, y) == x - y * Quotient(x, y)

Divided(s, x, y) ==
  IF y = 0 THEN [result |-> "DivideByZero"]
  ELSE IF Quotient(x, y) > N(s) - 1 THEN [result |-> "DivideByZero"]
  ELSE [result |-> "Ok", quotient |-> Wrap(s, Quotient(x, y)),
        remainder |-> Wrap(s, Remainder(x, y))]

Div(s, high, low, b) == Divided(s, high * N(s) + low, b)

(* The divisor is zero-extended, and 32-bit code extends the sign of the   *)
(* low half over the high one; there the smallest dividend by -1 panics.   *)
Idiv(s, high, low, b) ==
  LET x == IF s = "dword" /\ low >= N(s) \div 2 THEN low - N(s)
           ELSE Signed(s, high) * N(s) + low
      y == IF s = "dword" THEN Signed(s, b) ELSE b
  IN  IF y = -1 /\ x = -((N(s) * N(s)) \div 2) THEN [result |-> "Panic"]
      ELSE Divided(s, x, y)

-----------------------------------------------------------------------------
(* Decimal arithmetic, on the bytes ah and al                              *)

Digit(x) == x % 16
Irregular(al, f) == Digit(al) > 9 \/ f.adjust

Adjusted(is, f) == [f EXCEPT !.adjust = is, !.carry = is]

Aaa(ah, al, f) ==
  LET i == Irregular(al, f)
  IN  [high |-> IF i THEN Wrap("byte", ah + 1) ELSE ah,
       low |-> IF i THEN Digit(al + 6) ELSE Digit(al),
       flags |-> Adjusted(i, f)]

Aas(ah, al, f) ==
  LET i == Irregular(al, f)
  IN  [high |-> IF i THEN Wrap("byte", ah - 1) ELSE ah,
       low |-> IF i THEN Digit(al - 6) ELSE Digit(al),
       flags |-> Adjusted(i, f)]

(* Mutant: the carry of the addition is not looked at.                     *)
Daa_NoCarry(al, f) ==
  LET one == IF Irregular(al, f) THEN Wrap("byte", al + 6) ELSE al
      ten == al > 153
      r   == IF ten THEN Wrap("byte", one + 96) ELSE one
  IN  Outcome(r, [Judged("byte", r, f) EXCEPT
        !.adjust = Irregular(al, f), !.carry = ten])

Daa(al, f) ==
  LET one == IF Irregular(al, f) THEN Wrap("byte", al + 6) ELSE al
      ten == al > 153 \/ f.carry
      r   == IF ten THEN Wrap("byte", one + 96) ELSE one
  IN  Outcome(r, [Judged("byte", r, f) EXCEPT
        !.adjust = Irregular(al, f), !.carry = ten])

(* das does not clear the carry that its first step has set.               *)
Das(al, f) ==
  LET low == Irregular(al, f)
      one == IF low THEN Wrap("byte", al - 6) ELSE al
      ten == al > 153 \/ f.carry
      r   == IF ten THEN Wrap("byte", one - 96) ELSE one
  IN  Outcome(r, [Judged("byte", r, f) EXCEPT
        !.adjust = low, !.carry = ten \/ (low /\ al < 6)])

Aam(al, b, f) ==
  IF b = 0 THEN [result |-> "DivideByZero"]
  ELSE [result |-> "Ok", high |-> al \div b, low |-> al % b,
        flags |-> Judged("byte", al % b, f)]

Aad(ah, al, b, f) ==
  LET r == Wrap("byte", ah * b + al)
  IN  [high |-> 0, low |-> r, flags |-> Judged("byte", r, f)]

-----------------------------------------------------------------------------
(* Conditions: an odd code negates the even one before it.                 *)

Conditions(f) ==
  <<f.overflow, f.carry, f.zero, f.carry \/ f.zero, f.sign, f.parity,
    f.sign # f.overflow, (f.sign # f.overflow) \/ f.zero>>

Matches(cc, f) == Conditions(f)[cc \div 2 + 1] # (cc % 2 = 1)

=============================================================================
