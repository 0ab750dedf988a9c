------------------------------ MODULE Arithmetic ----------------------------
(***************************************************************************)
(* A machine that executes short programs of integer opcodes: what they do *)
(* one after another, with the flags as the only link between them.  The   *)
(* operands are registers and immediates; acc and ext are al and ah, ax    *)
(* and dx or eax and edx, the others have no special use.                  *)
(***************************************************************************)
EXTENDS Alu, Sequences

CONSTANT
  Programs  \* the programs: name, size, code, the registers and the carry
            \* flags that they may start with, and whether the machine is
            \* built with overflow checks

VARIABLES
  regs,    \* the registers, all of the program's size
  flags,   \* the flags
  todo,    \* the instructions still to be executed
  result,  \* "Ok", "DivideByZero" or "Panic"
  given    \* the build, and history: the program, and registers and carry
           \* at its start

vars == <<regs, flags, todo, result, given>>

Regs == {"acc", "ext", "b", "c", "count"}
s == given.size

-----------------------------------------------------------------------------
(* Programs                                                                *)

Reg(op, dst, src) == [op |-> op, dst |-> dst, kind |-> "reg", src |-> src]
Imm(op, dst, x) == [op |-> op, dst |-> dst, kind |-> "imm", imm |-> x]
Cond(op, cc, dst, src) ==
  [op |-> op, cc |-> cc, dst |-> dst, kind |-> "reg", src |-> src]

ShiftOps  == {"shl", "shr", "sar"}
Adjusting == {"aaa", "aas", "aad", "aam", "daa", "das"}
Binary    == ShiftOps \union Adjusting \union
             {"add", "adc", "sub", "sbb", "cmp", "inc", "dec", "neg", "and",
              "or", "xor", "not", "test", "rol", "ror", "rcl", "rcr", "mul",
              "imul", "imul2", "div", "idiv"}

Instructions ==
  [op : Binary \union {"xadd", "cmpxchg"}, dst : Regs, kind : {"reg"}, src : Regs]
    \union [op : Binary, dst : Regs, kind : {"imm"}, imm : Nat]
    \union [op : {"setcc", "cmovcc"}, cc : 0 .. 15, dst : Regs, kind : {"reg"},
            src : Regs]

(* The conditions that relate two numbers.                                 *)
Relations == {2, 3, 4, 5, 6, 7, 12, 13, 14, 15}

SumCode        == <<Reg("add", "acc", "b"), Imm("inc", "count", 0),
                    Reg("adc", "ext", "c")>>
DifferenceCode == <<Reg("sub", "acc", "b"), Imm("dec", "count", 0),
                    Reg("sbb", "ext", "c")>>
NegationCode   == <<Reg("neg", "acc", "b"), Imm("adc", "ext", 0),
                    Reg("neg", "ext", "b")>>
DoublingCode   == <<Reg("add", "acc", "acc"), Reg("adc", "ext", "ext")>>

LeftCode        == <<Imm("shl", "acc", 1), Imm("rcl", "ext", 1)>>
RightCode       == <<Imm("shr", "ext", 1), Imm("rcr", "acc", 1)>>
SignedRightCode == <<Imm("sar", "ext", 1), Imm("rcr", "acc", 1)>>
Single(op, k)   == <<Imm(op, "acc", k)>>
BackCode(k)     == <<Imm("rol", "acc", k), Imm("ror", "acc", k)>>

CompareCode(cc) == <<Reg("cmp", "acc", "b"), Cond("setcc", cc, "c", "b")>>
ChooseCode(cc)  == <<Reg("cmp", "acc", "b"), Cond("cmovcc", cc, "acc", "b")>>
ZeroCode        == <<Reg("test", "acc", "acc"), Cond("setcc", 4, "c", "b")>>

DivisionCode  == <<Reg("div", "acc", "b")>>
MulAndDivCode == <<Reg("mul", "acc", "b"), Reg("div", "acc", "b")>>
SignedCode(op) == <<Reg(op, "acc", "b")>>

XorSwapCode  == <<Reg("xor", "acc", "b"), Reg("xor", "b", "acc"),
                  Reg("xor", "acc", "b")>>
XaddSwapCode == <<Reg("xadd", "acc", "b"), Reg("sub", "acc", "b")>>
RetryCode    == <<Reg("cmpxchg", "b", "c"), Reg("cmpxchg", "b", "c")>>
DeMorganCode == <<Reg("not", "acc", "b"), Reg("not", "b", "b"),
                  Reg("and", "acc", "b"), Reg("not", "acc", "b"),
                  Reg("or", "ext", "c")>>

AdjustedCode(op, adjust, x) == <<Reg(op, "acc", "b"), Imm(adjust, "acc", x)>>
AadCode == <<Imm("aad", "acc", 10), Reg("div", "acc", "b")>>

(* What the names of programs stand for.  The forms of cmovcc and imul with*)
(* two operands do not exist for bytes.                                    *)
Listed(name, size, code) ==
  /\ name = "sum"          => code = SumCode
  /\ name = "difference"   => code = DifferenceCode
  /\ name = "negation"     => code = NegationCode
  /\ name = "doubling"     => code = DoublingCode
  /\ name = "left"         => code = LeftCode
  /\ name = "right"        => code = RightCode
  /\ name = "signed_right" => code = SignedRightCode
  /\ name = "count" => \E op \in ShiftOps : code = Single(op, code[1].imm)
  /\ name \in {"rcl", "rcr", "rol"} => \E k \in 0 .. Top(size) : code = Single(name, k)
  /\ name = "back" => \E k \in 0 .. Top(size) : code = BackCode(k)
  /\ name = "whole_turn" => \E op \in {"rcl", "rcr"} : code = Single(op, Bits[size])
  /\ name = "compare"  => \E cc \in Relations : code = CompareCode(cc)
  /\ name = "choose"   => \E cc \in Relations : code = ChooseCode(cc)
  /\ name = "zero"     => code = ZeroCode
  /\ name = "division" => code = DivisionCode
  /\ name = "mul_and_div" => code = MulAndDivCode
  /\ name \in {"imul", "imul2", "idiv"} => code = SignedCode(name)
  /\ name = "imul2"    => size # "byte"
  /\ name = "choose"   => size # "byte"
  /\ name = "swap"     => code \in {XorSwapCode, XaddSwapCode}
  /\ name = "retry"    => code = RetryCode
  /\ name = "de_morgan" => code = DeMorganCode
  /\ name \in {"daa", "aaa"} => code = AdjustedCode("add", name, 10)
  /\ name \in {"das", "aas"} => code = AdjustedCode("sub", name, 10)
  /\ name = "aam" => \E x \in {0, 10} : code = AdjustedCode("mul", name, x)
  /\ name = "aad" => code = AadCode

PackedBytes == {16 * x + y : x, y \in 0 .. 9}

(* What they start with: de_morgan works on copies, and what is decimal on *)
(* packed bytes or digits.                                                 *)
Prepared(name, m) ==
  /\ name = "de_morgan" => m["ext"] = m["acc"] /\ m["c"] = m["b"]
  /\ name \in {"daa", "das"} => m["acc"] \in PackedBytes /\ m["b"] \in PackedBytes
  /\ name \in {"aaa", "aas", "aam", "aad"} =>
       \A r \in {"ext", "acc", "b"} : m[r] \in 0 .. 9

(* Decimal adjustment is of real bytes.                                    *)
ASSUME ProgramAssumption == \A p \in Programs :
  /\ p.size \in Sizes
  /\ p.code \in Seq(Instructions)
  /\ Listed(p.name, p.size, p.code)
  /\ p.inputs \subseteq [Regs -> Values(p.size)]
  /\ p.carries \subseteq BOOLEAN /\ p.builds \subseteq BOOLEAN
  /\ (\E i \in DOMAIN p.code : p.code[i].op \in Adjusting) =>
        p.size = "byte" /\ Bits["byte"] = 8 /\ Nibble = 4
  /\ \A m \in p.inputs : Prepared(p.name, m)

-----------------------------------------------------------------------------
(* The machine                                                             *)

Instruction == Head(todo)
Source(m) == IF Instruction.kind = "reg" THEN m[Instruction.src]
             ELSE Instruction.imm
Destination == regs[Instruction.dst]

Fetched(op) ==
  /\ result = "Ok" /\ todo # <<>> /\ Instruction.op = op
  /\ todo' = Tail(todo)
  /\ UNCHANGED given

Writes(o) ==
  /\ regs' = [regs EXCEPT ![Instruction.dst] = o.value]
  /\ flags' = o.flags
  /\ UNCHANGED result

Tests(o) == flags' = o.flags /\ UNCHANGED <<regs, result>>

WritesPair(high, low, f) ==
  /\ regs' = [regs EXCEPT !["ext"] = high, !["acc"] = low]
  /\ flags' = f
  /\ UNCHANGED result

Fails(error) == result' = error /\ UNCHANGED <<regs, flags>>

-----------------------------------------------------------------------------

ExecAdd == Fetched("add") /\ Writes(Add(s, Destination, Source(regs), flags))
ExecSub == Fetched("sub") /\ Writes(Sub(s, Destination, Source(regs), flags))
ExecCmp == Fetched("cmp") /\ Tests(Sub(s, Destination, Source(regs), flags))
ExecInc == Fetched("inc") /\ Writes(Inc(s, Destination, flags))
ExecDec == Fetched("dec") /\ Writes(Dec(s, Destination, flags))
ExecNeg == Fetched("neg") /\ Writes(Neg(s, Destination, flags))

(* The carry goes to the destination, and an addition follows that reads   *)
(* its operands anew.                                                      *)
Carried(x) == [regs EXCEPT ![Instruction.dst] = Wrap(s, @ + x)]

ExecAdc ==
  LET m == Carried(Number(flags.carry))
  IN  Fetched("adc") /\ Writes(Add(s, m[Instruction.dst], Source(m), flags))

ExecSbb ==
  LET m == Carried(-Number(flags.carry))
  IN  Fetched("sbb") /\ Writes(Sub(s, m[Instruction.dst], Source(m), flags))

ExecAnd == Fetched("and") /\ Writes(And(s, Destination, Source(regs), flags))
ExecOr  == Fetched("or")  /\ Writes(Or(s, Destination, Source(regs), flags))
ExecXor == Fetched("xor") /\ Writes(Xor(s, Destination, Source(regs), flags))
ExecNot == Fetched("not") /\ Writes(Not(s, Destination, flags))

(* The native word sizes of test are those of and.                         *)
ExecTest ==
  LET o == And(s, Destination, Source(regs), flags)
  IN  Fetched("test") /\ (IF s = "byte" THEN Tests(o) ELSE Writes(o))

(* What a panic leaves behind is not modelled.                             *)
Shifts(overflows, o) ==
  IF given.checked /\ overflows THEN Fails("Panic") ELSE Writes(o)

ExecShl ==
  LET k == Source(regs)
  IN  Fetched("shl") /\ Shifts(ShlOverflows(s, k), Shl(s, Destination, k, flags))
ExecShr ==
  LET k == Source(regs)
  IN  Fetched("shr") /\ Shifts(ShrOverflows(s, k), Shr(s, Destination, k, flags))
ExecSar ==
  LET k == Source(regs)
  IN  Fetched("sar") /\ Shifts(SarOverflows(s, k), Sar(s, Destination, k, flags))

ExecRol == Fetched("rol") /\ Writes(Rol(s, Destination, Source(regs), flags))
ExecRor == Fetched("ror") /\ Writes(Ror(s, Destination, Source(regs), flags))
ExecRcl == Fetched("rcl") /\ Writes(Rcl(s, Destination, Source(regs), flags))
ExecRcr == Fetched("rcr") /\ Writes(Rcr(s, Destination, Source(regs), flags))

-----------------------------------------------------------------------------

ExecXadd ==
  LET m == [regs EXCEPT ![Instruction.dst] = regs[Instruction.src],
                        ![Instruction.src] = regs[Instruction.dst]]
      o == Add(s, m[Instruction.dst], m[Instruction.src], flags)
  IN  /\ Fetched("xadd")
      /\ regs' = [m EXCEPT ![Instruction.dst] = o.value]
      /\ flags' = o.flags
      /\ UNCHANGED result

(* Mutant: a failed comparison does not load the accumulator.              *)
ExecCmpxchg_NoLoad ==
  LET f == Sub(s, regs["acc"], Destination, flags).flags
  IN  /\ Fetched("cmpxchg")
      /\ regs' = IF f.zero
                 THEN [regs EXCEPT ![Instruction.dst] = regs[Instruction.src]]
                 ELSE regs
      /\ flags' = f
      /\ UNCHANGED result

ExecCmpxchg ==
  LET f == Sub(s, regs["acc"], Destination, flags).flags
  IN  /\ Fetched("cmpxchg")
      /\ regs' = IF f.zero
                 THEN [regs EXCEPT ![Instruction.dst] = regs[Instruction.src]]
                 ELSE [regs EXCEPT !["acc"] = Destination]
      /\ flags' = f
      /\ UNCHANGED result

(* Only the low byte of the destination is written.                        *)
ExecSetcc ==
  LET rest == Destination - Wrap("byte", Destination)
  IN  /\ Fetched("setcc")
      /\ Writes(Outcome(rest + Number(Matches(Instruction.cc, flags)), flags))

ExecCmovcc ==
  /\ Fetched("cmovcc")
  /\ IF Matches(Instruction.cc, flags)
     THEN Writes(Outcome(Source(regs), flags))
     ELSE UNCHANGED <<regs, flags, result>>

ExecMul ==
  LET p == Mul(s, regs["acc"], Source(regs), flags)
  IN  Fetched("mul") /\ WritesPair(p.high, p.low, p.flags)

ExecImul ==
  LET p == Imul(s, regs["acc"], Source(regs), flags)
  IN  Fetched("imul") /\ WritesPair(p.high, p.low, p.flags)

(* imul with two operands; with three they are two others.                 *)
ExecImul2 ==
  LET p == Imul(s, Destination, Source(regs), flags)
  IN  Fetched("imul2") /\ Writes(Outcome(p.low, p.flags))

Divides(d) ==
  \/ d.result # "Ok" /\ Fails(d.result)
  \/ d.result = "Ok" /\ WritesPair(d.remainder, d.quotient, flags)

ExecDiv ==
  Fetched("div") /\ Divides(Div(s, regs["ext"], regs["acc"], Source(regs)))
ExecIdiv ==
  Fetched("idiv") /\ Divides(Idiv(s, regs["ext"], regs["acc"], Source(regs)))

ExecAaa == LET p == Aaa(regs["ext"], regs["acc"], flags)
           IN  Fetched("aaa") /\ WritesPair(p.high, p.low, p.flags)
ExecAas == LET p == Aas(regs["ext"], regs["acc"], flags)
           IN  Fetched("aas") /\ WritesPair(p.high, p.low, p.flags)
ExecAad == LET p == Aad(regs["ext"], regs["acc"], Source(regs), flags)
           IN  Fetched("aad") /\ WritesPair(p.high, p.low, p.flags)
ExecAam == LET p == Aam(regs["acc"], Source(regs), flags)
           IN  /\ Fetched("aam")
               /\ \/ p.result # "Ok" /\ Fails(p.result)
                  \/ p.result = "Ok" /\ WritesPair(p.high, p.low, p.flags)
ExecDaa == LET o == Daa(regs["acc"], flags)
           IN  Fetched("daa") /\ WritesPair(regs["ext"], o.value, o.flags)
ExecDas == LET o == Das(regs["acc"], flags)
           IN  Fetched("das") /\ WritesPair(regs["ext"], o.value, o.flags)

-----------------------------------------------------------------------------

Next ==
  \/ ExecAdd \/ ExecAdc \/ ExecSub \/ ExecSbb \/ ExecCmp \/ ExecInc
  \/ ExecDec \/ ExecNeg \/ ExecAnd \/ ExecOr \/ ExecXor \/ ExecNot
  \/ ExecTest \/ ExecShl \/ ExecShr \/ ExecSar \/ ExecRol \/ ExecRor
  \/ ExecRcl \/ ExecRcr \/ ExecXadd \/ ExecCmpxchg \/ ExecSetcc
  \/ ExecCmovcc \/ ExecMul \/ ExecImul \/ ExecImul2 \/ ExecDiv
  \/ ExecIdiv \/ ExecAaa \/ ExecAas \/ ExecAad \/ ExecAam \/ ExecDaa
  \/ ExecDas

Init ==
  \E p \in Programs : \E m \in p.inputs, carry \in p.carries,
                       checked \in p.builds :
    /\ regs = m
    /\ flags = [x \in {"carry", "parity", "adjust", "zero", "sign", "overflow"}
                  |-> x = "carry" /\ carry]
    /\ todo = p.code
    /\ result = "Ok"
    /\ given = [name |-> p.name, size |-> p.size, code |-> p.code,
                regs |-> m, carry |-> carry, checked |-> checked]

Spec == Init /\ [][Next]_vars

-----------------------------------------------------------------------------
(* Properties.  Each speaks of the end of certain programs.                *)

TypeOK ==
  /\ regs \in [Regs -> Values(s)]
  /\ flags \in FlagSet
  /\ result \in {"Ok", "DivideByZero", "Panic"}
  /\ given.regs \in [Regs -> Values(s)]

Runs(name) == given.name = name /\ todo = <<>>
Ended(name) == Runs(name) /\ result = "Ok"

Square == N(s) * N(s)
Pair(high, low) == high * N(s) + low
SignedPair(x) == IF x >= Square \div 2 THEN x - Square ELSE x

First  == Pair(given.regs["ext"], given.regs["acc"])
Second == Pair(given.regs["c"], given.regs["b"])
Final  == Pair(regs["ext"], regs["acc"])

(* adc of a register to itself adds the carry twice.                       *)
SelfAdc ==
  Ended("doubling") =>
    LET low == 2 * given.regs["acc"]
    IN  Final = (2 * First + High(s, low) * N(s)) % Square

(* Sums, differences and negatives of numbers of two words are right: the  *)
(* carry gets from the low words to the high ones, past an inc or a dec.   *)
(* The carry they leave for a third word is that of the long numbers,      *)
(* unless the low words carry into a high one of all ones or borrow from   *)
(* one of zero: then it is lost.                                           *)
LongArithmetic ==
  LET ext   == given.regs["ext"]
      ups   == given.regs["acc"] + given.regs["b"] >= N(s)
      downs == given.regs["acc"] < given.regs["b"]
  IN  /\ Ended("sum") =>
           /\ Final = (First + Second) % Square
           /\ flags.carry <=> /\ First + Second >= Square
                              /\ ~ (ups /\ ext = N(s) - 1)
      /\ Ended("difference") =>
           /\ Final = (First - Second) % Square
           /\ flags.carry <=> First < Second /\ ~ (downs /\ ext = 0)
      /\ Ended("negation") => Final = (-First) % Square
      /\ SelfAdc

(* A shift and a rotation through the carry shift a number of two words,   *)
(* to the left in 16-bit code only if the carry happens to be right.       *)
CarryRight ==
  LET a == given.regs["acc"]
  IN  s = "word" => Bit(a, Top(s)) = Bit(a, Top(s) - Nibble)

LongShift ==
  /\ Ended("left") =>
       /\ CarryRight <=> (Final = (2 * First) % Square)
       /\ flags.carry = (2 * First >= Square)
  /\ Ended("right") =>
       Final = (First \div 2) /\ flags.carry = (First % 2 = 1)
  /\ Ended("signed_right") =>
       /\ SignedPair(Final) = (SignedPair(First) \div 2)
       /\ flags.carry = (First % 2 = 1)

(* What a shift by k is, and the last bit that it moves out.               *)
Shifted(op, a, k) ==
  CASE op = "shl" -> Wrap(s, a * 2 ^ k)
    [] op = "shr" -> a \div 2 ^ k
    [] op = "sar" -> Wrap(s, Signed(s, a) \div 2 ^ k)
MovedOut(op, a, k) ==
  CASE op = "shl" -> Bit(a * 2 ^ k, Bits[s])
    [] op = "shr" -> ((2 * a) \div 2 ^ k) % 2 = 1
    [] op = "sar" -> ((2 * Signed(s, a)) \div 2 ^ k) % 2 = 1

(* Counts below which the value comes out right in every build.            *)
Room(op) == IF op = "sar" \/ (op = "shr" /\ s = "byte") THEN Bits[s]
            ELSE 2 * Bits[s]

(* A shift by any count, zero and the width and more included, that a      *)
(* build with overflow checks does not stop at gives the value and the     *)
(* carry that it should (but for the carry of a 16-bit shl); it never      *)
(* stops for a count of 1 to one less than the width.  A build without the *)
(* checks never stops, and is right as long as there is room.              *)
ShiftCounts ==
  LET op == given.code[1].op
      a  == given.regs["acc"]
      k  == IF op = "sar" THEN Reduced(given.code[1].imm) ELSE given.code[1].imm
  IN  Runs("count") =>
        /\ result = "Panic" => given.checked /\ k \notin 1 .. Top(s)
        /\ (result = "Ok" /\ (given.checked \/ k < Room(op))) =>
              regs["acc"] = Shifted(op, a, k)
        /\ (/\ result = "Ok" /\ k > 0 /\ ~ (op = "shl" /\ s = "word")
            /\ given.checked \/ k <= Bits[s]) =>
              flags.carry = MovedOut(op, a, k)

(* A register and the carry in front of it, and a turn of those bits.      *)
Ring(x, carry) == N(s) * Number(carry) + x
Turned(x, k, size) == ((x * 2 ^ k) % size) + ((x * 2 ^ k) \div size)

(* rcl and rcr turn the register and the carry as one ring, by any count   *)
(* below the width, and with the width for a count they do nothing; ror    *)
(* undoes rol.                                                             *)
Rotation ==
  LET before == Ring(given.regs["acc"], given.carry)
      after  == Ring(regs["acc"], flags.carry)
      k      == given.code[1].imm
  IN  /\ Ended("rcl") => after = Turned(before, k, 2 * N(s))
      /\ Ended("rcr") => Turned(after, k, 2 * N(s)) = before
      /\ Ended("whole_turn") => after = before
      /\ Ended("rol") => regs["acc"] = Turned(given.regs["acc"], k, N(s))
      /\ Ended("back") => regs = given.regs

(* What leaves a word by way of the carry enters the next, or the same one *)
(* at its other end.                                                       *)
ThroughCarry == LongShift /\ Rotation

(* The relation that the even condition code cc stands for.                *)
Related(cc) ==
  LET a == given.regs["acc"]
      b == given.regs["b"]
  IN  CASE cc = 2  -> a < b
        [] cc = 4  -> a = b
        [] cc = 6  -> a <= b
        [] cc = 12 -> Signed(s, a) < Signed(s, b)
        [] cc = 14 -> Signed(s, a) <= Signed(s, b)

(* The low byte of c tells b, and the rest of c is what it was.            *)
Tells(b) ==
  /\ Wrap("byte", regs["c"]) = Number(b)
  /\ regs["c"] \div N("byte") = given.regs["c"] \div N("byte")

(* After cmp every condition tells how the operands are related, as signed *)
(* and as unsigned numbers; test of a register with itself tells zero.     *)
Comparison ==
  LET i == given.code[2]
      is == Related(i.cc - (i.cc % 2)) # (i.cc % 2 = 1)
  IN  /\ Ended("compare") => Tells(is)
      /\ Ended("choose") =>
           regs["acc"] = given.regs[IF is THEN "b" ELSE "acc"]
      /\ Ended("zero") => Tells(given.regs["acc"] = 0)

(* div gives quotient and remainder, and fails exactly where no quotient   *)
(* fits; it takes back a multiplication.                                   *)
Division ==
  LET b == given.regs["b"]
  IN  /\ Runs("division") =>
           /\ (result = "Ok") <=> (b # 0 /\ First < N(s) * b)
           /\ result = "Ok" => /\ regs["acc"] * b + regs["ext"] = First
                               /\ regs["ext"] < b
      /\ Ended("mul_and_div") =>
           /\ regs["acc"] = given.regs["acc"] /\ regs["ext"] = 0
           /\ flags.carry = (given.regs["acc"] * b >= N(s))
      /\ Runs("mul_and_div") => ((result = "Ok") <=> (b # 0))

(* Where idiv extends its operands as it should: 8- and 16-bit code takes  *)
(* the divisor to be positive, 32-bit code may lose the upper half.        *)
Extends ==
  IF s = "dword"
  THEN given.regs["acc"] < N(s) \div 2 \/ given.regs["ext"] = N(s) - 1
  ELSE given.regs["b"] < N(s) \div 2

(* The signed opcodes give the signed product, except for a negative al,   *)
(* and a signed quotient that fits; the smallest dividend by -1 is the one *)
(* that stops the machine.                                                 *)
SignedArithmetic ==
  LET a == Signed(s, given.regs["acc"])
      b == Signed(s, given.regs["b"])
      x == SignedPair(First)
  IN  /\ Ended("imul") => SignedPair(Final) =
           (IF s = "byte" THEN given.regs["acc"] ELSE a) * b
      /\ Ended("imul2") => regs["acc"] = Wrap(s, a * b)
      /\ (/\ Runs("idiv") /\ Extends
          /\ b # 0 /\ Quotient(x, b) \in SignedValues(s)) =>
            /\ result = "Ok"
            /\ Signed(s, regs["acc"]) * b + Signed(s, regs["ext"]) = x
            /\ Magnitude(Signed(s, regs["ext"])) < Magnitude(b)
      /\ Runs("idiv") =>
           ((result = "Panic") <=> (s = "dword" /\ x = -(Square \div 2) /\ b = -1))

(* imul sets carry and overflow if the product does not fit one word, and  *)
(* then also if it is negative.                                            *)
ProductFits ==
  Ended("imul") => flags.carry = (SignedPair(Final) \notin 0 .. N(s) - 1)

(* Products and quotients are right, unsigned and signed, and where they   *)
(* are not this says how; flags and failures tell what does not fit.       *)
ProductsAndQuotients == Division /\ SignedArithmetic /\ ProductFits

(* Two registers are exchanged by way of xor and by way of xadd; what a    *)
(* failed cmpxchg has read lets the next one succeed; and, or and not      *)
(* agree.                                                                  *)
Exchange ==
  /\ Ended("swap") =>
       regs["acc"] = given.regs["b"] /\ regs["b"] = given.regs["acc"]
  /\ Ended("retry") => regs["b"] = given.regs["c"]
  /\ Ended("de_morgan") => regs["acc"] = regs["ext"]

Packed(x) == 10 * (x \div 16) + (x % 16)

(* Arithmetic with an adjustment is decimal, on packed digits and on       *)
(* single ones, its carry included.                                        *)
DecimalArithmetic ==
  LET a == Packed(given.regs["acc"])
      b == Packed(given.regs["b"])
      digits == 10 * given.regs["ext"] + given.regs["acc"]
  IN  /\ Ended("daa") => /\ Packed(regs["acc"]) = (a + b) % 100
                         /\ flags.carry = (a + b >= 100)
      /\ Ended("das") => /\ Packed(regs["acc"]) = (a - b) % 100
                         /\ flags.carry = (a < b)
      /\ Ended("aaa") => 10 * regs["ext"] + regs["acc"] = digits + b
      /\ Ended("aas") /\ digits >= b =>
                           10 * regs["ext"] + regs["acc"] = digits - b
      /\ Ended("aam") => 10 * regs["ext"] + regs["acc"] = a * b
      /\ Ended("aad") => regs["acc"] * b + regs["ext"] = digits
      /\ Runs("aam") => ((result = "Ok") <=> (given.code[2].imm # 0))

=============================================================================
