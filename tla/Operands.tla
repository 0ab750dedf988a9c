------------------------------ MODULE Operands ------------------------------
(***************************************************************************)
(* The operands of an instruction: SizedValue and its conversions,         *)
(* get_arg, set_arg and get_arg_lea with the registers and the memory      *)
(* behind them, and the logic functions that do little else than move      *)
(* values between operands or look at their bits.  A byte has ByteBits     *)
(* bits; registers are numbers that masks and shifts take apart, memory is *)
(* bytes.                                                                  *)
(***************************************************************************)
EXTENDS Integers, Sequences, FiniteSetsExt

CONSTANTS
  ByteBits,         \* width of a byte
  WriteableMemory,  \* addresses from here on are writeable
  Sections,         \* the mapped sections, sets of addresses
  FlagBits,         \* the flags, and the bits that they are stored in
  Instrs,           \* instructions: function, operand size and arguments
  Starts,           \* states a program may be in when it starts
  MaxSteps          \* bound on its length

VARIABLES
  regs,    \* registers 0 to 7
  mem,     \* the bytes of the mapped sections
  flags,   \* the flags of FlagBits
  result,  \* "Ok" or the error that was returned
  instr,   \* history: the instruction executed last
  steps    \* history: number of instructions executed

vars == <<regs, mem, flags, result, instr, steps>>

Absent == -1  \* no register in an address

EAX == 0
ECX == 1
EDX == 2
EBX == 3
AH  == 4   \* al is 0, as eax

Base   == 2 ^ ByteBits
Bytes(n) == Base ^ n
Mapped == UNION Sections
Flags  == DOMAIN FlagBits

ASSUME OperandsAssumption ==
  /\ ByteBits \in Nat \ {0, 1}
  /\ WriteableMemory \in 0 .. Bytes(4)
  /\ Sections \subseteq SUBSET (0 .. Bytes(4) - 1)
  /\ FlagBits \in [Flags -> Nat \ {1}] /\ IsFiniteSet(Flags)
  /\ {"carry", "zero"} \subseteq Flags
  /\ MaxSteps \in Nat

(* What ^ is at the bits of a number, its bytes and its flags, for the     *)
(* proofs.                                                                 *)
ASSUME PowerAssumption ==
  /\ 2 ^ 0 = 1 /\ \A k \in 0 .. 8 * ByteBits : 2 ^ (k + 1) = 2 * 2 ^ k
  /\ \A w \in 0 .. 8 : Bytes(w) = 2 ^ (ByteBits * w) /\ Bytes(w + 1) = Base * Bytes(w)
  /\ \A x \in Flags : \A k \in 0 .. FlagBits[x] : 2 ^ (k + 1) = 2 * 2 ^ k

(* A word that is sign-extended to a double word counts the same modulo    *)
(* its bits: a multiple of 16 is added, where a byte has 8 bits.           *)
ASSUME IndexAssumption == (Bytes(4) - Bytes(2)) % (2 * ByteBits) = 0

-----------------------------------------------------------------------------
(* Sized values: a size and a number, or what an accessor returned instead *)

Width(s) == CASE s = "None" -> 0 [] s = "Byte" -> 1 [] s = "Word" -> 2
              [] s = "Dword" -> 4 [] s = "Qword" -> 8

Sized(s, n) == [size |-> s, n |-> n]
Error(e)    == [size |-> "Error", error |-> e]
Failed(v)   == v.size = "Error"

Bit(n, k) == (n \div 2 ^ k) % 2 = 1
Mask(s)   == Bytes(Width(s)) - 1
Negative(s, n) == Bit(n, ByteBits * Width(s) - 1)

(* uN_exact                                                                *)
Exact(v, s) ==
  IF Failed(v) \/ v.size = s THEN v ELSE Error("WrongSizeExpectation")

(* uN_zx and, with a fill of ones for negative values, uN_sx, for words    *)
(* and double words.                                                       *)
Fitting(v, s, n) ==
  IF Failed(v) THEN v
  ELSE IF Width(v.size) > Width(s) THEN Error("TooBigSizeExpectation")
  ELSE Sized(s, n)

ZX(v, s) == Fitting(v, s, v.n)

SX(v, s) ==
  Fitting(v, s, IF v.size # "None" /\ Negative(v.size, v.n)
                THEN v.n + Mask(s) - Mask(v.size) ELSE v.n)

(* convert_size_zx and convert_size_trunc                                  *)
ConvertZX(v, s) ==
  CASE s = "Byte"  -> Exact(v, s)
    [] s = "None"  -> Error("WrongSizeExpectation")
    [] s = "Qword" -> Error("TooBigSizeExpectation")
    [] OTHER       -> ZX(v, s)

(* Mutant: nothing is cut off.                                             *)
Trunc_Whole(v, s) == IF Failed(v) THEN v ELSE Sized(s, v.n)

Trunc(v, s) == IF Failed(v) THEN v ELSE Sized(s, v.n % Bytes(Width(s)))

-----------------------------------------------------------------------------
(* A machine in the middle of a logic function, and its accessors          *)

Now == [regs |-> regs, mem |-> mem, flags |-> flags, result |-> "Ok"]

Failing(m, e) == [m EXCEPT !.result = e]

(* n with w bytes from byte k on replaced by those of x.                   *)
Spliced(n, k, w, x) ==
  n - ((n \div Bytes(k)) % Bytes(w)) * Bytes(k) + x * Bytes(k)

(* Bytes 4 to 7 are the second ones of registers 0 to 3.                   *)
GetReg(m, r, s) ==
  CASE s = "Byte"  -> Sized(s, (IF r < 4 THEN m.regs[r] ELSE m.regs[r - 4] \div Base) % Base)
    [] s = "Word"  -> Sized(s, m.regs[r] % Bytes(2))
    [] s = "Dword" -> Sized(s, m.regs[r])

(* Mutant: a second byte is written to the register of its own number.     *)
SetReg_OwnRegister(m, r, v) ==
  CASE v.size = "Byte" /\ r < 4 -> [m EXCEPT !.regs[r] = Spliced(@, 0, 1, v.n)]
    [] v.size = "Byte" /\ r >= 4 -> [m EXCEPT !.regs[r] = Spliced(@, 1, 1, v.n)]
    [] v.size = "Word"  -> [m EXCEPT !.regs[r] = Spliced(@, 0, 2, v.n)]
    [] v.size = "Dword" -> [m EXCEPT !.regs[r] = v.n]

SetReg(m, r, v) ==
  CASE v.size = "Byte" /\ r < 4 -> [m EXCEPT !.regs[r] = Spliced(@, 0, 1, v.n)]
    [] v.size = "Byte" /\ r >= 4 -> [m EXCEPT !.regs[r - 4] = Spliced(@, 1, 1, v.n)]
    [] v.size = "Word"  -> [m EXCEPT !.regs[r] = Spliced(@, 0, 2, v.n)]
    [] v.size = "Dword" -> [m EXCEPT !.regs[r] = v.n]

Cells(a, w) == a .. a + w - 1
Available(a, w) == \E x \in Sections : Cells(a, w) \subseteq x

GetMem(m, a, s) ==
  LET w == Width(s)
  IN  IF ~Available(a, w) THEN Error("BadMemory")
      ELSE Sized(s, SumSet({ m.mem[c] * Bytes(c - a) : c \in Cells(a, w) }))

SetMem(m, a, v) ==
  LET w == Width(v.size)
  IN  IF a < WriteableMemory THEN Failing(m, "WroteReadOnlyMemory")
      ELSE IF ~Available(a, w) THEN Failing(m, "BadMemory")
      ELSE [m EXCEPT !.mem = [c \in Mapped |->
              IF c \in Cells(a, w) THEN (v.n \div Bytes(c - a)) % Base ELSE @[c]]]

-----------------------------------------------------------------------------
(* Argument locations                                                      *)

Part(m, r) == IF r = Absent THEN 0 ELSE m.regs[r]

(* calculate_modrm_address, and the address of the other two.              *)
AddressOf(m, l) ==
  CASE l.kind = "Address"         -> l.addr
    [] l.kind = "RegisterAddress" -> m.regs[l.reg]
    [] l.kind = "ModRMAddress"    -> (l.offset + Part(m, l.reg)) % Bytes(4)
    [] l.kind = "SIBAddress"      ->
         (Part(m, l.base) + Part(m, l.index) * l.scale + l.offset) % Bytes(4)

Addresses == {"Address", "RegisterAddress", "ModRMAddress", "SIBAddress"}

(* get_arg_lea                                                             *)
Lea(m, l) ==
  IF l.kind \in Addresses THEN Sized("Dword", AddressOf(m, l))
  ELSE Error("InvalidOpcodeEncoding")

(* get_arg                                                                 *)
Get(m, l) ==
  CASE l.kind = "Immediate"     -> Sized(l.size, l.n)
    [] l.kind = "RegisterValue" -> GetReg(m, l.reg, l.size)
    [] OTHER                    -> GetMem(m, AddressOf(m, l), l.size)

(* What set_arg makes of a value for a location.                           *)
Converted(l, v) ==
  IF l.kind \in {"ModRMAddress", "SIBAddress"} THEN Trunc(v, l.size)
  ELSE ConvertZX(v, l.size)

(* set_arg, of a value that an accessor may have failed to give.           *)
Set(m, l, v) ==
  LET x == Converted(l, v)
  IN  IF m.result # "Ok" THEN m
      ELSE IF Failed(v) THEN Failing(m, v.error)
      ELSE IF l.kind = "Immediate" THEN Failing(m, "WroteUnwriteableArgument")
      ELSE IF Failed(x) THEN Failing(m, x.error)
      ELSE IF l.kind = "RegisterValue" THEN SetReg(m, l.reg, x)
      ELSE SetMem(m, AddressOf(m, l), x)

(* The logic function goes on with m unless v is an error.                 *)
Checked(v, m) == IF Failed(v) THEN Failing(Now, v.error) ELSE m

Flagged(m, x, b) == [m EXCEPT !.flags[x] = b]

-----------------------------------------------------------------------------
(* The logic functions                                                     *)

Native(i) == IF i.size_override THEN "Word" ELSE "Dword"
Arg1(i) == i.args[1]
Arg2(i) == i.args[2]

Mov(i) == Set(Now, Arg1(i), Get(Now, Arg2(i)))

MovZX(i, s) == Set(Now, Arg1(i), ZX(Get(Now, Arg2(i)), s))
MovSX(i, s) == Set(Now, Arg1(i), SX(Get(Now, Arg2(i)), s))

LoadAddress(i) == Set(Now, Arg1(i), Trunc(Lea(Now, Arg2(i)), Native(i)))

(* Mutant: the second operand, a register, is written first.              *)
Xchg_RegisterFirst(i) ==
  LET source      == Get(Now, Arg1(i))
      destination == Get(Now, Arg2(i))
  IN  Checked(source, Checked(destination,
        Set(Set(Now, Arg2(i), source), Arg1(i), destination)))

(* The second location is resolved after the first was written.            *)
Xchg(i) ==
  LET source      == Get(Now, Arg1(i))
      destination == Get(Now, Arg2(i))
  IN  Checked(source, Checked(destination,
        Set(Set(Now, Arg1(i), destination), Arg2(i), source)))

Bswap(i) ==
  LET v == Exact(Get(Now, Arg1(i)), "Dword")
      Swapped(n) == SumSet({ ((n \div Bytes(k)) % Base) * Bytes(3 - k) : k \in 0 .. 3 })
  IN  Checked(v, Set(Now, Arg1(i), Sized("Dword", Swapped(v.n))))

(* The four bit tests, of which bt writes nothing.  The index of btr has   *)
(* to be a double word in 32-bit code.                                     *)
BitTest(i) ==
  LET s     == Native(i)
      v     == Exact(Get(Now, Arg1(i)), s)
      given == Get(Now, Arg2(i))
      index == IF i.function = "bit_test_reset" /\ s = "Dword" THEN Exact(given, s)
               ELSE SX(given, s)
      k     == index.n % (ByteBits * Width(s))
      was   == Bit(v.n, k)
      is    == CASE i.function = "bit_test_set" -> TRUE
                 [] i.function = "bit_test_reset" -> FALSE
                 [] i.function = "bit_test_complement" -> ~was
      m     == Flagged(Now, "carry", was)
      bits  == IF is = was THEN v.n ELSE IF is THEN v.n + 2 ^ k ELSE v.n - 2 ^ k
  IN  Checked(v, Checked(index,
        IF i.function = "bit_test" THEN m ELSE Set(m, Arg1(i), Sized(s, bits))))

(* The lowest bit that is set, or the highest.                             *)
BitScan(i) ==
  LET s == Native(i)
      v == Exact(Get(Now, Arg1(i)), s)
      K == { k \in 0 .. ByteBits * Width(s) - 1 : Bit(v.n, k) }
      k == IF i.function = "bit_scan_forward" THEN Min(K) ELSE Max(K)
  IN  Checked(v, IF K = {} THEN Flagged(Now, "zero", TRUE)
                 ELSE Set(Flagged(Now, "zero", FALSE), Arg2(i), Sized(s, k)))

(* A double word is extended by ones if the word is above 0x8000.          *)
CbwCwde(i) ==
  IF i.size_override
  THEN LET al == GetReg(Now, EAX, "Byte").n
       IN  SetReg(Now, AH, Sized("Byte", IF Negative("Byte", al) THEN Mask("Byte") ELSE 0))
  ELSE LET ax == GetReg(Now, EAX, "Word").n
       IN  SetReg(Now, EAX, Sized("Dword", IF ax > Bytes(2) \div 2
                                          THEN Mask("Dword") - Mask("Word") + ax ELSE ax))

CdqCwd(i) ==
  LET s == Native(i)
  IN  SetReg(Now, EDX, Sized(s, IF Negative(s, GetReg(Now, EAX, s).n) THEN Mask(s) ELSE 0))

(* Under a size prefix the address is a word.                              *)
Xlatb(i) ==
  LET s   == Native(i)
      sum == GetReg(Now, EAX, "Byte").n + GetReg(Now, EBX, s).n
      v   == GetMem(Now, sum % Bytes(Width(s)), "Byte")
  IN  Checked(v, SetReg(Now, EAX, v))

(* A condition is a flag and its value here.                               *)
Matches(i) == flags[i.cc.flag] = i.cc.is

Setcc(i)  == Set(Now, Arg1(i), Sized("Byte", IF Matches(i) THEN 1 ELSE 0))
Cmovcc(i) == IF Matches(i) THEN Mov(i) ELSE Now

(* serialize_flag_storage and deserialize_flag_storage, of all the flags.  *)
Serialized == 2 + SumSet({ 2 ^ FlagBits[x] : x \in { x \in Flags : flags[x] } })
Lahf == SetReg(Now, AH, Sized("Byte", Serialized % Base))
Sahf == [Now EXCEPT !.flags =
           [x \in Flags |-> Bit(GetReg(Now, AH, "Byte").n, FlagBits[x])]]

Cmpxchg8b(i) ==
  LET a    == Lea(Now, Arg1(i))
      temp == GetMem(Now, a.n, "Qword")
      Long(high, low) == Sized("Qword", regs[high] * Bytes(4) + regs[low])
  IN  Checked(a, Checked(temp,
        IF Long(EDX, EAX) = temp
        THEN SetMem(Flagged(Now, "zero", TRUE), a.n, Long(ECX, EBX))
        ELSE [Flagged(Now, "zero", FALSE) EXCEPT
                !.regs[EAX] = temp.n % Bytes(4), !.regs[EDX] = temp.n \div Bytes(4)]))

-----------------------------------------------------------------------------

Execute(i, f, m) ==
  /\ i.function = f
  /\ regs' = m.regs
  /\ mem' = m.mem
  /\ flags' = m.flags
  /\ result' = m.result
  /\ instr' = i
  /\ steps' = steps + 1

BitTests == {"bit_test", "bit_test_set", "bit_test_reset", "bit_test_complement"}
BitScans == {"bit_scan_forward", "bit_scan_reverse"}

(* What the opcode table gives the logic functions to work on: arguments   *)
(* of a byte, a word or a double word, one that is no literal to write to, *)
(* and sizes that go together.                                             *)
Registers == 0 .. 7

IsArgument(l) ==
  /\ l.size \in {"Byte", "Word", "Dword"}
  /\ l.kind \in Addresses \union {"Immediate", "RegisterValue"}
  /\ l.kind = "Immediate"       => l.n \in 0 .. Mask(l.size)
  /\ l.kind = "RegisterValue"   => l.reg \in Registers
  /\ l.kind = "Address"         => l.addr \in 0 .. Mask("Dword")
  /\ l.kind = "RegisterAddress" => l.reg \in Registers
  /\ l.kind = "ModRMAddress"    => l.reg \in Registers \union {Absent} /\ l.offset \in Nat
  /\ l.kind = "SIBAddress"      => /\ {l.base, l.index} \subseteq Registers \union {Absent}
                                  /\ l.scale \in Nat /\ l.offset \in Nat

OneOperand == {"bswap", "setcc_8bit", "cmpxchg8b"}
NoOperand  == {"cbw_cwde", "cdq_cwd", "xlatb", "lahf", "sahf", "stc", "clc", "cmc"}

Destination(i) == IF i.function \in BitScans THEN Arg2(i) ELSE Arg1(i)

ASSUME InstrsAssumption ==
  \A i \in Instrs :
    /\ i.size_override \in BOOLEAN
    /\ i.function \notin NoOperand =>
         IsArgument(Arg1(i)) /\ Destination(i).kind # "Immediate"
    /\ i.function \notin NoOperand \union OneOperand => IsArgument(Arg2(i))
    /\ i.function \in {"mov", "cmovcc_native"} => Arg1(i).size = Arg2(i).size
    /\ i.function = "xchg" =>
         Arg2(i).kind = "RegisterValue" /\ Arg2(i).size = Arg1(i).size
    /\ i.function \in {"movzx_8bit", "movsx_8bit"} =>
         Arg1(i).size = Native(i) /\ Arg2(i).size = "Byte"
    /\ i.function \in {"movzx_16bit", "movsx_16bit"} =>
         Arg1(i).size = "Dword" /\ Arg2(i).size = "Word"
    /\ i.function = "lea" => Arg1(i).size = Native(i)
    /\ i.function \in BitTests =>
         /\ Arg1(i).size = Native(i) /\ Arg2(i).size \in {"Byte", Native(i)}
         /\ Arg2(i).size = "Byte" => Arg2(i).kind = "Immediate"
    /\ i.function \in BitScans => Arg1(i).size = Native(i) /\ Arg2(i).size = Native(i)
    /\ i.function = "bswap" => Arg1(i).size = "Dword"
    /\ i.function = "setcc_8bit" => Arg1(i).size = "Byte"

ASSUME StartsAssumption ==
  \A x \in Starts : /\ x.regs \in [Registers -> 0 .. Mask("Dword")]
                   /\ x.mem \in [Mapped -> 0 .. Mask("Byte")]
                   /\ x.flags \in [Flags -> BOOLEAN]

Running == result = "Ok" /\ steps < MaxSteps

Next == Running /\ \E i \in Instrs :
  \/ Execute(i, "mov", Mov(i))
  \/ Execute(i, "xchg", Xchg(i))
  \/ Execute(i, "movzx_8bit", MovZX(i, Native(i)))
  \/ Execute(i, "movzx_16bit", MovZX(i, "Dword"))
  \/ Execute(i, "movsx_8bit", MovSX(i, Native(i)))
  \/ Execute(i, "movsx_16bit", MovSX(i, "Dword"))
  \/ Execute(i, "lea", LoadAddress(i))
  \/ Execute(i, "bswap", Bswap(i))
  \/ \E f \in BitTests : Execute(i, f, BitTest(i))
  \/ \E f \in BitScans : Execute(i, f, BitScan(i))
  \/ Execute(i, "cbw_cwde", CbwCwde(i))
  \/ Execute(i, "cdq_cwd", CdqCwd(i))
  \/ Execute(i, "xlatb", Xlatb(i))
  \/ Execute(i, "setcc_8bit", Setcc(i))
  \/ Execute(i, "cmovcc_native", Cmovcc(i))
  \/ Execute(i, "lahf", Lahf)
  \/ Execute(i, "sahf", Sahf)
  \/ Execute(i, "stc", Flagged(Now, "carry", TRUE))
  \/ Execute(i, "clc", Flagged(Now, "carry", FALSE))
  \/ Execute(i, "cmc", Flagged(Now, "carry", ~flags["carry"]))
  \/ Execute(i, "cmpxchg8b", Cmpxchg8b(i))

Init ==
  /\ \E x \in Starts : regs = x.regs /\ mem = x.mem /\ flags = x.flags
  /\ result = "Ok"
  /\ instr = [function |-> "none"]
  /\ steps = 0

Spec == Init /\ [][Next]_vars

-----------------------------------------------------------------------------
(* Properties                                                              *)

Errors == {"BadMemory", "WroteReadOnlyMemory", "InvalidOpcodeEncoding",
           "WrongSizeExpectation"}

(* Registers and memory keep their widths, and the errors are those that   *)
(* an access or an encoding may give: the values that the logic functions  *)
(* store are never too big for their places.                               *)
TypeOK ==
  /\ regs \in [Registers -> 0 .. Mask("Dword")]
  /\ mem \in [Mapped -> 0 .. Mask("Byte")]
  /\ flags \in [Flags -> BOOLEAN]
  /\ result \in {"Ok"} \union Errors

(* An instruction that fails has changed no register and no byte of        *)
(* memory, though xchg writes twice and the bit tests and cmpxchg8b set a  *)
(* flag before they write: a host can repair the cause and try again.      *)
FailureKeeps == [][result' # "Ok" => UNCHANGED <<regs, mem>>]_vars

(* The machine as bytes at places, see OperandSpec.                        *)
Places == ({"register"} \X (0 .. 7) \X (0 .. 3)) \union ({"memory"} \X Mapped)

Promise == INSTANCE OperandSpec
             WITH cells <- [p \in Places |->
                              IF p[1] = "memory" THEN mem[p[2]]
                              ELSE (regs[p[2]] \div Bytes(p[3])) % Base]

(* Every instruction copies or computes the bytes that it should between   *)
(* the places its operands name, leaves every other byte alone, and        *)
(* changes none if it fails.                                               *)
ImplementsOperands == Promise!Spec

=============================================================================
