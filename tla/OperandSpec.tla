---------------------------- MODULE OperandSpec -----------------------------
(***************************************************************************)
(* What operands promise: registers and memory are one set of byte-sized   *)
(* cells, an operand is a sequence of places among them, lowest byte       *)
(* first, and an instruction copies bytes from places to places.  It does  *)
(* so completely or, when a place is not accessible, not at all.           *)
(***************************************************************************)
EXTENDS Integers, Sequences, SequencesExt, TLC

CONSTANTS
  ByteBits,         \* width of a byte
  WriteableMemory,  \* addresses from here on are writeable
  Sections,         \* the mapped sections, sets of addresses
  FlagBits          \* the flags, and the bits that they are stored in

VARIABLES
  cells,   \* the byte at every place
  flags,   \* the flags
  result,  \* "Ok" or an error
  instr    \* the instruction executed last: function, operand size, arguments

specVars == <<cells, flags, result, instr>>

Values  == 2 ^ ByteBits
AllOnes == Values - 1

Register(r, w) == [k \in 1 .. w |-> <<"register", r, k - 1>>]
Memory(a, w)   == [k \in 1 .. w |-> <<"memory", a + k - 1>>]

AX(w) == Register(0, w)
CX(w) == Register(1, w)
DX(w) == Register(2, w)
BX(w) == Register(3, w)
SecondOfAX == << <<"register", 0, 1>> >>

At(ps) == [k \in DOMAIN ps |-> cells[ps[k]]]

Number(bs) == FoldLeft(LAMBDA n, k : n + bs[k] * Values ^ (k - 1), 0, [k \in DOMAIN bs |-> k])
Bytes(n, w) == [k \in 1 .. w |-> (n \div Values ^ (k - 1)) % Values]

BitsOf(bs) == { k \in 0 .. ByteBits * Len(bs) - 1 :
                  (bs[(k \div ByteBits) + 1] \div 2 ^ (k % ByteBits)) % 2 = 1 }

Packed(K, w) ==
  [k \in 1 .. w |-> CHOOSE b \in 0 .. AllOnes :
     BitsOf(<<b>>) = { j \in 0 .. ByteBits - 1 : (k - 1) * ByteBits + j \in K }]

Filled(w, b) == [k \in 1 .. w |-> b]
Sign(bs)     == IF Last(bs) * 2 >= Values THEN AllOnes ELSE 0

(* bs with w bytes: followed by zeros, or by copies of the sign.           *)
Zeros(bs, w)  == bs \o Filled(w - Len(bs), 0)
Signed(bs, w) == bs \o Filled(w - Len(bs), Sign(bs))

-----------------------------------------------------------------------------
(* Operands                                                                *)

WidthOf(s) == CASE s = "Byte" -> 1 [] s = "Word" -> 2 [] s = "Dword" -> 4

Content(r) == IF r = -1 THEN 0 ELSE Number(At(Register(r, 4)))

(* The sum of what an address is made of.                                  *)
Address(l) ==
  (CASE l.kind = "Address"         -> l.addr
     [] l.kind = "RegisterAddress" -> Content(l.reg)
     [] l.kind = "ModRMAddress"    -> l.offset + Content(l.reg)
     [] l.kind = "SIBAddress" -> l.offset + Content(l.base) + l.scale * Content(l.index))
    % Values ^ 4

InRegister(l) == l.kind = "RegisterValue"
InMemory(l)   == l.kind \notin {"RegisterValue", "Immediate"}

(* The places of an operand that has any.  A byte register has the second  *)
(* place of another register if its number is 4 or more.                   *)
PlacesOf(l) ==
  CASE InMemory(l) -> Memory(Address(l), WidthOf(l.size))
    [] InRegister(l) /\ l.size = "Byte" -> << <<"register", l.reg % 4, l.reg \div 4>> >>
    [] OTHER -> Register(l.reg, WidthOf(l.size))

Contents(l) == IF l.kind = "Immediate" THEN Bytes(l.n, WidthOf(l.size)) ELSE At(PlacesOf(l))

-----------------------------------------------------------------------------
(* An instruction                                                          *)

Width(i)  == IF i.size_override THEN 2 ELSE 4
Target(i) == PlacesOf(i.args[1])
Source(i) == Contents(i.args[2])
Holds(i)  == flags[i.cc.flag] = i.cc.is

BitWrites == {"bit_test_set", "bit_test_reset", "bit_test_complement"}

(* The bit that a bit test selects: its index counts modulo the width.     *)
Selected(i) == Number(Signed(Source(i), 4)) % (ByteBits * Width(i))
Before(i)   == BitsOf(Contents(i.args[1]))
After(i)    ==
  CASE i.function = "bit_test_set"        -> Before(i) \union {Selected(i)}
    [] i.function = "bit_test_reset"      -> Before(i) \ {Selected(i)}
    [] i.function = "bit_test_complement" ->
         IF Selected(i) \in Before(i) THEN Before(i) \ {Selected(i)}
         ELSE Before(i) \union {Selected(i)}

Scanned(i) ==
  IF i.function = "bit_scan_forward"
  THEN CHOOSE k \in Before(i) : \A j \in Before(i) : k <= j
  ELSE CHOOSE k \in Before(i) : \A j \in Before(i) : k >= j

(* cmpxchg8b: eight bytes in memory, compared with edx:eax.                *)
Eight(i) == Memory(Address(i.args[1]), 8)
Equal(i) == At(Eight(i)) = At(AX(4) \o DX(4))

(* xlatb: the byte of a table at ebx, or in the first 64 kB at bx.         *)
Translated(i) ==
  Memory((Number(At(BX(Width(i)))) + Number(At(AX(1)))) % Values ^ Width(i), 1)

(* cwde takes 0x8000 to be positive.                                       *)
SignOfWord(bs) == IF bs = <<0, Values \div 2>> THEN 0 ELSE Sign(bs)

(* The bits of the flags register; bit 1 is always set.                    *)
FlagsRegister == {1} \union { FlagBits[x] : x \in { x \in DOMAIN flags : flags[x] } }

(* The operands that are read, and the places.                             *)
Reads(i) ==
  CASE i.function \in {"mov", "movzx_8bit", "movzx_16bit", "movsx_8bit", "movsx_16bit"}
         -> {i.args[2]}
    [] i.function \in {"xchg", "bit_test"} \union BitWrites -> {i.args[1], i.args[2]}
    [] i.function \in {"bswap", "bit_scan_forward", "bit_scan_reverse"} -> {i.args[1]}
    [] i.function = "cmovcc_native" -> IF Holds(i) THEN {i.args[2]} ELSE {}
    [] OTHER -> {}

Read(i) ==
  { PlacesOf(l) : l \in { l \in Reads(i) : InMemory(l) } }
    \union (CASE i.function = "cmpxchg8b" -> {Eight(i)}
              [] i.function = "xlatb"     -> {Translated(i)}
              [] OTHER                    -> {})

(* The places that are written, and their bytes.                           *)
NoWrite == << <<>>, <<>> >>

Written(i) ==
  LET f == i.function
      w == Width(i)
  IN  CASE f = "mov"         -> <<Target(i), Source(i)>>
        [] f = "xchg"        -> <<Target(i) \o PlacesOf(i.args[2]), Source(i) \o At(Target(i))>>
        [] f = "movzx_8bit"  -> <<Target(i), Zeros(Source(i), w)>>
        [] f = "movsx_8bit"  -> <<Target(i), Signed(Source(i), w)>>
        [] f = "movzx_16bit" -> <<Target(i), Zeros(Source(i), 4)>>
        [] f = "movsx_16bit" -> <<Target(i), Signed(Source(i), 4)>>
        [] f = "lea"         -> <<Target(i), Bytes(Address(i.args[2]), w)>>
        [] f = "bswap"       -> <<Target(i), Reverse(At(Target(i)))>>
        [] f \in BitWrites   -> <<Target(i), Packed(After(i), w)>>
        [] f \in {"bit_scan_forward", "bit_scan_reverse"} /\ Before(i) # {}
                             -> <<PlacesOf(i.args[2]), Bytes(Scanned(i), w)>>
        [] f = "cbw_cwde"    -> IF i.size_override THEN <<AX(2), Signed(At(AX(1)), 2)>>
                                ELSE <<AX(4), At(AX(2)) \o Filled(2, SignOfWord(At(AX(2))))>>
        [] f = "cdq_cwd"     -> <<DX(w), Filled(w, Sign(At(AX(w))))>>
        [] f = "xlatb"       -> <<AX(1), At(Translated(i))>>
        [] f = "setcc_8bit"  -> <<Target(i), <<IF Holds(i) THEN 1 ELSE 0>> >>
        [] f = "cmovcc_native" -> IF Holds(i) THEN <<Target(i), Source(i)>> ELSE NoWrite
        [] f = "lahf"        -> <<SecondOfAX, Packed(FlagsRegister, 1)>>
        [] f = "cmpxchg8b"   -> IF Equal(i) THEN <<Eight(i), At(BX(4) \o CX(4))>>
                                ELSE <<AX(4) \o DX(4), At(Eight(i))>>
        [] OTHER             -> NoWrite

(* The flags afterwards.  sahf sets those above its byte to zero.          *)
FlagsAfter(i) ==
  LET f == i.function
  IN  CASE f \in {"bit_test"} \union BitWrites
                            -> [flags EXCEPT !["carry"] = Selected(i) \in Before(i)]
        [] f \in {"bit_scan_forward", "bit_scan_reverse"}
                            -> [flags EXCEPT !["zero"] = Before(i) = {}]
        [] f = "cmpxchg8b"  -> [flags EXCEPT !["zero"] = Equal(i)]
        [] f = "sahf" -> [x \in DOMAIN flags |-> FlagBits[x] \in BitsOf(At(SecondOfAX))]
        [] f = "stc"        -> [flags EXCEPT !["carry"] = TRUE]
        [] f = "clc"        -> [flags EXCEPT !["carry"] = FALSE]
        [] f = "cmc"        -> [flags EXCEPT !["carry"] = ~@]
        [] OTHER            -> flags

-----------------------------------------------------------------------------

(* Memory is accessible within one section; registers are always.          *)
InMemoryOf(ps) == { ps[k][2] : k \in { k \in DOMAIN ps : ps[k][1] = "memory" } }

Accessible(ps) == InMemoryOf(ps) # {} => \E x \in Sections : InMemoryOf(ps) \subseteq x
Writeable(ps)  == Accessible(ps) /\ \A a \in InMemoryOf(ps) : a >= WriteableMemory

(* Encodings that no opcode stands for, and btr r/m32, imm8, which fails.  *)
Refused(i) ==
  \/ i.function = "lea" /\ ~InMemory(i.args[2])
  \/ i.function = "cmpxchg8b" /\ ~InMemory(i.args[1])
  \/ /\ i.function = "bit_test_reset" /\ Width(i) = 4
     /\ i.args[2].kind = "Immediate" /\ i.args[2].size = "Byte"

Readable(i)  == ~Refused(i) /\ \A ps \in Read(i) : Accessible(ps)
Possible(i)  == Readable(i) /\ (Written(i) # NoWrite => Writeable(Written(i)[1]))

(* All bytes are written at once, and no others; as many as there are      *)
(* places.                                                                 *)
Does(i) ==
  LET write == Written(i)
      ps    == write[1]
      bs    == write[2]
      old   == cells
  IN  /\ Len(ps) = Len(bs)
      /\ cells' = [p \in DOMAIN old |->
                     IF \E k \in DOMAIN ps : ps[k] = p
                     THEN bs[CHOOSE k \in DOMAIN ps : ps[k] = p] ELSE old[p]]
      /\ flags' = FlagsAfter(i)
      /\ result' = "Ok"

(* A failure leaves registers and memory as they were, and the flags, too, *)
(* unless it is the write that failed.                                     *)
Fails(i) ==
  /\ cells' = cells
  /\ flags' = flags \/ (Readable(i) /\ flags' = FlagsAfter(i))
  /\ result' # "Ok"

Execute(i) ==
  /\ result = "Ok"
  /\ IF Possible(i) THEN Does(i) ELSE Fails(i)

(* Every step executes the instruction that instr then names.              *)
Next == \E i \in {instr'} : Execute(i)

Init == result = "Ok" /\ instr = [function |-> "none"]

Spec == Init /\ [][Next]_specVars

=============================================================================
